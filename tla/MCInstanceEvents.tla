-------------------------- MODULE MCInstanceEvents --------------------------
EXTENDS InstanceEvents

CONSTANTS s1, s2, i1, i2, c1, d0, d1

(* Two providers, s1 outside and s2 in the default tenant, one instance    *)
(* each; the consumer c1 watches s2, found before the start, and polls s1 *)
(* with FindInstances, starting with no dependency on it.                  *)
MCSvcOf == (i1 :> s1) @@ (i2 :> s2)
MCDomainOf == (s1 :> d1) @@ (s2 :> d0)
MCDeps == (s1 :> {}) @@ (s2 :> {c1})
MCPolls == c1 :> {s1}

(* The store at start holds the watched provider only: the polled one is   *)
(* created later, so that its consumer finds it while its instances are    *)
(* being registered.                                                       *)
MCInitStores == {{s2}}
=============================================================================
