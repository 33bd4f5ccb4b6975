---------------------------- MODULE SelfHeartbeat ----------------------------
(***************************************************************************)
(* The service center's registration of itself (datasource/mongo/service/ *)
(* engine.go): SelfRegister, the autoSelfHeartBeat goroutines and         *)
(* SelfUnregister.  Every goroutine shares the global core.Instance, whose *)
(* InstanceId registryInstance first clears and later sets; the store is  *)
(* the set of the service center's instance documents.  A failed          *)
(* heartbeat makes a loop call SelfRegister, which starts one more loop   *)
(* (autoSelfHeartBeat) and returns to the first.                          *)
(*                                                                         *)
(* The service center's service document is never deleted                 *)
(* (ErrNotAllowDeleteSC), so registryService can only fail.  A heartbeat   *)
(* that succeeds changes nothing here and is a stutter step.  Instances    *)
(* are evicted by the heartbeat reconciler or the TTL index when          *)
(* heartbeats are late (Evict, at most MaxEvictions times); an instance   *)
(* no loop heartbeats any more expires by the TTL index (Expire).          *)
(*                                                                         *)
(* Two abstractions keep the state finite.  Instance ids are uuids: a      *)
(* fresh one is any id of InstIds that nothing refers to (Fresh).  Loops   *)
(* is the number of goroutines represented: the code spawns without bound, *)
(* and a spawn when every slot is taken starts a goroutine that behaves    *)
(* like those already running and is not kept.                             *)
(***************************************************************************)
EXTENDS Naturals, FiniteSets

CONSTANTS
    InstIds,       \* instance ids the uuid generator hands out
    NoId,          \* "" as an instance id
    Loops,         \* goroutine slots for heartbeat loops
    MaxEvictions,  \* evictions of the service center's instance in a behaviour
    MaxFaults      \* failed store calls in a behaviour

ASSUME NoId \notin InstIds /\ MaxEvictions \in Nat /\ MaxFaults \in Nat

Off == [pc |-> "off"]

VARIABLES
    scInst,     \* the service center's instance documents in the store
    instId,     \* core.Instance.InstanceId
    loop,       \* each goroutine slot: its pc (and the id registered)
    evictions,  \* evictions so far
    faults,     \* failed store calls so far
    stop        \* the server is shutting down (SelfUnregister ran)

vars == <<scInst, instId, loop, evictions, faults, stop>>

(* A store call may fail while the fault budget lasts.                    *)
Fail == faults < MaxFaults /\ faults' = faults + 1

Running == {l \in Loops : loop[l].pc # "off"}

(* main's SelfRegister has registered instance i0 and started one loop.   *)
Init ==
    \E i0 \in InstIds, l0 \in Loops :
        /\ scInst = {i0}
        /\ instId = i0
        /\ loop = [l \in Loops |-> IF l = l0 THEN [pc |-> "wait"] ELSE Off]
        /\ evictions = 0
        /\ faults = 0
        /\ stop = FALSE

Goto(l, pc) == loop' = [loop EXCEPT ![l] = [pc |-> pc]]

(* Ids a loop has registered and not yet stored in core.Instance.          *)
Pending == {loop[l].res : l \in {k \in Loops : loop[k].pc = "set"}}

(* The ids the uuid generator may return: none the system refers to.       *)
Fresh == InstIds \ (scInst \cup Pending \cup {instId})

-----------------------------------------------------------------------------
(* The timer fires and selfHeartBeat sends a heartbeat for the current     *)
(* core.Instance.InstanceId; it fails when that instance is not in the     *)
(* store (or the call fails), and the loop calls SelfRegister.             *)
selfHeartBeat(l) ==
    /\ loop[l].pc = "wait" /\ ~stop
    /\ IF instId \notin scInst THEN UNCHANGED faults ELSE Fail
    /\ Goto(l, "regsvc")
    /\ UNCHANGED <<scInst, instId, evictions, faults, stop>>

(* SelfRegister: registryService (ExistService, then GetService or        *)
(* RegisterService); an error ends SelfRegister, and the loop goes on.     *)
registryService(l) ==
    /\ loop[l].pc = "regsvc"
    /\ \/ Goto(l, "clear") /\ UNCHANGED faults
       \/ Fail /\ Goto(l, "wait")
    /\ UNCHANGED <<scInst, instId, evictions, faults, stop>>

(* registryInstance: core.Instance.InstanceId = "".                        *)
registryInstanceClear(l) ==
    /\ loop[l].pc = "clear"
    /\ instId' = NoId
    /\ Goto(l, "call")
    /\ UNCHANGED <<scInst, evictions, faults, stop>>

(* RegisterInstance with the request built from core.Instance now: with   *)
(* an id (another loop set one meanwhile) Heartbeat reuses a live          *)
(* instance, or the id is registered again; without one a fresh id is     *)
(* registered.  An error ends registryInstance, and SelfRegister still    *)
(* starts a loop.                                                          *)
registryInstanceCall(l) ==
    /\ loop[l].pc = "call"
    /\ \/ /\ instId # NoId
          /\ scInst' = scInst \cup {instId}
          /\ loop' = [loop EXCEPT ![l] = [pc |-> "set", res |-> instId]]
          /\ UNCHANGED faults
       \/ /\ instId = NoId
          /\ \E i \in Fresh :
                /\ scInst' = scInst \cup {i}
                /\ loop' = [loop EXCEPT ![l] = [pc |-> "set", res |-> i]]
          /\ UNCHANGED faults
       \/ /\ Fail
          /\ Goto(l, "spawn")
          /\ UNCHANGED scInst
    /\ UNCHANGED <<instId, evictions, stop>>

(* Mutant: the registered id is not stored in core.Instance.              *)
registryInstanceSetNoWrite(l) ==
    /\ loop[l].pc = "set"
    /\ Goto(l, "spawn")
    /\ UNCHANGED <<scInst, instId, evictions, faults, stop>>

(* core.Instance.InstanceId = respI.InstanceId.                            *)
registryInstanceSet(l) ==
    /\ loop[l].pc = "set"
    /\ instId' = loop[l].res
    /\ Goto(l, "spawn")
    /\ UNCHANGED <<scInst, evictions, faults, stop>>

(* SelfRegister: autoSelfHeartBeat starts a new loop in a free slot; the  *)
(* calling loop returns to its select.                                     *)
autoSelfHeartBeat(l) ==
    /\ loop[l].pc = "spawn"
    /\ IF Loops \ Running = {} THEN Goto(l, "wait")
       ELSE \E k \in Loops \ Running :
              loop' = [loop EXCEPT ![l] = [pc |-> "wait"], ![k] = [pc |-> "wait"]]
    /\ UNCHANGED <<scInst, instId, evictions, faults, stop>>

(* The loop's select sees ctx.Done and the goroutine returns.              *)
LoopExit(l) ==
    /\ loop[l].pc = "wait" /\ stop
    /\ Goto(l, "off")
    /\ UNCHANGED <<scInst, instId, evictions, faults, stop>>

(* SelfUnregister at shutdown: nothing when core.Instance.InstanceId is   *)
(* empty, else UnregisterInstance of it (which may fail).                  *)
SelfUnregister ==
    /\ ~stop
    /\ \/ instId = NoId /\ UNCHANGED <<scInst, faults>>
       \/ instId # NoId /\ scInst' = scInst \ {instId} /\ UNCHANGED faults
       \/ instId # NoId /\ Fail /\ UNCHANGED scInst
    /\ stop' = TRUE
    /\ UNCHANGED <<instId, loop, evictions>>

(* The reconciler or the TTL index deletes an instance whose heartbeats   *)
(* are late.                                                               *)
Evict ==
    /\ evictions < MaxEvictions
    /\ instId \in scInst
    /\ scInst' = scInst \ {instId}
    /\ evictions' = evictions + 1
    /\ UNCHANGED <<instId, loop, faults, stop>>

(* The TTL index deletes an instance no loop heartbeats any more.          *)
Expire ==
    /\ \E i \in scInst \ (Pending \cup {instId}) : scInst' = scInst \ {i}
    /\ UNCHANGED <<instId, loop, evictions, faults, stop>>

LoopStep(l) ==
    \/ selfHeartBeat(l) \/ registryService(l) \/ registryInstanceClear(l)
    \/ registryInstanceCall(l) \/ registryInstanceSet(l) \/ autoSelfHeartBeat(l)
    \/ LoopExit(l)

Next == (\E l \in Loops : LoopStep(l)) \/ SelfUnregister \/ Evict \/ Expire

(* Every goroutine is scheduled and its timer fires: weak fairness per     *)
(* loop; the TTL index removes an instance without heartbeats.  Shutdown   *)
(* and evictions of the live instance need not happen.                     *)
Spec == /\ Init /\ [][Next]_vars
        /\ \A l \in Loops : WF_vars(LoopStep(l))
        /\ WF_vars(Expire)

-----------------------------------------------------------------------------
(* The service center keeps one heartbeat loop: autoSelfHeartBeat is      *)
(* called from main's SelfRegister and again from every SelfRegister a    *)
(* failed heartbeat makes, and the failing loop does not end.              *)
SingleHeartbeatLoop == Cardinality(Running) <= 1

(* Until shutdown, an instance id of the service center that is not in    *)
(* the store (evicted, or cleared by registryInstance) is eventually      *)
(* replaced by a registered one.                                           *)
ReRegistered ==
    (~stop /\ instId \notin scInst) ~> (stop \/ instId \in scInst)

=============================================================================
