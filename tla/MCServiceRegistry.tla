-------------------------- MODULE MCServiceRegistry --------------------------
EXTENDS ServiceRegistry

(* uuid GetServiceID: the generated id of a key and alias.                *)
MCGenId ==
    [t \in Apps \X Names \X Aliases |-> IF t[2] = "n1" THEN "s1" ELSE "s2"]

(* HeartbeatSet requests name instances of one service: with one caller    *)
(* the collection does not change during the call, and duplicates,        *)
(* distinct instances and missing ones all occur.                         *)
MCHbRequests ==
    LET Elem == [sid : {"s1"}, iid : InstanceIds] IN
    UNION {[1..n -> Elem] : n \in 1..MaxHbSet}

=============================================================================
