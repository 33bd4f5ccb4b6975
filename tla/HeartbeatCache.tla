--------------------------- MODULE HeartbeatCache ---------------------------
(***************************************************************************)
(* The mongo heartbeat cache (datasource/mongo/heartbeat/cache/            *)
(* heartbeat.go) and the instance collection it guards.                    *)
(*                                                                         *)
(*  - a heartbeat request updates the instance's refresh_time and hands    *)
(*    a task to cacheChan, a bounded channel (addHeartbeatTask);           *)
(*  - workerNum goroutines receive tasks and Set a go-cache item with the  *)
(*    task's ttl;                                                          *)
(*  - the go-cache janitor removes expired items (DeleteExpired) and then  *)
(*    calls OnEvicted -> cleanInstance for each of them, one at a time;    *)
(*  - RemoveCacheInstance deletes an item; go-cache calls OnEvicted for  *)
(*    it too, on the caller's goroutine;                                  *)
(*  - cleanInstance re-reads the document and deletes it unless its       *)
(*    refresh_time is younger than Interval * (Times + 1);                 *)
(*  - the refresh_time TTL index of the collection (mongo.go) deletes      *)
(*    documents not refreshed for ExpireAfter.                             *)
(*                                                                         *)
(* Time is kept relative: db[i] is the age of instance i's refresh_time    *)
(* and items[i] is the go-cache item's expiration minus now.  Both are     *)
(* capped where every comparison of the code gives the same answer, so    *)
(* the state space is finite while time advances forever.                  *)
(***************************************************************************)
EXTENDS Integers, Sequences, FiniteSets, TLC

CONSTANTS
    Instances,    \* instance ids
    Workers,      \* the heartbeat worker goroutines (workerNum)
    Capacity,     \* capacity of cacheChan (cacheCapacity)
    DefaultTTL,   \* defaultTTL
    HealthTTL,    \* [Instances -> Int]: HealthCheck.Interval * (Times + 1)
    ExpireAfter,  \* expireAfterSeconds of the refresh_time index (defaultExpireTime)
    NoTask        \* a worker that holds no task

ASSUME /\ Capacity \in Nat \ {0}
       /\ DefaultTTL \in Nat \ {0}
       /\ HealthTTL \in [Instances -> Int]
       /\ ExpireAfter \in Nat

(* addHeartbeatTask: "Unassigned setting default value is 30s".            *)
WithDefaultTTL(ttl) == IF ttl <= 0 THEN DefaultTTL ELSE ttl

(* cleanInstance: the TTL of the stored instance, from its health check.   *)
EffectiveTTL(i) == IF HealthTTL[i] <= 0 THEN DefaultTTL ELSE HealthTTL[i]

ASSUME \A i \in Instances : EffectiveTTL(i) <= ExpireAfter

AgeCap == ExpireAfter + 1
TaskTTLs == {WithDefaultTTL(HealthTTL[i]) : i \in Instances}
MaxTTL == CHOOSE t \in TaskTTLs : \A u \in TaskTTLs : u <= t
Task   == [inst : Instances, ttl : 1..MaxTTL]

(* isOutDate (sic): TRUE when the refresh is still within the TTL.        *)
IsOutDate(refreshAge, ttl) == refreshAge <= ttl

VARIABLES
    db,         \* instance collection: id -> age of its refresh_time
    items,      \* instanceHeartbeatStore: id -> expiration minus now
    cacheChan,  \* the heartbeat task channel
    held,       \* task a worker has received and not yet Set
    evicted,    \* items removed by DeleteExpired, awaiting OnEvicted
    cleaner,    \* the cleanInstance in progress on each goroutine
    alive,      \* instances whose client still sends heartbeats
    pending     \* steps left of the instance's current heartbeat request

vars == <<db, items, cacheChan, held, evicted, cleaner, alive, pending>>

Idle == [pc |-> "idle", inst |-> CHOOSE i \in Instances : TRUE, read |-> 0]

(* The goroutines that run OnEvicted: the janitor, and a caller of        *)
(* RemoveCacheInstance.                                                   *)
Cleaners == {"janitor", "caller"}

(***************************************************************************)
(* A fresh process over whatever the collection holds: the cache, the     *)
(* channel and the workers start empty (init()).                          *)
(***************************************************************************)
Init ==
    /\ \E ids \in SUBSET Instances :
          db \in [ids -> 0..AgeCap]
    /\ items = <<>>
    /\ cacheChan = <<>>
    /\ held = [w \in Workers |-> NoTask]
    /\ evicted = {}
    /\ cleaner = [g \in Cleaners |-> Idle]
    /\ alive = Instances
    /\ pending = [i \in Instances |-> {}]

Remove(f, i) == [j \in DOMAIN f \ {i} |-> f[j]]
Upsert(f, i, v) == [j \in DOMAIN f \cup {i} |-> IF j = i THEN v ELSE f[j]]

-----------------------------------------------------------------------------
(* The heartbeat request of instance i (the plugin's Heartbeat, not under  *)
(* src/): findInstance; if the instance is missing the client registers   *)
(* it again.  The remaining steps run in either order.                     *)
HeartbeatBegin(i) ==
    /\ i \in alive
    /\ pending[i] = {}
    /\ IF i \in DOMAIN db
          THEN /\ pending' = [pending EXCEPT ![i] = {"task", "update"}]
               /\ UNCHANGED db
          ELSE /\ db' = db @@ (i :> 0)
               /\ pending' = [pending EXCEPT ![i] = {"task"}]
    /\ UNCHANGED <<items, cacheChan, held, evicted, cleaner, alive>>

(* Mutant: the send is taken with the channel already full.               *)
addHeartbeatTaskOverfull(i) ==
    /\ "task" \in pending[i]
    /\ \/ /\ Len(cacheChan) <= Capacity
          /\ cacheChan' = Append(cacheChan,
                            [inst |-> i, ttl |-> WithDefaultTTL(HealthTTL[i])])
          /\ pending' = [pending EXCEPT ![i] = @ \ {"task"}]
       \/ /\ Len(cacheChan) = Capacity
          /\ pending' = [pending EXCEPT ![i] = {}]
          /\ UNCHANGED cacheChan
    /\ UNCHANGED <<db, items, held, evicted, cleaner, alive>>

(* addHeartbeatTask: send on cacheChan, or fail with ErrHeartbeatTimeout   *)
(* once the channel has stayed full for heartbeatTaskTimeout.             *)
addHeartbeatTask(i) ==
    /\ "task" \in pending[i]
    /\ \/ /\ Len(cacheChan) < Capacity
          /\ cacheChan' = Append(cacheChan,
                            [inst |-> i, ttl |-> WithDefaultTTL(HealthTTL[i])])
          /\ pending' = [pending EXCEPT ![i] = @ \ {"task"}]
       \/ /\ Len(cacheChan) = Capacity
          /\ pending' = [pending EXCEPT ![i] = {}]
          /\ UNCHANGED cacheChan
    /\ UNCHANGED <<db, items, held, evicted, cleaner, alive>>

(* updateInstance: FindOneAndUpdate sets refresh_time to now; on a         *)
(* missing document the error ends the request.                           *)
updateInstance(i) ==
    /\ "update" \in pending[i]
    /\ IF i \in DOMAIN db
          THEN /\ db' = [db EXCEPT ![i] = 0]
               /\ pending' = [pending EXCEPT ![i] = @ \ {"update"}]
          ELSE /\ pending' = [pending EXCEPT ![i] = {}]
               /\ UNCHANGED db
    /\ UNCHANGED <<items, cacheChan, held, evicted, cleaner, alive>>

(* A worker goroutine receives a task from cacheChan ...                  *)
WorkerReceive(w) ==
    /\ held[w] = NoTask
    /\ cacheChan # <<>>
    /\ held' = [held EXCEPT ![w] = Head(cacheChan)]
    /\ cacheChan' = Tail(cacheChan)
    /\ UNCHANGED <<db, items, evicted, cleaner, alive, pending>>

(* ... and Sets the item, replacing any item of that instance.            *)
WorkerSet(w) ==
    /\ held[w] # NoTask
    /\ items' = Upsert(items, held[w].inst, held[w].ttl)
    /\ held' = [held EXCEPT ![w] = NoTask]
    /\ UNCHANGED <<db, cacheChan, evicted, cleaner, alive, pending>>

(* The janitor's DeleteExpired: every item past its expiration leaves the *)
(* cache at once; OnEvicted is then called for each, on the same          *)
(* goroutine, before the next run.                                        *)
DeleteExpired ==
    LET expired == {i \in DOMAIN items : items[i] < 0} IN
    /\ evicted = {}
    /\ cleaner["janitor"].pc = "idle"
    /\ expired # {}
    /\ evicted' = expired
    /\ items' = [i \in DOMAIN items \ expired |-> items[i]]
    /\ UNCHANGED <<db, cacheChan, held, cleaner, alive, pending>>

(* RemoveCacheInstance: Delete removes the item under the cache's lock    *)
(* and, the item being there, calls OnEvicted -> cleanInstance on the     *)
(* calling goroutine.  Deleting a missing key changes nothing.            *)
RemoveCacheInstance(i) ==
    /\ "caller" \in Cleaners
    /\ cleaner["caller"].pc = "idle"
    /\ i \in DOMAIN items
    /\ items' = Remove(items, i)
    /\ cleaner' = [cleaner EXCEPT !["caller"] = [pc |-> "find", inst |-> i, read |-> 0]]
    /\ UNCHANGED <<db, cacheChan, held, evicted, alive, pending>>

(* Goroutine g takes up the OnEvicted call of instance i: the janitor the  *)
(* next item DeleteExpired removed, the caller the item it deleted.        *)
TakeEvicted(g, i) ==
    \/ /\ g = "janitor" /\ cleaner[g].pc = "idle"
       /\ i \in evicted
       /\ evicted' = evicted \ {i}
    \/ /\ g = "caller" /\ cleaner[g].pc = "find" /\ cleaner[g].inst = i
       /\ UNCHANGED evicted

(* OnEvicted -> cleanInstance, up to the decision: the session or the     *)
(* transaction fails to start, FindOne/Decode fails (no document), the    *)
(* refresh is recent (return nil), or the instance is to be deleted.      *)
(* FindOne runs on ctx, not on the session: its read is not part of the   *)
(* transaction.                                                           *)
cleanInstanceFind(g, i) ==
    /\ TakeEvicted(g, i)
    /\ IF i \in DOMAIN db /\ ~IsOutDate(db[i], EffectiveTTL(i))
          THEN \/ cleaner' = [cleaner EXCEPT ![g] = [pc |-> "delete", inst |-> i, read |-> db[i]]]
               \/ cleaner' = [cleaner EXCEPT ![g] = Idle] \* StartSession/StartTransaction/FindOne error
          ELSE cleaner' = [cleaner EXCEPT ![g] = Idle]
    /\ UNCHANGED <<db, items, cacheChan, held, alive, pending>>

(* removeDBInstance: DeleteOne on ctx (deleting nothing is no error); on  *)
(* error the transaction is aborted, otherwise committed.  Neither       *)
(* touches the collection: the delete was not made in the session.        *)
cleanInstanceDelete(g) ==
    /\ cleaner[g].pc = "delete"
    /\ \/ db' = Remove(db, cleaner[g].inst)
       \/ UNCHANGED db                   \* DeleteOne error
    /\ cleaner' = [cleaner EXCEPT ![g] = Idle]
    /\ UNCHANGED <<items, cacheChan, held, evicted, alive, pending>>

(* Mutant: the refresh_time index is never created.                      *)
MongoTTLExpireNoIndex(i) == FALSE

(* The TTL monitor of the refresh_time index created by EnsureInstance.   *)
MongoTTLExpire(i) ==
    /\ i \in DOMAIN db
    /\ db[i] > ExpireAfter
    /\ db' = Remove(db, i)
    /\ UNCHANGED <<items, cacheChan, held, evicted, cleaner, alive, pending>>

(* The client of instance i stops for good (crash, partition).            *)
ClientStop(i) ==
    /\ i \in alive
    /\ alive' = alive \ {i}
    /\ UNCHANGED <<db, items, cacheChan, held, evicted, cleaner, pending>>

(* One unit of time passes.                                               *)
Tick ==
    /\ db' = [i \in DOMAIN db |-> IF db[i] < AgeCap THEN db[i] + 1 ELSE AgeCap]
    /\ items' = [i \in DOMAIN items |-> IF items[i] >= 0 THEN items[i] - 1 ELSE -1]
    /\ UNCHANGED <<cacheChan, held, evicted, cleaner, alive, pending>>

HeartbeatStep(i) == addHeartbeatTask(i) \/ updateInstance(i)

Next ==
    \/ \E i \in Instances : HeartbeatBegin(i)
    \/ \E i \in Instances : addHeartbeatTask(i)
    \/ \E i \in Instances : updateInstance(i)
    \/ \E w \in Workers : WorkerReceive(w)
    \/ \E w \in Workers : WorkerSet(w)
    \/ DeleteExpired
    \/ \E i \in Instances : RemoveCacheInstance(i)
    \/ \E g \in Cleaners, i \in Instances : cleanInstanceFind(g, i)
    \/ \E g \in Cleaners : cleanInstanceDelete(g)
    \/ \E i \in Instances : MongoTTLExpire(i)
    \/ \E i \in Instances : ClientStop(i)
    \/ Tick

(* Goroutines that are runnable run: request handlers, workers, the       *)
(* janitor (a ticker), a started cleanInstance, the mongo TTL monitor,    *)
(* and time itself.  Clients are not obliged to send heartbeats, and      *)
(* nothing is obliged to call RemoveCacheInstance.                        *)
Fairness ==
    /\ \A i \in Instances : WF_vars(HeartbeatStep(i))
    /\ \A w \in Workers : WF_vars(WorkerReceive(w)) /\ WF_vars(WorkerSet(w))
    /\ WF_vars(DeleteExpired)
    /\ \A g \in Cleaners, i \in Instances : WF_vars(cleanInstanceFind(g, i))
    /\ \A g \in Cleaners : WF_vars(cleanInstanceDelete(g))
    /\ \A i \in Instances : WF_vars(MongoTTLExpire(i))
    /\ WF_vars(Tick)

Spec == Init /\ [][Next]_vars /\ Fairness

-----------------------------------------------------------------------------
TypeOK ==
    /\ DOMAIN db \subseteq Instances
    /\ \A i \in DOMAIN db : db[i] \in 0..AgeCap
    /\ DOMAIN items \subseteq Instances
    /\ \A i \in DOMAIN items : items[i] \in -1..MaxTTL
    /\ cacheChan \in Seq(Task) /\ Len(cacheChan) <= Capacity
    /\ held \in [Workers -> Task \cup {NoTask}]
    /\ evicted \subseteq Instances
    /\ cleaner \in [Cleaners -> [pc : {"idle", "find", "delete"}, inst : Instances, read : 0..AgeCap]]
    /\ alive \subseteq Instances
    /\ pending \in [Instances -> SUBSET {"task", "update"}]

(* The cleanInstance of goroutine g deletes instance i in this step.      *)
EvictsNow(g, i) ==
    /\ cleaner[g].pc = "delete" /\ cleaner[g].inst = i
    /\ i \in DOMAIN db /\ i \notin DOMAIN db'

(* Race guard (spec section 3): an eviction never deletes an instance     *)
(* whose refresh_time is within its TTL.  cleanInstance checks the age    *)
(* with FindOne and deletes with DeleteOne outside the transaction, so a  *)
(* heartbeat between the two is lost.                                     *)
NoFreshInstanceEvicted ==
    [][\A g \in Cleaners, i \in Instances :
         EvictsNow(g, i) => ~IsOutDate(db[i], EffectiveTTL(i))]_vars

(* An instance whose client has stopped is eventually gone from the       *)
(* collection: by cleanInstance, or else by the refresh_time TTL index.   *)
StoppedInstanceRemoved ==
    \A i \in Instances : (i \notin alive /\ i \in DOMAIN db) ~> (i \notin DOMAIN db)

=============================================================================
