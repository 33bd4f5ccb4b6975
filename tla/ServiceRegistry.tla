---------------------------- MODULE ServiceRegistry ----------------------------
(***************************************************************************)
(* The service and instance collections under concurrent API calls of     *)
(* datasource/mongo/service/ms.go and the ClearNoInstanceServices job of   *)
(* engine.go: RegisterService, AddTags, UpdateTag, DeleteTags,             *)
(* DelServicePri (UnregisterService), RegisterInstance,                    *)
(* UnregisterInstance and UpdateInstanceStatus.                            *)
(*                                                                         *)
(* A service key is its app and name (environment and version are folded *)
(* into the app); the unique indexes of EnsureService are the service id  *)
(* and the key, not the alias.  An instance document is its service id    *)
(* and status.  Every call is a series of separate store operations; an   *)
(* early return that changes nothing is a stutter step and is left out.   *)
(* Two ghost variables record what callers were told: acked, the          *)
(* instances whose registration succeeded and that were not released      *)
(* since (by UnregisterInstance or a user's force delete), and expTags,   *)
(* the tags as the successful tag calls, applied in order, leave them.    *)
(***************************************************************************)
EXTENDS Integers, Sequences, FiniteSets, Functions, TLC

CONSTANTS
    Clients,      \* concurrent callers (the clear job among them)
    Apps, Names,  \* service keys: app (with environment and version) and name
    Aliases,      \* service aliases, Empty among them
    Empty,        \* the empty string
    ServiceIds,   \* service ids
    NoId,         \* "" as a service id
    GenId,        \* uuid GetServiceID: [Apps \X Names \X Aliases -> ServiceIds]
    ScServiceId,  \* the service center's own service id
    InstanceIds,  \* instance ids
    Statuses,     \* instance statuses
    TagKeys, TagValues,
    None,         \* no document
    Operations,   \* the API operations callers use
    RequestIds,   \* ids a RegisterService request may name
    MaxHbSet,     \* most instances in a HeartbeatSet request
    StoreFaults   \* TRUE: any store operation may fail

ASSUME Empty \in Aliases /\ StoreFaults \in BOOLEAN
ASSUME GenId \in [Apps \X Names \X Aliases -> ServiceIds] /\ RequestIds \subseteq ServiceIds

Key == [app : Apps, name : Names]
TagMaps == UNION {[S -> TagValues] : S \in SUBSET TagKeys}
NoTags == [k \in {} |-> Empty]
Svc == [key : Key, alias : Aliases, tags : TagMaps]
Inst == [sid : ServiceIds, status : Statuses]
Idle == [op |-> "idle", at |-> "idle"]
(* HeartbeatSet requests: 1 to MaxHbSet (service, instance) elements,     *)
(* duplicates allowed.                                                    *)
HbRequests == UNION {[1..n -> [sid : ServiceIds, iid : InstanceIds]] : n \in 1..MaxHbSet}
Fail == StoreFaults

VARIABLES
    services,   \* service collection: id -> document or None
    inst,       \* instance collection: id -> document or None
    acked,      \* ghost: acknowledged, unreleased instances
    expTags,    \* ghost: the tags the tag calls meant to leave
    cl          \* each caller's call in progress

vars == <<services, inst, acked, expTags, cl>>

Live == {s \in ServiceIds : services[s] # None}
InstancesOf(sid) == {i \in InstanceIds : inst[i] # None /\ inst[i].sid = sid}

(* GetService on the name filter (GeneratorServiceNameFilter), then, for  *)
(* an alias, on the alias filter, which matches app and alias but not the *)
(* name: the id found, or NoId.                                           *)
IdByName(key) ==
    IF \E s \in Live : services[s].key = key
    THEN CHOOSE s \in Live : services[s].key = key ELSE NoId
IdByAlias(key, alias) ==
    IF \E s \in Live : services[s].key.app = key.app /\ services[s].alias = alias
    THEN CHOOSE s \in Live : services[s].key.app = key.app /\ services[s].alias = alias
    ELSE NoId
GetServiceID(key, alias) ==
    IF IdByName(key) = NoId /\ alias # Empty THEN IdByAlias(key, alias) ELSE IdByName(key)

Done(c, ok, id) == cl' = [cl EXCEPT ![c] = [op |-> "regsvc", at |-> "done", ok |-> ok, id |-> id]]

Init ==
    /\ services = [s \in ServiceIds |-> None]
    /\ inst = [i \in InstanceIds |-> None]
    /\ acked = {}
    /\ expTags = [s \in ServiceIds |-> NoTags]
    /\ cl = [c \in Clients |-> Idle]

-----------------------------------------------------------------------------
(* RegisterService: an empty request id is generated from the key and     *)
(* alias; a request with an alias first looks the service up and returns *)
(* the id found (ErrServiceAlreadyExists if it is not the requested one). *)
RegisterServiceBegin(c, key, alias, rid) ==
    LET found == GetServiceID(key, alias)
        req == [op |-> "regsvc", at |-> "insert", key |-> key, alias |-> alias, rid |-> rid]
    IN  /\ cl[c] = Idle /\ "regsvc" \in Operations
        /\ IF alias = Empty THEN cl' = [cl EXCEPT ![c] = req]
           ELSE \/ /\ Fail /\ Done(c, FALSE, NoId)
                \/ /\ found # NoId
                   /\ Done(c, rid = NoId \/ rid = found, found)
                \/ /\ found = NoId
                   /\ cl' = [cl EXCEPT ![c] = req]
        /\ UNCHANGED <<services, inst, acked, expTags>>

(* Insert of the service document.  A duplicate key on either unique     *)
(* index goes on to a lookup; any other error ends the call.              *)
RegisterServiceInsert(c) ==
    LET s == cl[c]
        id == IF s.rid = NoId THEN GenId[<<s.key.app, s.key.name, s.alias>>] ELSE s.rid
        dup == id \in Live \/ IdByName(s.key) # NoId
    IN  /\ s.at = "insert"
        /\ \/ /\ ~dup
              /\ services' = [services EXCEPT ![id] = [key |-> s.key, alias |-> s.alias, tags |-> NoTags]]
              /\ expTags' = [expTags EXCEPT ![id] = NoTags]
              /\ Done(c, TRUE, id)
           \/ /\ dup
              /\ cl' = [cl EXCEPT ![c].at = "dup"]
              /\ UNCHANGED <<services, expTags>>
           \/ /\ Fail /\ Done(c, FALSE, NoId)
              /\ UNCHANGED <<services, expTags>>
        /\ UNCHANGED <<inst, acked>>

(* Mutant: the duplicate-key lookup never reports a conflict.            *)
RegisterServiceDupNoConflict(c) ==
    LET s == cl[c]  found == GetServiceID(s.key, Empty) IN
    /\ s.at = "dup"
    /\ \/ /\ Fail /\ Done(c, FALSE, NoId)
       \/ Done(c, TRUE, found)
    /\ UNCHANGED <<services, inst, acked, expTags>>

(* After a duplicate key: GetServiceID on the key without its alias; the  *)
(* id found (possibly none) is returned unless the request named another *)
(* id.                                                                    *)
RegisterServiceDup(c) ==
    LET s == cl[c]  found == GetServiceID(s.key, Empty) IN
    /\ s.at = "dup"
    /\ \/ /\ Fail /\ Done(c, FALSE, NoId)
       \/ /\ s.rid # NoId /\ found # s.rid
          /\ Done(c, FALSE, NoId)
       \/ /\ s.rid = NoId \/ found = s.rid
          /\ Done(c, TRUE, found)
    /\ UNCHANGED <<services, inst, acked, expTags>>

(* The response.                                                          *)
RegisterServiceReturn(c) ==
    /\ cl[c].at = "done"
    /\ cl' = [cl EXCEPT ![c] = Idle]
    /\ UNCHANGED <<services, inst, acked, expTags>>

-----------------------------------------------------------------------------
(* AddTags: one UpdateService "$set" of the whole tag map.                *)
AddTags(c, sid, tags) ==
    /\ cl[c] = Idle /\ "tags" \in Operations
    /\ sid \in Live
    /\ services' = [services EXCEPT ![sid].tags = tags]
    /\ expTags' = [expTags EXCEPT ![sid] = tags]
    /\ UNCHANGED <<inst, acked, cl>>

(* Mutant: UpdateTag writes a map holding only the updated key.          *)
UpdateTagReadFresh(c, sid, k, v) ==
    LET data == services[sid].tags IN
    /\ cl[c] = Idle /\ "tags" \in Operations
    /\ sid \in Live
    /\ data = NoTags \/ k \in DOMAIN data
    /\ cl' = [cl EXCEPT ![c] = [op |-> "tags", at |-> "write", sid |-> sid,
                                new |-> (k :> v), kind |-> "update", k |-> k, v |-> v]]
    /\ UNCHANGED <<services, inst, acked, expTags>>

(* UpdateTag: GetService; with tags present the key must exist            *)
(* (ErrTagNotExists); the new map is a copy of the read one with the key  *)
(* set.                                                                   *)
UpdateTagRead(c, sid, k, v) ==
    LET data == services[sid].tags IN
    /\ cl[c] = Idle /\ "tags" \in Operations
    /\ sid \in Live
    /\ data = NoTags \/ k \in DOMAIN data
    /\ cl' = [cl EXCEPT ![c] = [op |-> "tags", at |-> "write", sid |-> sid,
                                new |-> (k :> v) @@ data, kind |-> "update", k |-> k, v |-> v]]
    /\ UNCHANGED <<services, inst, acked, expTags>>

(* Mutant: a deleted key is set to the empty string, not removed.       *)
DeleteTagsReadBlank(c, sid, keys) ==
    LET data == services[sid].tags IN
    /\ cl[c] = Idle /\ "tags" \in Operations
    /\ sid \in Live
    /\ data = NoTags \/ keys \subseteq DOMAIN data
    /\ cl' = [cl EXCEPT ![c] = [op |-> "tags", at |-> "write", sid |-> sid,
                                new |-> [k \in DOMAIN data |-> IF k \in keys THEN Empty ELSE data[k]],
                                kind |-> "delete", keys |-> keys]]
    /\ UNCHANGED <<services, inst, acked, expTags>>

(* DeleteTags: GetService; with tags present every key must exist; the    *)
(* new map is a copy of the read one without the keys.                    *)
DeleteTagsRead(c, sid, keys) ==
    LET data == services[sid].tags IN
    /\ cl[c] = Idle /\ "tags" \in Operations
    /\ sid \in Live
    /\ data = NoTags \/ keys \subseteq DOMAIN data
    /\ cl' = [cl EXCEPT ![c] = [op |-> "tags", at |-> "write", sid |-> sid,
                                new |-> Restrict(data, DOMAIN data \ keys),
                                kind |-> "delete", keys |-> keys]]
    /\ UNCHANGED <<services, inst, acked, expTags>>

(* The map a tag call means to leave, applied to the one before it.      *)
Intended(s, before) ==
    IF s.kind = "update" THEN (s.k :> s.v) @@ before
    ELSE Restrict(before, DOMAIN before \ s.keys)

(* UpdateTag and DeleteTags: UpdateService "$set" of the whole new map;   *)
(* no matching service document (deleted meanwhile) is an error.          *)
TagsWrite(c) ==
    LET s == cl[c] IN
    /\ s.at = "write"
    /\ \/ /\ s.sid \in Live
          /\ services' = [services EXCEPT ![s.sid].tags = s.new]
          /\ expTags' = [expTags EXCEPT ![s.sid] = Intended(s, expTags[s.sid])]
       \/ /\ s.sid \notin Live \/ Fail
          /\ UNCHANGED <<services, expTags>>
    /\ cl' = [cl EXCEPT ![c] = Idle]
    /\ UNCHANGED <<inst, acked>>

-----------------------------------------------------------------------------
(* DelServicePri, from UnregisterService (rest = None) or from the clear  *)
(* job (rest: the services it has still to look at).                    *)
UnregisterService(c, sid, force) ==
    /\ cl[c] = Idle /\ "delsvc" \in Operations
    /\ cl' = [cl EXCEPT ![c] = [op |-> "del", at |-> "getsvc", sid |-> sid,
                                force |-> force, rest |-> None]]
    /\ UNCHANGED <<services, inst, acked, expTags>>

(* The end of DelServicePri: back to the caller.                          *)
DelEnd(s) == IF s.rest = None THEN Idle ELSE [op |-> "clear", at |-> "next", todo |-> s.rest]

(* The service center's own service is refused (ErrNotAllowDeleteSC);    *)
(* then GetService: a missing service (ErrServiceNotExists) or an error   *)
(* ends the call; a force delete goes to the batch.                       *)
DelServicePriGet(c) ==
    LET s == cl[c] IN
    /\ s.at = "getsvc"
    /\ \/ /\ s.sid = ScServiceId \/ s.sid \notin Live \/ Fail
          /\ cl' = [cl EXCEPT ![c] = DelEnd(s)]
       \/ /\ s.sid # ScServiceId /\ s.sid \in Live
          /\ cl' = [cl EXCEPT ![c].at = IF s.force THEN "batch" ELSE "deps"]
    /\ UNCHANGED <<services, inst, acked, expTags>>

(* Not forced: GetDependencyConsumerIds; consumers other than itself      *)
(* (ErrDependedOnConsumer) or an error end the call.  Dependencies are    *)
(* not modelled: either answer is possible.                               *)
DelServicePriDeps(c) ==
    LET s == cl[c] IN
    /\ s.at = "deps"
    /\ \/ cl' = [cl EXCEPT ![c] = DelEnd(s)]
       \/ cl' = [cl EXCEPT ![c].at = "instances"]
    /\ UNCHANGED <<services, inst, acked, expTags>>

(* Mutant: the deployed-instance check is skipped.                        *)
DelServicePriInstancesNoCheck(c) ==
    LET s == cl[c] IN
    /\ s.at = "instances"
    /\ cl' = [cl EXCEPT ![c].at = "batch"]
    /\ UNCHANGED <<services, inst, acked, expTags>>

(* Not forced: DocExist on the service's instances; any instance          *)
(* (ErrDeployedInstance) or an error ends the call.                       *)
DelServicePriInstances(c) ==
    LET s == cl[c] IN
    /\ s.at = "instances"
    /\ \/ /\ InstancesOf(s.sid) # {} \/ Fail
          /\ cl' = [cl EXCEPT ![c] = DelEnd(s)]
       \/ /\ InstancesOf(s.sid) = {}
          /\ cl' = [cl EXCEPT ![c].at = "batch"]
    /\ UNCHANGED <<services, inst, acked, expTags>>

(* MultiTableBatchUpdate: the service's schemas, rules, instances and the *)
(* service document in one transaction, matched by service id; then       *)
(* DeleteDependencyForDeleteService, whose outcome only changes the       *)
(* reply.  A user's force delete releases the instances it removes.       *)
DelServicePriBatch(c) ==
    LET s == cl[c]  gone == InstancesOf(s.sid) IN
    /\ s.at = "batch"
    /\ \/ /\ services' = [services EXCEPT ![s.sid] = None]
          /\ inst' = [i \in InstanceIds |-> IF i \in gone THEN None ELSE inst[i]]
          /\ acked' = IF s.force /\ s.rest = None THEN acked \ gone ELSE acked
       \/ /\ Fail
          /\ UNCHANGED <<services, inst, acked>>
    /\ cl' = [cl EXCEPT ![c] = DelEnd(s)]
    /\ UNCHANGED expTags

(* ClearNoInstanceServices: GetAllServicesAcrossDomainProject; an error  *)
(* or no service ends the job.                                            *)
ClearNoInstanceServices(c) ==
    /\ cl[c] = Idle /\ "clear" \in Operations
    /\ Live # {}
    /\ cl' = [cl EXCEPT ![c] = [op |-> "clear", at |-> "next", todo |-> Live]]
    /\ UNCHANGED <<services, inst, acked, expTags>>

(* One service of the loop: ShouldClearService (created before the time   *)
(* limit, which either answer may satisfy, and no instance); an error or  *)
(* false goes on to the next one, true to a force UnregisterService.      *)
ClearNext(c) ==
    LET s == cl[c] IN
    /\ s.at = "next"
    /\ IF s.todo = {} THEN cl' = [cl EXCEPT ![c] = Idle]
       ELSE \E sid \in s.todo :
              \/ cl' = [cl EXCEPT ![c].todo = s.todo \ {sid}]
              \/ /\ InstancesOf(sid) = {}
                 /\ cl' = [cl EXCEPT ![c] = [op |-> "del", at |-> "getsvc", sid |-> sid,
                                             force |-> TRUE, rest |-> s.todo \ {sid}]]
    /\ UNCHANGED <<services, inst, acked, expTags>>

-----------------------------------------------------------------------------
(* RegisterInstance with a custom id: Heartbeat (KeepAliveLease) reuses   *)
(* the instance if it exists, ErrInstanceNotExists goes on to             *)
(* RegistryInstance, an error ends the call.  Without an id:              *)
(* PreProcessRegisterInstance gives it a fresh one, or fails.             *)
RegisterInstance(c, sid, iid, custom) ==
    /\ cl[c] = Idle /\ "regins" \in Operations
    /\ LET alive == inst[iid] # None /\ inst[iid].sid = sid IN
       \/ /\ custom /\ alive
          /\ acked' = acked \cup {iid}
          /\ UNCHANGED cl
       \/ /\ IF custom THEN ~alive ELSE inst[iid] = None
          /\ cl' = [cl EXCEPT ![c] = [op |-> "regins", at |-> "registry", sid |-> sid, iid |-> iid]]
          /\ UNCHANGED acked
    /\ UNCHANGED <<services, inst, expTags>>

(* mutil.RegistryInstance: inserts the instance document of an existing  *)
(* service (ErrServiceNotExists otherwise), or fails; the check and the   *)
(* insert are taken as one step.                                          *)
RegistryInstance(c) ==
    LET s == cl[c] IN
    /\ s.at = "registry"
    /\ \/ /\ s.sid \in Live /\ inst[s.iid] = None
          /\ inst' = [inst EXCEPT ![s.iid] = [sid |-> s.sid, status |-> "UP"]]
          /\ acked' = acked \cup {s.iid}
       \/ /\ s.sid \notin Live \/ inst[s.iid] # None \/ Fail
          /\ UNCHANGED <<inst, acked>>
    /\ cl' = [cl EXCEPT ![c] = Idle]
    /\ UNCHANGED <<services, expTags>>

(* UnregisterInstance: Delete on (service id, instance id); nothing       *)
(* deleted is an error.                                                   *)
UnregisterInstance(c, sid, iid) ==
    /\ cl[c] = Idle /\ "unregins" \in Operations
    /\ inst[iid] # None /\ inst[iid].sid = sid
    /\ inst' = [inst EXCEPT ![iid] = None]
    /\ acked' = acked \ {iid}
    /\ UNCHANGED <<services, expTags, cl>>

(* UpdateInstanceStatus: GetInstance (a missing instance or an error ends *)
(* the call) ...                                                          *)
UpdateInstanceStatus(c, sid, iid, st) ==
    /\ cl[c] = Idle /\ "status" \in Operations
    /\ inst[iid] # None /\ inst[iid].sid = sid
    /\ cl' = [cl EXCEPT ![c] = [op |-> "status", at |-> "status", iid |-> iid, st |-> st]]
    /\ UNCHANGED <<services, inst, acked, expTags>>

(* ... then mutil.UpdateInstanceStatus on the copy with the new status;   *)
(* an instance deleted meanwhile is not written.                          *)
UpdateInstanceStatusWrite(c) ==
    LET s == cl[c] IN
    /\ s.at = "status"
    /\ \/ /\ inst[s.iid] # None
          /\ inst' = [inst EXCEPT ![s.iid].status = s.st]
       \/ /\ inst[s.iid] = None \/ Fail
          /\ UNCHANGED inst
    /\ cl' = [cl EXCEPT ![c] = Idle]
    /\ UNCHANGED <<services, acked, expTags>>

-----------------------------------------------------------------------------
(* HeartbeatSet: existFlag keys an element by ServiceId+InstanceId; the   *)
(* first element of a key starts a GetHeartbeatFunc goroutine and counts  *)
(* in noMultiCounter, a later one is skipped.                             *)
HbKey(e) == e.sid \o e.iid
FirstOfKey(req) == {j \in 1..Len(req) : \A k \in 1..j-1 : HbKey(req[k]) # HbKey(req[j])}

(* Mutant: every element starts a goroutine and is counted.               *)
HeartbeatSetNoDedup(c, req) ==
    /\ cl[c] = Idle /\ "hbset" \in Operations
    /\ cl' = [cl EXCEPT ![c] = [op |-> "hbset", at |-> "collect", req |-> req,
                                run |-> 1..Len(req), n |-> Len(req),
                                chan |-> <<>>, rsts |-> <<>>]]
    /\ UNCHANGED <<services, inst, acked, expTags>>

HeartbeatSet(c, req) ==
    /\ cl[c] = Idle /\ "hbset" \in Operations
    /\ cl' = [cl EXCEPT ![c] = [op |-> "hbset", at |-> "collect", req |-> req,
                                run |-> FirstOfKey(req), n |-> Cardinality(FirstOfKey(req)),
                                chan |-> <<>>, rsts |-> <<>>]]
    /\ UNCHANGED <<services, inst, acked, expTags>>

(* The goroutine of element j: KeepAliveLease succeeds for an instance    *)
(* registered under that service and fails otherwise (or on a store       *)
(* error); its InstanceHbRst is sent on instancesHbRst, whose capacity,   *)
(* len(request.Instances), never lets the send block.                     *)
HeartbeatFunc(c, j) ==
    LET s == cl[c]
        e == s.req[j]
        alive == inst[e.iid] # None /\ inst[e.iid].sid = e.sid
        Send(ok) == cl' = [cl EXCEPT ![c].run = @ \ {j},
                                     ![c].chan = Append(@, [sid |-> e.sid, iid |-> e.iid, ok |-> ok])]
    IN
    /\ s.op = "hbset" /\ s.at = "collect" /\ j \in s.run
    /\ \/ alive /\ Send(TRUE)
       \/ (~alive \/ Fail) /\ Send(FALSE)
    /\ UNCHANGED <<services, inst, acked, expTags>>

(* The range over instancesHbRst: each result is appended; when count     *)
(* reaches noMultiCounter the channel is closed and the reply is success  *)
(* only with no failed and some successful result.                        *)
HeartbeatSetCollect(c) ==
    LET s == cl[c] IN
    /\ s.op = "hbset" /\ s.at = "collect" /\ s.chan # <<>>
    /\ LET rsts == Append(s.rsts, Head(s.chan)) IN
       cl' = [cl EXCEPT ![c] =
                IF Len(rsts) = s.n
                THEN [op |-> "hbset", at |-> "hbdone", req |-> s.req, rsts |-> rsts,
                      ok |-> (\A k \in 1..Len(rsts) : rsts[k].ok) /\ rsts # <<>>]
                ELSE [s EXCEPT !.chan = Tail(@), !.rsts = rsts]]
    /\ UNCHANGED <<services, inst, acked, expTags>>

HeartbeatSetReturn(c) ==
    /\ cl[c].at = "hbdone"
    /\ cl' = [cl EXCEPT ![c] = Idle]
    /\ UNCHANGED <<services, inst, acked, expTags>>

Next ==
    \E c \in Clients :
        \/ \E a \in Apps, n \in Names, al \in Aliases, rid \in RequestIds \cup {NoId} :
              RegisterServiceBegin(c, [app |-> a, name |-> n], al, rid)
        \/ RegisterServiceInsert(c) \/ RegisterServiceDup(c) \/ RegisterServiceReturn(c)
        \/ \E sid \in ServiceIds :
              \/ \E t \in TagMaps : AddTags(c, sid, t)
              \/ \E k \in TagKeys, v \in TagValues : UpdateTagRead(c, sid, k, v)
              \/ \E ks \in SUBSET TagKeys \ {{}} : DeleteTagsRead(c, sid, ks)
              \/ \E f \in BOOLEAN : UnregisterService(c, sid, f)
              \/ \E iid \in InstanceIds :
                    \/ \E custom \in BOOLEAN : RegisterInstance(c, sid, iid, custom)
                    \/ UnregisterInstance(c, sid, iid)
                    \/ \E st \in Statuses : UpdateInstanceStatus(c, sid, iid, st)
        \/ TagsWrite(c)
        \/ DelServicePriGet(c) \/ DelServicePriDeps(c) \/ DelServicePriInstances(c)
        \/ DelServicePriBatch(c)
        \/ ClearNoInstanceServices(c) \/ ClearNext(c)
        \/ RegistryInstance(c) \/ UpdateInstanceStatusWrite(c)
        \/ \E req \in HbRequests : HeartbeatSet(c, req)
        \/ \E j \in 1..MaxHbSet : HeartbeatFunc(c, j)
        \/ HeartbeatSetCollect(c) \/ HeartbeatSetReturn(c)

Spec == Init /\ [][Next]_vars

-----------------------------------------------------------------------------
TypeOK ==
    /\ services \in [ServiceIds -> Svc \cup {None}]
    /\ inst \in [InstanceIds -> Inst \cup {None}]
    /\ acked \subseteq InstanceIds
    /\ expTags \in [ServiceIds -> TagMaps]
    /\ \A c \in Clients : cl[c].op \in {"idle", "regsvc", "tags", "del", "clear", "regins", "status", "hbset"}

(* An instance whose RegisterInstance succeeded stays registered until    *)
(* UnregisterInstance or a user's force UnregisterService releases it:    *)
(* a non-force delete refuses a service with instances                    *)
(* (ErrDeployedInstance) and the clear job only removes services without  *)
(* instances, but both check before they delete, in separate operations. *)
AckedInstancesKept ==
    acked \subseteq {i \in InstanceIds : inst[i] # None}

(* The tags of a service are what its successful AddTags, UpdateTag and   *)
(* DeleteTags calls, in the order they wrote, leave: UpdateTag and        *)
(* DeleteTags read the map and write a whole new one later.               *)
TagsAsWritten ==
    \A id \in Live : services[id].tags = expTags[id]

(* RegisterService never reports success without a service id: after a    *)
(* duplicate key it returns the id its second lookup finds.               *)
RegisteredIdNonEmpty ==
    \A c \in Clients : cl[c].at = "done" /\ cl[c].ok => cl[c].id # NoId

(* A HeartbeatSet reply carries one result for each distinct instance the *)
(* request names, however often it is named: goroutines are started per  *)
(* existFlag key and the range stops after noMultiCounter results.       *)
HeartbeatSetOneResultEach ==
    \A c \in Clients : cl[c].at = "hbdone" =>
        LET r == cl[c].rsts
            Named(k) == [sid |-> r[k].sid, iid |-> r[k].iid]
        IN
        /\ {Named(k) : k \in 1..Len(r)} = {cl[c].req[j] : j \in DOMAIN cl[c].req}
        /\ \A k, m \in 1..Len(r) : Named(k) = Named(m) => k = m

=============================================================================
