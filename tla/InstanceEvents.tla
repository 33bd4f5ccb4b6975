--------------------------- MODULE InstanceEvents ---------------------------
(***************************************************************************)
(* The change-event pipeline of the mongo registry (datasource/mongo/     *)
(* event): the watch delivers the changes of the instance and the service *)
(* collections as two streams, each handled in order by its own loop and  *)
(* the two loops running concurrently.  The service stream keeps the sd   *)
(* service cache; InstanceEventHandler.OnEvent releases quota on a        *)
(* DELETE, looks the provider up in that cache (then in the store),       *)
(* queues the change for the syncer and publishes it to the provider's    *)
(* consumers, each a bounded queue that drops when full.  A watching      *)
(* consumer keeps the set of instances it has been told of (view).        *)
(* A consumer also polls some providers with FindInstances: it reads the  *)
(* instances, then subscribes (AddServiceVersionRule), and keeps its view *)
(* when the answer's rev equals the one it sent.                           *)
(*                                                                         *)
(* The syncer's queue (task.SyncerNotify) is left out: nothing in the      *)
(* pipeline reads it back.                                                 *)
(*                                                                         *)
(* Metrics (ReportInstances, ReportServices, ReportFramework) are left     *)
(* out.  Rules are left out of the consumer set: deps is the dependency   *)
(* relation GetAllConsumerIds filters.                                     *)
(***************************************************************************)
EXTENDS Naturals, Sequences, FiniteSets, SequencesExt

CONSTANTS
    Services,      \* service ids
    Insts,         \* instance ids
    Consumers,     \* consumer services that watch their providers
    Domains,       \* tenants (domain/project)
    DefaultDomain, \* default/default
    SvcOf,         \* the provider of each instance
    DomainOf,      \* the tenant of each service
    Deps,          \* the consumers of each provider at start
    Polls,         \* the providers each consumer polls with FindInstances
    QueueCap,      \* capacity of a subscriber's queue
    MaxFaults,     \* failed store reads in a behaviour
    MaxDup         \* events the watch delivers twice in a behaviour

ASSUME /\ DefaultDomain \in Domains
       /\ SvcOf \in [Insts -> Services] /\ DomainOf \in [Services -> Domains]
       /\ Deps \in [Services -> SUBSET Consumers]
       /\ Polls \in [Consumers -> SUBSET Services]
       /\ QueueCap \in Nat \ {0} /\ MaxFaults \in Nat /\ MaxDup \in Nat

VARIABLES
    svcDB,     \* services in the store
    instDB,    \* instances in the store
    gone,      \* ids deleted once (ids are uuids and never come back)
    deps,      \* the dependency relation: provider -> consumers
    svcEvts,   \* the service stream not yet handled
    instEvts,  \* the instance stream not yet handled
    svcCache,  \* sd.Store().Service().Cache()
    quota,     \* instance quota in use per tenant
    queue,     \* each consumer's delivery queue
    view,      \* instances each consumer has been told of
    find,      \* each consumer's FindInstances call per provider
    seen,      \* the revision a consumer holds per provider: <<answer>>
    dropped,   \* a push to the consumer's queue was dropped
    lost,      \* an event was dropped by a store error
    faults, dups

vars == <<svcDB, instDB, gone, deps, svcEvts, instEvts, svcCache, quota,
          queue, view, find, seen, dropped, lost, faults, dups>>

Evt(t, x) == [type |-> t, id |-> x]

InstsOf(S) == {i \in Insts : SvcOf[i] \in S}

FIdle == [pc |-> "idle"]

InDomain(I, d) == {i \in I : DomainOf[SvcOf[i]] = d}

(* What consumer c can see of the instances I: those of its providers.     *)
Visible(c, I) == {i \in I : c \in deps[SvcOf[i]]}

(* The services the store may hold at start.                              *)
InitStores == SUBSET Services

(* The store at start, with the watch about to deliver it as INIT events  *)
(* and every consumer having listed its providers' instances.             *)
Init ==
    \E S \in InitStores, I \in SUBSET Insts :
        /\ I \subseteq InstsOf(S)
        /\ svcDB = S /\ instDB = I /\ gone = {}
        /\ deps = Deps
        /\ svcEvts = SetToSeq({Evt("INIT", s) : s \in S})
        /\ instEvts = SetToSeq({Evt("INIT", i) : i \in I})
        /\ svcCache = {}
        /\ quota = [d \in Domains |-> IF d = DefaultDomain THEN 0
                                       ELSE Cardinality(InDomain(I, d))]
        /\ queue = [c \in Consumers |-> <<>>]
        /\ view = [c \in Consumers |-> {i \in I : c \in Deps[SvcOf[i]]}]
        /\ find = [c \in Consumers |-> [s \in Services |-> FIdle]]
        /\ seen = [c \in Consumers |-> [s \in Services |-> <<>>]]
        /\ dropped = [c \in Consumers |-> FALSE]
        /\ lost = FALSE /\ faults = 0 /\ dups = 0

Handlers == <<svcCache, quota, queue, view, find, seen, dropped, lost, faults, dups>>

-----------------------------------------------------------------------------
(* Writers.  RegisterService inserts a service document.                   *)
CreateService(s) ==
    /\ s \notin svcDB \cup gone
    /\ svcDB' = svcDB \cup {s}
    /\ svcEvts' = Append(svcEvts, Evt("CREATE", s))
    /\ UNCHANGED <<instDB, gone, deps, instEvts>> /\ UNCHANGED Handlers

(* RegisterInstance: the quota is applied, then the document inserted.    *)
RegisterInstance(i) ==
    /\ i \notin instDB \cup gone /\ SvcOf[i] \in svcDB
    /\ instDB' = instDB \cup {i}
    /\ instEvts' = Append(instEvts, Evt("CREATE", i))
    /\ LET d == DomainOf[SvcOf[i]]
       IN quota' = IF d = DefaultDomain THEN quota ELSE [quota EXCEPT ![d] = @ + 1]
    /\ UNCHANGED <<svcDB, gone, deps, svcEvts, svcCache, queue, view,
                   find, seen, dropped, lost, faults, dups>>

(* UnregisterInstance deletes the instance document.                       *)
UnregisterInstance(i) ==
    /\ i \in instDB
    /\ instDB' = instDB \ {i}
    /\ gone' = gone \cup {i}
    /\ instEvts' = Append(instEvts, Evt("DELETE", i))
    /\ UNCHANGED <<svcDB, deps, svcEvts>> /\ UNCHANGED Handlers

(* DelServicePri with force: one MultiTableBatchUpdate deletes the         *)
(* service's instances and then the service; the dependency relation is    *)
(* deleted afterwards (DelServiceDeps).                                    *)
DelServiceBatch(s) ==
    /\ s \in svcDB
    /\ LET I == InstsOf({s}) \cap instDB
       IN /\ instDB' = instDB \ I
          /\ gone' = gone \cup I \cup {s}
          /\ instEvts' = instEvts \o SetToSeq({Evt("DELETE", i) : i \in I})
    /\ svcDB' = svcDB \ {s}
    /\ svcEvts' = Append(svcEvts, Evt("DELETE", s))
    /\ UNCHANGED deps /\ UNCHANGED Handlers

DelServiceDeps(s) ==
    /\ s \in gone /\ deps[s] # {}
    /\ deps' = [deps EXCEPT ![s] = {}]
    /\ UNCHANGED <<svcDB, instDB, gone, svcEvts, instEvts>> /\ UNCHANGED Handlers

-----------------------------------------------------------------------------
(* The service stream: sd updates its cache, then ServiceEventHandler      *)
(* reports metrics.                                                        *)
ServiceOnEvent ==
    /\ svcEvts # <<>>
    /\ LET e == Head(svcEvts)
       IN svcCache' = IF e.type = "DELETE" THEN svcCache \ {e.id}
                      ELSE svcCache \cup {e.id}
    /\ svcEvts' = Tail(svcEvts)
    /\ UNCHANGED <<svcDB, instDB, gone, deps, instEvts, quota, queue,
                   view, find, seen, dropped, lost, faults, dups>>

(* A store read fails while the fault budget lasts.                        *)
Fail == faults < MaxFaults /\ faults' = faults + 1

(* Mutant: the provider is looked up in the cache only.                    *)
ProviderFoundCacheOnly(s) == s \in svcCache

(* The provider as OnEvent resolves it: the cached service, else          *)
(* mutil.GetService from the store ("service in the cache may not         *)
(* ready, query from db once").                                            *)
ProviderFound(s) == s \in svcCache \/ s \in svcDB

(* Mutant: the push never drops, whatever the queue holds.                 *)
PublishInstanceEventNoCap(e, subscribers) ==
    /\ queue' = [c \in Consumers |->
                   IF c \in subscribers THEN Append(queue[c], e) ELSE queue[c]]
    /\ UNCHANGED dropped

(* PublishInstanceEvent: nothing without subscribers; otherwise one push   *)
(* per consumer, a full queue dropping the push and not the others.        *)
PublishInstanceEvent(e, subscribers) ==
    /\ queue' = [c \in Consumers |->
                   IF c \in subscribers /\ Len(queue[c]) < QueueCap
                   THEN Append(queue[c], e) ELSE queue[c]]
    /\ dropped' = [c \in Consumers |->
                     dropped[c] \/ (c \in subscribers /\ Len(queue[c]) >= QueueCap)]

(* After the quota: the provider lookup, the syncer, GetAllConsumerIds and *)
(* the publish; an error or a provider in neither place ends OnEvent.      *)
Notify(e) ==
    LET s == SvcOf[e.id] IN
    \/ /\ ProviderFound(s)
       /\ PublishInstanceEvent(e, deps[s])
       /\ UNCHANGED <<lost, faults>>
    \/ /\ ~ProviderFound(s)
       /\ UNCHANGED <<queue, dropped, lost, faults>>
    \/ /\ Fail
       /\ lost' = TRUE
       /\ UNCHANGED <<queue, dropped>>

(* Mutant: the quota is remanded for every event but INIT.                 *)
OnEventRemandOnCreate ==
    /\ instEvts # <<>>
    /\ LET e == Head(instEvts)
           d == DomainOf[SvcOf[e.id]]
       IN /\ \/ instEvts' = Tail(instEvts) /\ UNCHANGED dups
             \/ dups < MaxDup /\ dups' = dups + 1 /\ UNCHANGED instEvts
          /\ IF e.type = "INIT"
             THEN UNCHANGED <<quota, queue, dropped, lost, faults>>
             ELSE /\ quota' = IF d # DefaultDomain
                              THEN [quota EXCEPT ![d] = @ - 1] ELSE quota
                  /\ Notify(e)
    /\ UNCHANGED <<svcDB, instDB, gone, deps, svcEvts, svcCache, view, find, seen>>

(* InstanceEventHandler.OnEvent on the head of the instance stream.  The   *)
(* watch may deliver the event again (MaxDup): OnEvent has no revision     *)
(* check and handles it as new.                                            *)
OnEvent ==
    /\ instEvts # <<>>
    /\ LET e == Head(instEvts)
           d == DomainOf[SvcOf[e.id]]
       IN /\ \/ instEvts' = Tail(instEvts) /\ UNCHANGED dups
             \/ dups < MaxDup /\ dups' = dups + 1 /\ UNCHANGED instEvts
          /\ IF e.type = "INIT"
             THEN UNCHANGED <<quota, queue, dropped, lost, faults>>
             ELSE /\ quota' = IF e.type = "DELETE" /\ d # DefaultDomain
                              THEN [quota EXCEPT ![d] = @ - 1] ELSE quota
                  /\ Notify(e)
    /\ UNCHANGED <<svcDB, instDB, gone, deps, svcEvts, svcCache, view, find, seen>>

(* A watching consumer takes the next instance event of its queue.         *)
Receive(c) ==
    /\ queue[c] # <<>>
    /\ LET e == Head(queue[c])
       IN view' = [view EXCEPT ![c] = IF e.type = "DELETE" THEN @ \ {e.id}
                                      ELSE @ \cup {e.id}]
    /\ queue' = [queue EXCEPT ![c] = Tail(@)]
    /\ UNCHANGED <<svcDB, instDB, gone, deps, svcEvts, instEvts, svcCache,
                   quota, find, seen, dropped, lost, faults, dups>>

-----------------------------------------------------------------------------
(* FindInstances of provider s by consumer c (findInstance, s not shared): *)
(* the consumer and provider lookups, FindServices and InstancesFilter     *)
(* read the store (taken as one snapshot).  A provider not found ends the   *)
(* call with ErrServiceNotExists and a store error with ErrInternal; both  *)
(* change nothing and the consumer polls again, so they are stutters here. *)
FindRead(c, s) ==
    /\ s \in Polls[c] /\ find[c][s] = FIdle /\ s \in svcDB
    /\ find' = [find EXCEPT ![c][s] = [pc |-> "dep", ans |-> InstsOf({s}) \cap instDB]]
    /\ UNCHANGED <<svcDB, instDB, gone, deps, svcEvts, instEvts, svcCache, quota,
                   queue, view, seen, dropped, lost, faults, dups>>

(* Mutant: rev and newRev compared the wrong way round.                    *)
ReplyRevSwapped(c, s, ans) ==
    IF seen[c][s] # <<ans>>
    THEN UNCHANGED <<view, seen>>
    ELSE /\ view' = [view EXCEPT ![c] = (@ \ InstsOf({s})) \cup ans]
         /\ seen' = [seen EXCEPT ![c][s] = <<ans>>]

(* The answer as the consumer takes it: instances = nil when the revision  *)
(* it sent (its last answer) is FormatRevision of the instances found, and *)
(* the consumer keeps its cache; otherwise the answer replaces the         *)
(* provider's instances and its revision.                                  *)
Reply(c, s, ans) ==
    IF seen[c][s] = <<ans>>
    THEN UNCHANGED <<view, seen>>
    ELSE /\ view' = [view EXCEPT ![c] = (@ \ InstsOf({s})) \cup ans]
         /\ seen' = [seen EXCEPT ![c][s] = <<ans>>]

(* reshapeProviderKey: GetService of the provider found.  A provider gone  *)
(* by now makes findInstance return GetService's error; the "provider does *)
(* not exist" branch after it is never taken.                              *)
ReshapeProviderKey(s) == s \in svcDB

(* "add dependency queue": reshapeProviderKey reads the provider again,    *)
(* AddServiceVersionRule makes c a consumer                                *)
(* of s (or fails), and only then the answer is returned.  Instances      *)
(* registered after the read and handled by OnEvent before this step are  *)
(* neither in the answer nor pushed to c.                                  *)
FindAddDep(c, s) ==
    /\ find[c][s].pc = "dep"
    /\ find' = [find EXCEPT ![c][s] = FIdle]
    /\ \/ /\ ReshapeProviderKey(s)
          /\ deps' = [deps EXCEPT ![s] = @ \cup {c}]
          /\ Reply(c, s, find[c][s].ans)
          /\ UNCHANGED faults
       \/ /\ ~ReshapeProviderKey(s)
          /\ UNCHANGED <<deps, view, seen, faults>>
       \/ /\ Fail
          /\ UNCHANGED <<deps, view, seen>>
    /\ UNCHANGED <<svcDB, instDB, gone, svcEvts, instEvts, svcCache, quota,
                   queue, dropped, lost, dups>>

Find(c, s) == FindRead(c, s) \/ FindAddDep(c, s)

Writers ==
    \/ \E s \in Services : CreateService(s) \/ DelServiceBatch(s) \/ DelServiceDeps(s)
    \/ \E i \in Insts : RegisterInstance(i) \/ UnregisterInstance(i)

Next == Writers \/ ServiceOnEvent \/ OnEvent
        \/ \E c \in Consumers : Receive(c) \/ \E s \in Services : Find(c, s)

(* The two dispatch loops and every watcher run until their input is       *)
(* empty; a polling consumer's timer keeps firing for each provider it     *)
(* polls, and a call in progress returns; writers need not act.            *)
Spec == /\ Init /\ [][Next]_vars
        /\ WF_vars(ServiceOnEvent) /\ WF_vars(OnEvent)
        /\ \A c \in Consumers : WF_vars(Receive(c))
        /\ \A c \in Consumers : \A s \in Polls[c] : WF_vars(Find(c, s))

-----------------------------------------------------------------------------
TypeOK ==
    /\ svcDB \subseteq Services /\ instDB \subseteq InstsOf(svcDB)
    /\ svcCache \subseteq Services
    /\ quota \in [Domains -> Int]
    /\ \A c \in Consumers : Len(queue[c]) <= QueueCap /\ view[c] \subseteq Insts

Settled == instEvts = <<>> /\ svcEvts = <<>> /\ \A c \in Consumers : queue[c] = <<>>

(* The instances I of the providers S.                                    *)
Of(I, S) == {i \in I : SvcOf[i] \in S}

(* Once every event is handled and delivered, a consumer that lost no push *)
(* and no event to a store error knows exactly the instances of the live  *)
(* providers it only watches (found before the start and not polled):     *)
(* OnEvent resolves a provider whose CREATE the service stream has not    *)
(* handled yet from the store, and the two streams may interleave in any  *)
(* way.                                                                    *)
ViewConverges ==
    (Settled /\ ~lost) =>
        \A c \in Consumers :
            LET W == svcDB \ Polls[c] IN
            ~dropped[c] => Of(view[c], W) = Visible(c, Of(instDB, W))

(* A consumer that lost no push, and no event to a store error,            *)
(* eventually knows exactly the instances of the live providers it polls, *)
(* and keeps knowing them: an instance that the read-then-subscribe race  *)
(* of FindInstances keeps from both the answer and the pushes is in the    *)
(* next answer, whose revision differs from the one the consumer holds.   *)
ViewEventuallyExact ==
    \A c \in Consumers :
        LET P == svcDB \cap Polls[c] IN
        <>[](lost \/ dropped[c] \/ Of(view[c], P) = Of(instDB, P))

(* Once settled, a consumer that lost no push, and lost no event to a     *)
(* store error, knows of no instance that is gone: spec 4.5 has OnEvent    *)
(* publish every instance DELETE, including those of a provider that       *)
(* DelServicePri removed with its instances.                               *)
DeletedForgotten ==
    (Settled /\ ~lost) => \A c \in Consumers : ~dropped[c] => view[c] \subseteq instDB

(* The quota in use covers every stored instance of a tenant but for the   *)
(* events the watch delivered again: RegisterInstance applies it before the *)
(* insert, only a handled DELETE remands it (RemandInstanceQuota), however  *)
(* late the instance stream runs, and a redelivered DELETE remands it once  *)
(* more since OnEvent keeps no revision.                                    *)
QuotaCoveredButRedelivered ==
    \A d \in Domains \ {DefaultDomain} :
        quota[d] + dups >= Cardinality(InDomain(instDB, d))

(* The quota in use covers every stored instance of a tenant: RegisterInstance *)
(* applies it before the insert and only a handled DELETE releases it.     *)
QuotaCovered ==
    \A d \in Domains \ {DefaultDomain} : quota[d] >= Cardinality(InDomain(instDB, d))

====
