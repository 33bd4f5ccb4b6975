# TLA+ models of the service-center mongo registry core

This directory holds TLA+ models of the parts of `src/` where concurrency,
timing and failure decide whether the registry is correct. The models cover
instance liveness and eviction, rule filtering, and change notification.
Each module is translated from the Go source. `PROJECT.json` maps every
definition to the lines it models. It also lists the TLC runs, the mutants
that show each property can fail, the findings, and the hazards.

## 1. Inventory

### 1.1 Components, their state and operations

| # | Component | Source | State | Operations |
|---|-----------|--------|-------|------------|
| 1 | Heartbeat (liveness) cache | `datasource/mongo/heartbeat/cache/heartbeat.go` | `cacheChan`, a bounded channel of tasks; `instanceHeartbeatStore`, a go-cache map from instance id to item with an expiration | `addHeartbeatTask`, worker loop (`Set`), janitor `DeleteExpired` then `OnEvicted`, `RemoveCacheInstance`, `findInstance`, `updateInstance` |
| 2 | Eviction reconciler | same file, `cleanInstance` and `removeDBInstance` | none of its own; it reads and deletes the instance document | session, then FindOne, TTL check (`isOutDate`), DeleteOne, abort or commit |
| 3 | Instance collection and its TTL index | `datasource/mongo/mongo.go` (`EnsureInstance`) | instance documents with `refresh_time` | mongo's TTL monitor deletes documents after `defaultExpireTime` |
| 4 | Instance API | `datasource/mongo/service/ms.go` (`RegisterInstance`, `UnregisterInstance`, `Heartbeat`, `HeartbeatSet`) | the collection | register, or reuse an id through a heartbeat; delete; batch heartbeat fan-out and fan-in |
| 5 | Rule engine | `datasource/mongo/util/rule_util.go` | pure | `MatchRules`, `patternWhiteList`, `patternBlackList`, `parsePattern`, `Filter`, `FilterAll` |
| 6 | Rule store | `ms.go` (`AddRule`, `DeleteRule`, `UpdateRule`), `datasource/mongo/dao/rule.go`, `datasource/mongo/client/dao/rule.go` | rule documents per service | add, delete and update rules, keeping one rule type per service |
| 7 | Instance event handler and fan-out | `datasource/mongo/event/instance_event_handler.go` | metrics gauges, quota, subscriber queues, syncer queue | `OnEvent` for INIT/CREATE/DELETE, `PublishInstanceEvent`, `NotifySyncerInstanceEvent` |
| 8 | Service event handler | `datasource/mongo/event/service_event_handler.go` | service gauges | `OnEvent` |
| 9 | Rule-change async task (etcd era) | `server/service/event/rule_event_handler.go` | async tasks keyed by provider | `OnEvent` queues `RulesChangedAsyncTask`; `publish` sends UPDATE to allowed and DELETE to denied consumers |
| 10 | Index cache | `datasource/mongo/sd` (only the test is under `src/`) | key to a list of members, duplicates kept | `Put`, `Get`, `Delete` (first occurrence) |
| 11 | Self registration | `datasource/mongo/service/engine.go` | `core.Service`, `core.Instance`, heartbeat goroutines | `SelfRegister`, `selfHeartBeat`, `autoSelfHeartBeat`, `SelfUnregister`, `ClearNoInstanceServices` |
| 12 | Service deletion | `ms.go` (`DelServicePri`) | service, instance, rule and schema documents | check dependants and instances, then delete across collections |
| 13 | Front ends and plumbing | `server/rest/...`, `server/plugin/...`, `server/command`, `pkg/prometheus`, `datasource/mongo/util/{util,schema_util,microservice_util}.go` | none that matters here | HTTP replies, auth checks, cipher, CLI flags, metric registration, filters and getters |

### 1.2 How the components interact

- A client's heartbeat reaches the heartbeat plugin, which is not under
  `src/`. Per spec §4.2, the plugin finds the instance, updates its
  `refresh_time` (`updateInstance`) and queues a task (`addHeartbeatTask`).
  When the instance is missing, the client registers it again
  (`RegisterInstance` in `ms.go`).
- Worker goroutines take tasks from `cacheChan` and `Set` a go-cache item
  whose TTL is `Interval * (Times + 1)`.
- The go-cache janitor runs every second. It removes every expired item in
  one pass. Then, on the same goroutine, it calls `OnEvicted`, which runs
  `cleanInstance` for each removed item in turn.
- `cleanInstance` re-reads the document. It deletes the document unless the
  refresh is recent. Independently, mongo's TTL index deletes documents that
  have not been refreshed for `defaultExpireTime`.
- Each deletion of an instance document reaches `InstanceEventHandler.OnEvent`
  as a DELETE event through the watch stream, which is outside `src/`. The
  handler updates gauges and returns quota. It looks up the provider and
  notifies the syncer. It asks `GetAllConsumerIds` for the consumers, which
  uses the rule engine through `FilterAll`. It then publishes one watch event
  per consumer.
- The rule engine reads the provider's rules from the rule store and the
  consumer's fields and tags.

### 1.3 What is hard

- **Atomicity of eviction.** `cleanInstance` starts a transaction, but it
  passes `ctx`, not the session, to `FindOne` and `DeleteOne`. The check and
  the delete are therefore two separate operations. A heartbeat that lands
  between them is lost.
- **Stale state.** `OnEvicted` runs after go-cache has already dropped the
  item. If `cleanInstance` gives up (recent refresh or a store error),
  nothing re-arms the check.
- **Timeouts and bounded resources.** When `cacheChan` is full, the heartbeat
  fails with `ErrHeartbeatTimeout` after `heartbeatTaskTimeout`. The refresh
  may have happened even though no item was set.
- **Crash and restart.** The cache lives in memory, and a restarted service
  center starts with it empty.
- **Interleavings of API calls.** `AddRule` reads the existing rule type and
  then inserts, with no atomicity. `DelServicePri` checks for instances and
  then deletes.
- **Unbounded growth.** `autoSelfHeartBeat` calls `SelfRegister` on every
  failure. `SelfRegister` starts another `autoSelfHeartBeat` loop.
- **Partial failure.** `FilterAll` gives up on the whole consumer list when a
  single consumer fails. `AddRule` can insert some rules and then return an
  error.

### 1.4 Properties that make each component correct

- Heartbeat cache and reconciler:
  - an instance is never evicted while its refresh is within its TTL (spec §3);
  - an aborted check is checked again (spec §4.3);
  - the instance of a stopped client eventually leaves the collection.
- Rule engine:
  - WHITE allows exactly the consumers that match some rule, and BLACK allows
    exactly those that match none (spec §4.4);
  - an unknown attribute is an error, never a deny;
  - `FilterAll` partitions its input (spec §4.4, test property 6).
- Rule store: all rules of one service share one rule type.
- Event handler and fan-out:
  - no notification on INIT;
  - one quota unit returned per DELETE outside the default tenant;
  - each subscriber is notified independently of the others (spec §4.6).
- Index cache: membership counts occurrences, and a key with no members is
  dropped (spec §4.1).
- Self registration: at most one self-heartbeat loop runs.

## 2. Plan

The behaviour that most affects correctness is modelled first. Status:

1. **`HeartbeatCache`** (done): the heartbeat cache, its workers, the
   janitor, `cleanInstance`, the TTL index, heartbeat requests and time.
2. **`RuleMatch`, `RuleFilterAll`** (done): `MatchRules`, `Filter` and
   `FilterAll` as operators and a loop. Regular expressions are a match
   relation. The result is checked against a reference reading of spec §4.4.
3. **`RuleStore`** (done): concurrent `AddRule`, `UpdateRule` and
   `DeleteRule` against the one-type invariant.
4. **`SchemaStore`** (done): `ModifySchema`, `ModifySchemas` and
   `DeleteSchema`, with the production freeze.
5. **`ServiceRegistry`** (done): `RegisterService`, tags, `DelServicePri`,
   the no-instance clear job and the instance API, racing each other.
6. **`SelfHeartbeat`** (done): `autoSelfHeartBeat`, `SelfRegister` and
   `SelfUnregister`, with the loops that share `core.Instance.InstanceId`.
7. **`InstanceEvents`** (done): `InstanceEventHandler.OnEvent`,
   `PublishInstanceEvent` and the service stream, with per-subscriber
   queues that may be full, force deletes and redelivery.
8. **`IndexCache`**: the spec's index cache, refining an abstract bag of
   members per key (`INSTANCE ... WITH`).
9. **`HeartbeatSet` fan-in** (done, in `ServiceRegistry`): dedupe by key,
   one goroutine per key, and the range that closes at `noMultiCounter`.
10. **`FindInstances` with the event pipeline** (done, in `InstanceEvents`):
    the read, then `AddServiceVersionRule`, then the rev comparison, racing
    the pushes. A polling consumer's view eventually becomes exact.
11. **`RemoveCacheInstance`** (done, in `HeartbeatCache`): a second
    goroutine running `cleanInstance` alongside the janitor.

Abstract specifications:

- `FilterAllAtomic` (done): one `FilterAll` call as a single step, refined
  by the `RuleFilterAll` loop;
- the bag refinement of the index cache (its code is not under `src/`);
- "evict only stale instances", refined by `HeartbeatCache` (this fails:
  `hb_race_guard`);
- "every deletion is notified" (this fails: `events_force_delete`).

The project keeps at most twelve runs. A finding that needs a run of its
own competes for one. Section 3.6 lists the disagreements that were found
while modelling but are not kept as runs.

## 3. Modules and runs

### 3.1 `HeartbeatCache` (`HeartbeatCache.tla`, `MCHeartbeatCache.tla`)

State and the code it stands for:

| Variable | Code |
|----------|------|
| `db` | the instance collection: id to the age of `refresh_time` |
| `items` | `instanceHeartbeatStore`: id to expiration minus now |
| `cacheChan` | `cacheChan` |
| `held` | a task a worker has received and not yet `Set` |
| `evicted` | items removed by `DeleteExpired` whose `OnEvicted` has not run |
| `cleaner[g]` | the `cleanInstance` of goroutine `g` (the janitor, or a caller of `RemoveCacheInstance`) between its read and its delete |
| `alive` | clients still heartbeating |
| `pending` | steps left of an in-flight heartbeat request |

Time is relative. `Tick` ages every document and moves every item towards
its expiration. Both are capped where every comparison the code makes gives
the same answer, so the state space is finite while time runs forever.

The actions follow the code:

- `HeartbeatBegin` stands for `findInstance`, or registration when the
  instance is missing.
- `addHeartbeatTask` either sends or times out.
- `updateInstance`.
- `WorkerReceive` and `WorkerSet` stand for the worker loop.
- `DeleteExpired` is go-cache's janitor.
- `RemoveCacheInstance`. go-cache's `Delete` calls `OnEvicted` for the item
  it removed, on the caller's goroutine. So this `cleanInstance` runs
  concurrently with the janitor's. `RemoveCacheInstance` has no caller
  under `src/`, and the model does not oblige anyone to call it. It is
  enabled only while `"caller" \in Cleaners`. `hb_race_guard` sets
  `Cleaners <- MCJanitorOnly`, so its trace goes through the janitor's
  `DeleteExpired`, the path the code really takes.
- `cleanInstanceFind(g, i)` and `cleanInstanceDelete(g)` are
  `cleanInstance`, including every error return. `TakeEvicted` says which
  eviction goroutine `g` handles.
- `MongoTTLExpire` is the refresh_time index.
- `ClientStop`.

The plugin that calls `findInstance`, `updateInstance` and
`addHeartbeatTask` is not under `src/`. The model therefore lets the update
and the enqueue of one request happen in either order. `Init` is a freshly
started process over any collection content. The cache, the channel and the
workers start empty.

Fairness is weak fairness on every server goroutine: request handlers,
workers, the janitor's ticker and the mongo TTL monitor. Time also advances.
Clients get no fairness, because they may stop at any time. The constants
are scaled down but keep their order: TTL ≤ expireAfter. `MCHealthTTL`
gives the first instance a TTL of its own (2) and any other the default (1),
with `ExpireAfter` = 2. The runs use one instance, so its TTL equals
`ExpireAfter`, the boundary where the TTL index and `cleanInstance` race.
Two instances take more than fifteen minutes to check. One instance already
reaches a full channel, because a client can heartbeat again while its
previous task is still queued.

| Run | Bounds | Checks | Result |
|-----|--------|--------|--------|
| `hb_liveness` | 1 instance, 2 workers, capacity 1 | `TypeOK`, `StoppedInstanceRemoved` | passes (14,142 states). A stopped client's instance always leaves the collection. When the reconciler gives up, the refresh_time TTL index is what removes it. |
| `hb_race_guard` | 1 instance, 1 worker, janitor only | `NoFreshInstanceEvicted` | violation. After `DeleteExpired`, a late heartbeat between FindOne and DeleteOne is lost and the live instance is deleted (spec §3 says it never is). |

### 3.2 `RuleMatch` and `RuleFilterAll`

`RuleMatch` holds the rule engine of `rule_util.go` as pure operators:
`parsePattern`, `patternWhiteList`, `patternBlackList`, `MatchRules` and
`Filter`.

- An attribute is `[tag |-> key]` or `[field |-> name]`. A field resolves
  only when it is in `ServiceFields`, which is what reflect's `FieldByName`
  does.
- `regexp.MatchString` is the relation `Matches`.
- An absent tag reads as the empty string.

The two scans are written over the set `Stops` of rules at which the Go loop
returns. The earliest of them decides the result.

`RuleFilterAll` is the `FilterAll` loop, one consumer id per step. Allowed
ids fill the slice from the front and denied ids from the back. The inputs
are chosen in `Init`:

- every single-type rule list of up to two rules;
- every id list of up to two ids;
- documents for each id, present or missing;
- tag lookups that fail or succeed.

| Run | Checks | Result |
|-----|--------|--------|
| `rule_filter_all` | `TypeOK`, `FilterAllPartition`, `FilterAllFollowsRules`, `FilterAllRefines` | passes (369,024 states). The allow and deny slices partition the input. The call fails exactly when a consumer or its tags cannot be read. Otherwise it allows and denies as an independent reading of spec §4.4 says. The loop refines `FilterAllAtomic`. |

`FilterAllAtomic` is the abstract specification of one `FilterAll` call: a
single step that applies `Filter`'s verdict to every id at once. Its result
is exact:
- no ids or no rules: the ids are returned as allowed;
- some verdict is an error: the call fails and returns nothing;
- otherwise: the allowed ids in input order, and the denied ids in reverse
  input order.

This last case answers spec 9(b): the order the partition has is the
reverse for deny. `RuleFilterAll` instantiates it with `pc` mapped to
`"start"` until the loop is done (`Atomic == INSTANCE FilterAllAtomic WITH
pc <- ...`). `FilterAllRefines == Atomic!Spec` is checked as a `PROPERTY`.
The loop's own variables are hidden, and its steps are stuttering steps of
the abstract call.

A mutant that returns the ids allowed so far together with the error
(`FilterAllStepErrPartial`) breaks only the refinement. The invariants above
look at successful calls only.

### 3.3 `RuleStore` (`RuleStore.tla`, `MCRuleStore.tla`)

`rules` is the rule collection of one provider in insertion order, which is
the order an unsorted `Find` returns. Each call is a sequence of separate
store operations, held in `cl[c]`.

- `AddRule` is `AddRuleBegin`, then `AddRuleCheck` and `AddRuleInsert` per
  rule.
- `DeleteRule` is `DeleteRuleCheck` per id, then one `DeleteRuleBatch`.
- `UpdateRule` is the type check, then `UpdateRuleExist` and
  `UpdateRuleWrite`.

Every store operation may fail. `Stored` and `RuleExist` stand for
`mutil.GetRules` and `mutil.RuleExist`, which are not under `src/`. They are
modelled from the spec as a read of the provider's rules and a match on
(attribute, pattern).

`rule_store_serial` has one caller. It reaches `UpdateRule`'s comparison with
the first stored rule, and it reaches the write that does not check the new
attribute and pattern. It does not reach `UpdateRule` interleaved with another
call (`ms.go:1149`). A two-caller passing run does not fit the time budget.
The two-caller AddRule race is the violation run below.

| Run | Bounds | Checks | Result |
|-----|--------|--------|--------|
| `rule_store_serial` | 1 caller, requests of up to 2 rules, 3 ids | `TypeOK`, `OneRuleType`, `BlackRuleDenies` | passes (1,610 states). |
| `rule_store_mixed_types` | 2 callers, 1-rule requests | `BlackRuleDenies` | violation. Two `AddRule` calls store WHITE and BLACK rules. The white-list scan then allows a consumer that matches the BLACK rule. |

### 3.4 `SchemaStore` (`SchemaStore.tla`, `MCSchemaStore.tla`)

The variables are:

- `svcSchemas`: the service document's schema id list;
- `docs`: the schema collection, kept as a sequence because nothing makes
  ids unique in it;
- `editable`: the environment and `SchemaEditable` decision.

`ModifySchema` is four steps: GetService, GetSchema with the production
summary check, the service's schema-list update, and the upsert.
`ModifySchemas` is:

- GetService;
- the analysis with every error return;
- the summaries;
- the schema batch, which applies a prefix of its operations when it fails;
- the service batch.

`datasource.SchemasAnalysis` is not under `src/`, so it is modelled from its
use.

| Run | Bounds | Checks | Result |
|-----|--------|--------|--------|
| `schema_serial` | 1 caller, 2 ids, both modes, faults | `TypeOK`, `ModifySchemasApplied`, `ProdSchemaFrozen` | passes (23,408 states). |

### 3.5 `ServiceRegistry` (`ServiceRegistry.tla`, `MCServiceRegistry.tla`)

The service collection maps an id to a document or `None`. A document is its
key (app and name; environment and version are folded into the app), its
alias and its tags. The unique indexes of `EnsureService` are the id and the
key, so an insert is a duplicate when either is taken. An instance is its
service id and status.

Each caller's call in progress is `cl[c]`. The actions are:

| Code | Actions |
|------|---------|
| `RegisterService` | `RegisterServiceBegin` (alias lookup), `RegisterServiceInsert`, `RegisterServiceDup` (the lookup after a duplicate key), `RegisterServiceReturn` |
| `AddTags` | `AddTags` |
| `UpdateTag`, `DeleteTags` | `UpdateTagRead` or `DeleteTagsRead`, then `TagsWrite` |
| `UnregisterService` / `DelServicePri` | `UnregisterService`, `DelServicePriGet`, `DelServicePriDeps`, `DelServicePriInstances`, `DelServicePriBatch` |
| `ClearNoInstanceServices` | `ClearNoInstanceServices` (the snapshot), `ClearNext` (one service of the loop, possibly entering `DelServicePri` with force) |
| `RegisterInstance` | `RegisterInstance` (custom-id reuse through `Heartbeat`, or a fresh id), `RegistryInstance` |
| `UnregisterInstance` | `UnregisterInstance` |
| `UpdateInstanceStatus` | `UpdateInstanceStatus` (GetInstance), `UpdateInstanceStatusWrite` |
| `HeartbeatSet` | `HeartbeatSet` (the `existFlag` loop: one goroutine per key `ServiceId+InstanceId`, `noMultiCounter`), `HeartbeatFunc` (one `GetHeartbeatFunc` goroutine), `HeartbeatSetCollect` (one receive of the range; close at `count == noMultiCounter`), `HeartbeatSetReturn` |

`mutil.RegistryInstance` is not under `src/`. It is taken as an atomic check
of the service and insert of the instance. That is favourable to the code:
the races found do not depend on it. It also hides one race. The instance
collection has no unique index on the instance id (`EnsureInstance`,
`mongo.go:144-158`), so two concurrent registrations of one custom id, each
told by `Heartbeat` that the instance is missing, could both insert. Whether
that happens depends on code outside `src/`, so it is listed as a hazard
only.

`UpdateInstanceStatusWrite` is a filtered update that does not upsert,
because `mutil.UpdateInstanceStatus` is not under `src/`. Recreating an
instance that was unregistered between `GetInstance` and the write
(`ms.go:1552`) would take two callers. `registry_serial` has one, and
`TypeOK` could not tell a recreated document from a kept one. So no run
checks this hazard.

Dependencies are not modelled, so `DelServicePriDeps` may answer either way.
`ShouldClearService`'s time limit may be met or not. Its instance check is
exact.

There are two ghost variables:

- `acked`: the instances whose registration succeeded and that no caller has
  released since;
- `expTags`: the tags as the successful tag calls, in write order, leave
  them.

`mutil.GetHeartbeatFunc` is not under `src/` either. Its goroutine succeeds
when the instance is registered under the named service, and fails when it
is not or when the store fails. The result channel has room for every
element, so a send never blocks. The key is the concatenation of the two
ids (`HbKey`), as in the code. HeartbeatSet requests have 1 to `MaxHbSet`
elements. With one caller the collection does not change during the call,
so `MCHbRequests` names the instances of one service only: duplicates,
distinct instances and missing ones all occur. An empty request hangs: no
goroutine sends, and the channel is closed only at `count ==
noMultiCounter`, which never happens. It is left out of the requests, and
the API validator that would refuse it is not under `src/`.

`GenId` (uuid `GetServiceID`) maps a key and alias to an id. The pass run
lets requests name only the service center's own id (`s3`). A requested id
equal to another key's generated id is refused on the id index, and the key
lookup then finds nothing; that case is listed as a hazard.

| Run | Bounds | Checks | Result |
|-----|--------|--------|--------|
| `registry_serial` | 1 caller, 2 names, 2 aliases, 2 instances, 2 tag keys, HeartbeatSet of up to 2 elements, every operation, faults | `TypeOK`, `AckedInstancesKept`, `TagsAsWritten`, `RegisteredIdNonEmpty`, `HeartbeatSetOneResultEach` | passes (1,143,808 states, about 30 s). Deadlock is checked, so a fan-in that never reaches `noMultiCounter` would stop it. |
| `registry_instance_race` | 2 callers: register, delete, instances, clear job | `AckedInstancesKept` | violation. The instance check of a non-force delete, or of the clear job, is stale when the batch delete runs, and an acknowledged instance is deleted. |

### 3.6 Disagreements found but not kept as runs

- `HeartbeatSet` keys its duplicate check by `ServiceId+InstanceId`
  (`ms.go:1665`). Two different instances whose ids concatenate alike, such
  as (`s`, `1i`) and (`s1`, `i`), share a key. The second gets no heartbeat
  and no result, and the reply may still be success.
  `HeartbeatSetOneResultEach` is violated with service ids `{s, s1}` and
  instance ids `{1i, i}`. Generated ids are uuids of equal length and do not
  collide, but custom ids can.

- `OnEvicted` runs after the item left the go-cache. When `cleanInstance`
  gives up, nothing re-arms the check, whereas spec §4.3 says the next
  expiry re-triggers it (`heartbeat.go:70-80`). `StoppedInstanceRemoved`
  shows that the TTL index still removes the instance.
- The white- and black-list scans return at the first match
  (`rule_util.go:139`). An unknown attribute in a later rule is therefore
  never reported. Spec §4.4 says it aborts the evaluation.
- `RegisterService`, after a duplicate key, looks the service up again and
  ignores `ErrNoData` (`ms.go:96-112`). A concurrent delete makes it report
  success with an empty id. `RegisteredIdNonEmpty` fails in that
  interleaving (2 callers with register and delete). The run is not kept
  because of the run budget.
- `AddRule`'s comment says the unique index is (serviceid, attribute,
  pattern), but `EnsureRule` (`mongo.go:176-190`) creates only a non-unique
  (domain, project, serviceId) index. Two concurrent `AddRule` calls with
  the same rule both pass `RuleExist` and both insert, and `UpdateRule`
  (`ms.go:1166-1173`) duplicates a rule even with one caller.
  `RuleStore.NoDuplicateRule` is violated with 2 callers (`MaxReq = 1`).
- `modifySchema` does `copy(newSchemas, microservice.Schemas)` into a nil
  slice (`ms.go:966`), which copies nothing, so on an editable service a
  second `ModifySchema` replaces `service.schemas` by the new id alone.
  `SchemaStore.SchemasListed` is violated with one caller and no faults.
  The stale schema list read at GetService (`ms.go:932`) and a failed
  second batch of `ModifySchemas` (`ms.go:908`) lose ids the same way, but
  the copy bug hides them.
  Both were kept as runs in an earlier version and gave way to the
  `SelfHeartbeat` runs: a single-caller unit test reaches either.
- `modifySchema` refuses to change a production schema that has a summary.
  But it checks with `GetSchema` (`ms.go:943`) and writes with a later
  upsert (`ms.go:978`). Two concurrent calls both see no summary, and the
  second upsert replaces the summarised schema.
  `SchemaStore.ProdSchemaFrozen` is violated with `Clients = {a, b}`,
  production mode and no faults.
- `UpdateTag` and `DeleteTags` read the tag map with `GetService` and
  `$set` a whole new map built from it (`ms.go:565`, `ms.go:606`). Of two
  concurrent calls the later write drops the earlier one's change.
  `ServiceRegistry.TagsAsWritten` is violated with 2 callers doing tag
  updates.
  These two runs gave way to the `InstanceEvents` runs. The serial runs
  still check both properties.

### 3.7 `SelfHeartbeat` (`SelfHeartbeat.tla`, `MCSelfHeartbeat.tla`)

The service center registers itself at start (`SelfRegister`) and runs a
heartbeat goroutine (`autoSelfHeartBeat`). When a heartbeat fails, the loop
calls `SelfRegister` again, and `SelfRegister` always ends by starting
another loop. Every loop reads and writes the one global
`core.Instance.InstanceId`.

| Variable | Code |
|----------|------|
| `scInst` | the service center's instance documents |
| `instId` | `core.Instance.InstanceId` (`NoId` is `""`) |
| `loop[l]` | the pc of goroutine `l`, and the id its `RegisterInstance` returned |
| `evictions`, `faults` | bounded counts of evictions and failed store calls |
| `stop` | `SelfUnregister` ran at shutdown and `ctx` is done |

Each step of `SelfRegister` is one action of the loop that runs it:
- `selfHeartBeat` fails when the current id is not stored;
- `registryService` can only fail, since the service center's service is
  never deleted;
- `registryInstanceClear`, `registryInstanceCall` (the custom-id path of
  `RegisterInstance` reuses or re-creates the id) and `registryInstanceSet`;
- `autoSelfHeartBeat`.

`Evict` removes the live instance (the reconciler, at most `MaxEvictions`
times). `Expire` is the TTL index removing an instance that no loop
heartbeats any more.

Two abstractions keep the model finite:
- A generated uuid is any id of `InstIds` that nothing refers to (`Fresh`).
  With `|InstIds| >= |Loops| + 2` one is always free once stale instances
  expire.
- `Loops` is the number of goroutines represented. The code spawns without
  bound. A spawn when every slot is taken starts a goroutine that behaves
  like those already kept.

Fairness:
- Weak fairness per loop: `gopool` runs every goroutine, and `time.After`
  fires.
- Weak fairness of `Expire`: the TTL index removes an instance with no
  heartbeats.
- Shutdown and evictions are not fair.

Both runs use `CHECK_DEADLOCK FALSE`. After `SelfUnregister` every loop
exits and the process ends, which is a terminal state.

| Run | Bounds | Checks | Result |
|-----|--------|--------|--------|
| `selfhb_loops` | 2 ids, 2 loops, 1 eviction, no faults | `SingleHeartbeatLoop` | violation. One eviction makes the loop call `SelfRegister`, which starts a second loop while the first keeps running (`engine.go:225`). |
| `selfhb_recover` | 5 ids, 3 loops, 2 evictions, 1 fault | `ReRegistered` | passes (550,602 states). The instance is always registered again before shutdown, despite the cleared id at `engine.go:172` and loops racing. |

The mutant that does not store the registered id in `core.Instance`
(`registryInstanceSetNoWrite`) breaks `ReRegistered`.

### 3.8 `InstanceEvents` (`InstanceEvents.tla`, `MCInstanceEvents.tla`)

The watch delivers the changes of the instance and the service collections
as two streams. Each stream is handled in order by its own loop, and the two
loops run concurrently (spec 4.5).

| Variable | Code |
|----------|------|
| `svcDB`, `instDB` | the service and instance collections |
| `deps` | the dependency relation `GetAllConsumerIds` reads |
| `svcEvts`, `instEvts` | the two change streams not yet handled |
| `svcCache` | `sd.Store().Service().Cache()` |
| `quota` | instance quota in use per tenant |
| `queue[c]`, `view[c]` | a watching consumer's delivery queue, and the instances it was told of |
| `find[c][s]`, `seen[c][s]` | a `FindInstances` call of consumer `c` for provider `s` between its read and its `AddServiceVersionRule`; the last answer `c` took, whose `FormatRevision` it sends as `rev` |
| `dropped`, `lost` | a push dropped by a full queue; an event dropped by a store error |

The writers are:
- `CreateService`;
- `RegisterInstance`, which applies the quota before the insert;
- `UnregisterInstance`;
- `DelServicePri` with force. One batch deletes the instances and then the
  service (`DelServiceBatch`), and the dependencies go afterwards
  (`DelServiceDeps`).

The handlers are:
- `ServiceOnEvent`: the sd cache update, then `ServiceEventHandler`, whose
  metrics are left out.
- `OnEvent`: the whole of `InstanceEventHandler.OnEvent`. The watch may
  deliver an event twice (`MaxDup`). The provider lookup is `ProviderFound`
  (cache, then store). `Notify` covers the consumer lookup (which may
  fail) and `PublishInstanceEvent`. The syncer call is left out, because
  nothing in the pipeline reads the syncer queue back.
- `Receive`: a consumer reading its queue.
- `Find` = `FindRead` then `FindAddDep`: `findInstance` for a provider
  that is not shared (`ms.go:1781-1878`). It reads the instances first.
  Then `reshapeProviderKey` reads the provider again, and
  `AddServiceVersionRule` makes the consumer a subscriber. Last, `Reply`
  compares `rev` with `newRev`. When they are equal, the answer is nil and
  the consumer keeps its cache. A read that fails or finds no provider
  changes nothing and is left out as a stutter.

Fairness:
- Weak fairness of both dispatch loops and of every consumer: each runs
  until its input is empty.
- Weak fairness of `Find` for every provider a consumer polls: the client
  polls on a timer. A watched provider is not polled.
- Writers need not act.
- `CHECK_DEADLOCK FALSE`: with every id used and every event handled, the
  server idles, which is a terminal state.

Bounds: two providers, one in the default tenant (so the quota branch is
taken both ways), one instance each, a queue of one (so a push can be
dropped), one store fault and one redelivery. The one consumer, `c1`,
watches `s2`, which exists at the start with `c1` as its consumer. `c1`
polls `s1`, which is created later, so `c1` can find `s1` while its
instance is being registered.

| Run | Bounds | Checks | Result |
|-----|--------|--------|--------|
| `events_pass` | as above | `TypeOK`, `ViewConverges`, `QuotaCoveredButRedelivered`, `ViewEventuallyExact` | passes (676,693 states, about 1.5 to 2 minutes). Once settled, a consumer that lost nothing knows exactly the instances of the live providers it watches. This holds because OnEvent falls back to the store when the service stream lags. A consumer that polls eventually knows exactly the instances of the providers it polls. |
| `events_force_delete` | no faults, no redelivery | `DeletedForgotten` | violation. After a force delete, the service stream handles the service DELETE first. OnEvent then finds the provider in neither the cache nor the store and returns at `ErrNoData` (`instance_event_handler.go:105`). The consumer keeps the deleted instance. |

Mutants:
- looking the provider up in the cache only (`ProviderFoundCacheOnly`)
  breaks `ViewConverges`;
- a push that ignores the capacity (`PublishInstanceEventNoCap`) breaks
  `TypeOK`;
- comparing `rev` with `newRev` the wrong way round (`ReplyRevSwapped`)
  breaks `ViewEventuallyExact`;
- remanding the quota on a CREATE as well as on a DELETE
  (`OnEventRemandOnCreate`) breaks `QuotaCoveredButRedelivered`.

`ViewConverges` is stated for watched providers only. For a polled provider
it fails, because of the read-then-subscribe race:
1. an instance is registered after `FindRead`;
2. its event is handled before `FindAddDep`, so no consumer gets a push;
3. the answer does not hold the instance either.

The next poll's answer differs from the last one, so the rev differs and
the answer repairs the view. `ViewEventuallyExact` states that repair.

Rev masking is a case neither property covers. Suppose a DELETE push is
dropped by a full queue, and the provider's instance set then returns to
the last answer. From then on every poll returns nil, and the consumer
keeps the stale instance. Both properties exclude `dropped`, so this case
is listed as a hazard.

`findSharedServiceInstance` (`ms.go:1733-1779`) never calls
`AddServiceVersionRule`. A consumer of a shared provider is therefore
never pushed its changes, and relies on polling alone.

`QuotaCovered` says that the quota in use covers every stored instance of a
tenant. With one redelivered DELETE outside the default tenant
(`MaxDup = 1`) it is violated. `OnEvent` has no revision check, which
answers spec 9(a). No run checks it: spec 4.5 makes delivery at-most-once,
and the watch is not under `src/`. `events_pass` checks the weaker
`QuotaCoveredButRedelivered` instead: quota in use plus the redelivered
events covers the stored instances. So redelivery is the only way the quota
falls short, however late the instance stream runs and whichever
`OnEvent` path fails after the remand.

## 4. Not modelled (yet), and why

- The REST front ends, auth, cipher, CLI and metric registration: request
  and response plumbing with no concurrency of its own.
- The syncer: `NotifySyncerInstanceEvent` only queues a change for it, and
  nothing in the registry reads the queue back.
- Rule filtering of the consumer set in `GetAllConsumerIds`: `InstanceEvents`
  uses the dependency relation. Rules are checked in `RuleFilterAll`.
- `UpdateService` and `UpdateInstanceProperties`. Each writes only the
  properties (and modification time) of one document, which no other
  operation reads, so in the model both would be stutter steps. The
  read-only getters (`GetService*`, `GetInstance*`, `BatchFind`,
  `findSharedServiceInstance`) change nothing.
- The rule-change async task (`server/service/event/rule_event_handler.go`)
  is not part of this tree's build. It imports the etcd-era
  `github.com/ServiceComb/service-center` packages (`server/core/proto`,
  `server/core/registry/store`, `server/service/notification`), none of which
  is under `src/`. Nothing under `src/` registers `NewRuleEventHandler`. The
  key-coalescing async tasker that would schedule it is described neither in
  `src/` nor in spec.md.
- Metrics gauges are left out: no property is about them.
