------------------------------ MODULE SchemaStore ------------------------------
(***************************************************************************)
(* The schemas of one service under concurrent ModifySchema, ModifySchemas *)
(* and DeleteSchema calls (datasource/mongo/service/ms.go).  The service   *)
(* document carries the list of its schema ids (service.Schemas, a set     *)
(* here: the code only tests membership and emptiness); the schema         *)
(* collection holds one document per (service, schemaId) in insertion      *)
(* order, with no unique index (EnsureSchema, mongo.go), so it is a        *)
(* sequence that may hold two documents with one id.  FindOne returns the  *)
(* first match.  Whether the service is editable (isSchemaEditable: a      *)
(* non-production environment or the SchemaEditable option) is fixed in    *)
(* Init.  Every call is a series of separate store operations; an early    *)
(* return that changes nothing is a stutter step and is left out.         *)
(***************************************************************************)
EXTENDS Integers, FiniteSets, SequencesExt, FiniteSetsExt

CONSTANTS
    Clients,        \* concurrent API callers
    SchemaIds,      \* schema ids
    Contents,       \* schema texts
    Summaries,      \* schema summaries, Empty among them
    Empty,          \* the empty string
    None,           \* no document
    EditableModes,  \* the values isSchemaEditable may have
    StoreFaults,    \* TRUE: any store operation may fail
    MaxDocs         \* most schema documents the collection holds

ASSUME Empty \in Summaries /\ EditableModes \subseteq BOOLEAN /\ StoreFaults \in BOOLEAN

Doc == [id : SchemaIds, schema : Contents, summary : Summaries]
Body == [schema : Contents, summary : Summaries]
(* ModifySchemas carries schemas with distinct ids: a function id -> body *)
ManyRequests == UNION {[S -> Body] : S \in SUBSET SchemaIds \ {{}}}
Idle == [at |-> "idle"]
Fail == StoreFaults   \* guards every error disjunct

VARIABLES
    editable,    \* isSchemaEditable(service)
    svcSchemas,  \* service.Schemas
    docs,        \* the schema collection of the service
    cl           \* each client's call in progress

vars == <<editable, svcSchemas, docs, cl>>

Matching(ds, id) == {j \in DOMAIN ds : ds[j].id = id}

(* mutil.GetSchema: FindOne on (service, schemaId); nil when none.        *)
Visible(id) ==
    IF Matching(docs, id) = {} THEN None ELSE docs[Min(Matching(docs, id))]

(* mutil.UpdateSchema with SetUpsert(true): FindOneAndUpdate "$set" of    *)
(* schema and summary on the first match, or an insert when none.         *)
Upsert(ds, d) ==
    IF Matching(ds, d.id) = {} THEN Append(ds, d)
    ELSE [ds EXCEPT ![Min(Matching(ds, d.id))] = d]

(* One write model of a BatchUpdate: InsertOne, UpdateOne "$set" on the   *)
(* first match (none: no change), DeleteOne of the first match.           *)
ApplyOp(ds, op) ==
    CASE op.kind = "insert" -> Append(ds, op.doc)
      [] Matching(ds, op.doc.id) = {} -> ds
      [] op.kind = "update" -> [ds EXCEPT ![Min(Matching(ds, op.doc.id))] = op.doc]
      [] OTHER -> RemoveAt(ds, Min(Matching(ds, op.doc.id)))

ApplyOps(ds, ops) == FoldLeft(ApplyOp, ds, ops)

(* datasource.SchemasAnalysis: request schemas already stored (update),   *)
(* not stored (add), stored schemas the request lacks (delete), and       *)
(* request ids the service does not list.                                 *)
SchemasAnalysis(req, db, list) ==
    LET dbIds == {db[j].id : j \in DOMAIN db} IN
    [update   |-> DOMAIN req \cap dbIds,
     add      |-> DOMAIN req \ dbIds,
     delete   |-> SelectSeq(db, LAMBDA d : d.id \notin DOMAIN req),
     nonExist |-> DOMAIN req \ list]

DocOf(req, id) == [id |-> id, schema |-> req[id].schema, summary |-> req[id].summary]
OpsOf(kind, req, ids) == SetToSeq({[kind |-> kind, doc |-> DocOf(req, id)] : id \in ids})

Init ==
    /\ editable \in EditableModes
    /\ svcSchemas \in SUBSET SchemaIds   \* ids given at RegisterService
    /\ docs = <<>>
    /\ cl = [c \in Clients |-> Idle]

-----------------------------------------------------------------------------
(* ModifySchema -> modifySchema: GetService and the schema-id check.  A   *)
(* non-editable service with schema ids refuses an id it does not list    *)
(* (ErrUndefinedSchemaID).  An editable service that does not list the    *)
(* id writes newSchemas, built by copy() into a nil slice, which copies   *)
(* nothing: newSchemas is the new id alone.                               *)
modifySchemaGetService(c, req) ==
    /\ cl[c] = Idle
    /\ editable \/ svcSchemas = {} \/ req.id \in svcSchemas
    /\ cl' = [cl EXCEPT ![c] =
                IF editable
                THEN [op |-> "one", req |-> req,
                      new |-> IF req.id \in svcSchemas THEN {} ELSE {req.id},
                      at |-> IF req.id \in svcSchemas THEN "upsert" ELSE "setsvc"]
                ELSE [op |-> "one", req |-> req, list |-> svcSchemas, at |-> "getschema"]]
    /\ UNCHANGED <<editable, svcSchemas, docs>>

(* Mutant: a stored schema whose summary is set may be overwritten.       *)
modifySchemaGetSchemaNoSummaryCheck(c) ==
    LET s == cl[c]  resp == Visible(s.req.id)
        new == IF s.list = {} THEN {s.req.id} ELSE {}
    IN  /\ s.at = "getschema"
        /\ \/ /\ Fail /\ cl' = [cl EXCEPT ![c] = Idle]
           \/ /\ resp # None /\ s.req.summary = Empty
              /\ cl' = [cl EXCEPT ![c] = Idle]
           \/ /\ IF resp = None THEN TRUE ELSE s.req.summary # Empty
              /\ cl' = [cl EXCEPT ![c] = [op |-> "one", req |-> s.req, new |-> new,
                                          at |-> IF new = {} THEN "upsert" ELSE "setsvc"]]
        /\ UNCHANGED <<editable, svcSchemas, docs>>

(* Non-editable: GetSchema; a stored schema may only be given a summary   *)
(* it does not have yet (ErrModifySchemaNotAllow otherwise).  A service   *)
(* with no schema ids gets the new id as its list.                        *)
modifySchemaGetSchema(c) ==
    LET s == cl[c]  resp == Visible(s.req.id)
        new == IF s.list = {} THEN {s.req.id} ELSE {}
    IN  /\ s.at = "getschema"
        /\ \/ /\ Fail /\ cl' = [cl EXCEPT ![c] = Idle]
           \/ /\ resp # None /\ (s.req.summary = Empty \/ resp.summary # Empty)
              /\ cl' = [cl EXCEPT ![c] = Idle]
           \/ /\ IF resp = None THEN TRUE ELSE s.req.summary # Empty /\ resp.summary = Empty
              /\ cl' = [cl EXCEPT ![c] = [op |-> "one", req |-> s.req, new |-> new,
                                          at |-> IF new = {} THEN "upsert" ELSE "setsvc"]]
        /\ UNCHANGED <<editable, svcSchemas, docs>>

(* Mutant: "$set" of service.schemas to the schema objects instead of    *)
(* their ids (bson.M takes either).                                       *)
modifySchemaUpdateServiceObjects(c) ==
    LET s == cl[c] IN
    /\ s.at = "setsvc"
    /\ \/ /\ svcSchemas' = {s.req}
          /\ cl' = [cl EXCEPT ![c].at = "upsert"]
       \/ /\ Fail /\ cl' = [cl EXCEPT ![c] = Idle]
          /\ UNCHANGED svcSchemas
    /\ UNCHANGED <<editable, docs>>

(* UpdateService "$set" service.schemas = newSchemas.                     *)
modifySchemaUpdateService(c) ==
    LET s == cl[c] IN
    /\ s.at = "setsvc"
    /\ \/ /\ svcSchemas' = s.new
          /\ cl' = [cl EXCEPT ![c].at = "upsert"]
       \/ /\ Fail /\ cl' = [cl EXCEPT ![c] = Idle]
          /\ UNCHANGED svcSchemas
    /\ UNCHANGED <<editable, docs>>

(* UpdateSchema with upsert of the schema text and summary.               *)
modifySchemaUpsert(c) ==
    LET s == cl[c]  d == [id |-> s.req.id, schema |-> s.req.schema, summary |-> s.req.summary]
    IN  /\ s.at = "upsert"
        /\ \/ /\ Len(Upsert(docs, d)) <= MaxDocs
              /\ docs' = Upsert(docs, d)
           \/ Fail /\ UNCHANGED docs
        /\ cl' = [cl EXCEPT ![c] = Idle]
        /\ UNCHANGED <<editable, svcSchemas>>

(* DeleteSchema: ServiceExistID, then DocDelete of the schema document;   *)
(* service.schemas is left as it is.  No document: ErrSchemaNotExists.    *)
DeleteSchema(c, id) ==
    /\ cl[c] = Idle
    /\ Matching(docs, id) # {}
    /\ docs' = SelectSeq(docs, LAMBDA d : d.id # id)
    /\ UNCHANGED <<editable, svcSchemas, cl>>

-----------------------------------------------------------------------------
(* ModifySchemas: GetService, then modifySchemas reads all stored schemas *)
(* of the service (GetSchemas) and runs SchemasAnalysis on them.          *)
ModifySchemasGetService(c, req) ==
    /\ cl[c] = Idle
    /\ cl' = [cl EXCEPT ![c] = [op |-> "many", req |-> req, list |-> svcSchemas,
                                at |-> "getschemas"]]
    /\ UNCHANGED <<editable, svcSchemas, docs>>

(* Mutant: the editable branch forgets the deletes of stale schemas.     *)
modifySchemasAnalyseNoDelete(c) ==
    LET s == cl[c]  a == SchemasAnalysis(s.req, docs, s.list) IN
    /\ s.at = "getschemas"
    /\ \/ /\ Fail /\ cl' = [cl EXCEPT ![c] = Idle]
       \/ /\ ~editable /\ s.list # {} /\ a.nonExist # {}     \* ErrUndefinedSchemaID
          /\ cl' = [cl EXCEPT ![c] = Idle]
       \/ /\ Fail                                           \* quota.Apply refused
          /\ \/ ~editable /\ s.list = {}
             \/ editable /\ Cardinality(a.add) > Len(a.delete)
          /\ cl' = [cl EXCEPT ![c] = Idle]
       \/ /\ ~editable /\ s.list = {}
          /\ cl' = [cl EXCEPT ![c] = [op |-> "many", req |-> s.req, at |-> "batch",
                       ops |-> OpsOf("insert", s.req, a.add), svc |-> a.nonExist]]
       \/ /\ ~editable /\ s.list # {} /\ a.nonExist = {}
          /\ cl' = [cl EXCEPT ![c] = [op |-> "many", req |-> s.req, at |-> "summaries",
                                          upd |-> a.update, add |-> a.add]]
       \/ /\ editable
          /\ cl' = [cl EXCEPT ![c] = [op |-> "many", req |-> s.req, at |-> "batch",
                       ops |-> OpsOf("insert", s.req, a.add) \o OpsOf("update", s.req, a.update),
                       svc |-> a.add \cup a.update]]
    /\ UNCHANGED <<editable, svcSchemas, docs>>

(* modifySchemas after GetSchemas.  Non-editable with no schema ids: the  *)
(* quota for the new ids, the new schemas inserted, the list set to the   *)
(* request's ids.  Non-editable with schema ids: every id must be listed  *)
(* (ErrUndefinedSchemaID), then the summaries are read.  Editable: quota  *)
(* for the growth, inserts, updates and deletes, and the list set to the *)
(* added and updated ids.  A quota or GetSchemas error ends the call.     *)
modifySchemasAnalyse(c) ==
    LET s == cl[c]  a == SchemasAnalysis(s.req, docs, s.list) IN
    /\ s.at = "getschemas"
    /\ \/ /\ Fail /\ cl' = [cl EXCEPT ![c] = Idle]
       \/ /\ ~editable /\ s.list # {} /\ a.nonExist # {}     \* ErrUndefinedSchemaID
          /\ cl' = [cl EXCEPT ![c] = Idle]
       \/ /\ Fail                                           \* quota.Apply refused
          /\ \/ ~editable /\ s.list = {}
             \/ editable /\ Cardinality(a.add) > Len(a.delete)
          /\ cl' = [cl EXCEPT ![c] = Idle]
       \/ /\ ~editable /\ s.list = {}
          /\ cl' = [cl EXCEPT ![c] = [op |-> "many", req |-> s.req, at |-> "batch",
                       ops |-> OpsOf("insert", s.req, a.add), svc |-> a.nonExist]]
       \/ /\ ~editable /\ s.list # {} /\ a.nonExist = {}
          /\ cl' = [cl EXCEPT ![c] = [op |-> "many", req |-> s.req, at |-> "summaries",
                                          upd |-> a.update, add |-> a.add]]
       \/ /\ editable
          /\ cl' = [cl EXCEPT ![c] = [op |-> "many", req |-> s.req, at |-> "batch",
                       ops |-> OpsOf("insert", s.req, a.add) \o OpsOf("update", s.req, a.update)
                               \o [j \in DOMAIN a.delete |-> [kind |-> "delete", doc |-> a.delete[j]]],
                       svc |-> a.add \cup a.update]]
    /\ UNCHANGED <<editable, svcSchemas, docs>>

(* Non-editable with schema ids: SchemaSummaryExist for each schema to    *)
(* update; only those without a summary are updated, then the new ones    *)
(* are inserted.  The service document is not written.                    *)
modifySchemasSummaries(c) ==
    LET s == cl[c]
        bare == {id \in s.upd : Visible(id) = None \/ Visible(id).summary = Empty}
    IN  /\ s.at = "summaries"
        /\ \/ /\ Fail /\ cl' = [cl EXCEPT ![c] = Idle]
           \/ cl' = [cl EXCEPT ![c] = [op |-> "many", req |-> s.req, at |-> "batch",
                        ops |-> OpsOf("update", s.req, bare) \o OpsOf("insert", s.req, s.add),
                        svc |-> None]]
        /\ UNCHANGED <<editable, svcSchemas, docs>>

(* BatchUpdate of the schema collection (skipped when there are no ops):  *)
(* an ordered bulk write, so an error leaves the writes before the one    *)
(* that failed in place and ends the call.                                *)
modifySchemasBatchSchemas(c) ==
    LET s == cl[c] IN
    /\ s.at = "batch"
    /\ \E k \in 0..Len(s.ops) :
          /\ k < Len(s.ops) => Fail
          /\ Len(ApplyOps(docs, SubSeq(s.ops, 1, k))) <= MaxDocs
          /\ docs' = ApplyOps(docs, SubSeq(s.ops, 1, k))
          /\ cl' = [cl EXCEPT ![c] = IF k = Len(s.ops) THEN [s EXCEPT !.at = "batchsvc"]
                                                       ELSE Idle]
    /\ UNCHANGED <<editable, svcSchemas>>

(* BatchUpdate of the service document's schema ids, when there is one.   *)
modifySchemasBatchService(c) ==
    LET s == cl[c] IN
    /\ s.at = "batchsvc"
    /\ \/ /\ s.svc = None
          /\ cl' = [cl EXCEPT ![c].at = "done"]
          /\ UNCHANGED svcSchemas
       \/ /\ s.svc # None
          /\ svcSchemas' = s.svc
          /\ cl' = [cl EXCEPT ![c].at = "done"]
       \/ /\ s.svc # None /\ Fail
          /\ cl' = [cl EXCEPT ![c] = Idle]
          /\ UNCHANGED svcSchemas
    /\ UNCHANGED <<editable, docs>>

(* The success response.                                                  *)
ModifySchemasReturn(c) ==
    /\ cl[c].at = "done"
    /\ cl' = [cl EXCEPT ![c] = Idle]
    /\ UNCHANGED <<editable, svcSchemas, docs>>

Next ==
    \E c \in Clients :
        \/ \E id \in SchemaIds, b \in Body :
              modifySchemaGetService(c, [id |-> id, schema |-> b.schema, summary |-> b.summary])
        \/ modifySchemaGetSchema(c)
        \/ modifySchemaUpdateService(c)
        \/ modifySchemaUpsert(c)
        \/ \E id \in SchemaIds : DeleteSchema(c, id)
        \/ \E req \in ManyRequests : ModifySchemasGetService(c, req)
        \/ modifySchemasAnalyse(c)
        \/ modifySchemasSummaries(c)
        \/ modifySchemasBatchSchemas(c)
        \/ modifySchemasBatchService(c)
        \/ ModifySchemasReturn(c)

Spec == Init /\ [][Next]_vars

-----------------------------------------------------------------------------
TypeOK ==
    /\ editable \in BOOLEAN
    /\ svcSchemas \in SUBSET SchemaIds
    /\ docs \in Seq(Doc) /\ Len(docs) <= MaxDocs
    /\ \A c \in Clients :
          cl[c].at \in {"idle", "getschema", "setsvc", "upsert", "getschemas",
                        "summaries", "batch", "batchsvc", "done"}

(* modifySchema and modifySchemas, production mode: "schema already       *)
(* exist, can not be changed".  Once the schema GetSchema returns for an  *)
(* id has a summary, a step either leaves it as it is or deletes it       *)
(* (DeleteSchema); the check is a read made before the write.             *)
ProdSchemaFrozen ==
    [][~editable =>
         \A id \in SchemaIds :
            (Visible(id) # None /\ Visible(id).summary # Empty)
                => Visible(id)' \in {Visible(id), None}]_vars

(* A ModifySchemas call that returns success has written what it was     *)
(* given: an editable service then has exactly the requested schemas,    *)
(* stored and listed; a production service lists and stores every        *)
(* requested id.                                                          *)
ModifySchemasApplied ==
    \A c \in Clients :
        cl[c].at = "done" =>
            LET req == cl[c].req IN
            IF editable
            THEN /\ {docs[j].id : j \in DOMAIN docs} = DOMAIN req
                 /\ svcSchemas = DOMAIN req
                 /\ \A id \in DOMAIN req : Visible(id) = DocOf(req, id)
            ELSE \A id \in DOMAIN req : id \in svcSchemas /\ Visible(id) # None

(* modifySchema's comment, case 3: an editable service that has no        *)
(* relation with the schema gets the schema and the relation.  GetAllSchemas*)
(* lists a service's schemas from service.Schemas, so every stored schema *)
(* should be listed there once no call is in progress.                   *)
SchemasListed ==
    (\A c \in Clients : cl[c] = Idle) =>
        \A j \in DOMAIN docs : docs[j].id \in svcSchemas

=============================================================================
