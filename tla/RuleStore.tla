------------------------------- MODULE RuleStore -------------------------------
(***************************************************************************)
(* The rules of one provider service under concurrent AddRule, DeleteRule *)
(* and UpdateRule calls (datasource/mongo/service/ms.go).  Each call is a *)
(* sequence of separate store operations: nothing makes a call atomic.    *)
(* The rule collection holds the provider's rules in insertion order, the *)
(* order an unsorted Find returns them in; the first one decides both     *)
(* AddRule's rule type and MatchRules' scan.  The early returns that      *)
(* change nothing (service lookup, quota or GetRules errors) are stutter  *)
(* steps and are left out.                                                *)
(***************************************************************************)
EXTENDS RuleMatch, Functions

CONSTANTS
    Clients,       \* concurrent API callers
    RequestRules,  \* rules a request may carry
    MaxReq,        \* most rules in one AddRule request
    MaxRuleIds,    \* rule ids (GenerateUUID) available in a behaviour
    Consumers      \* consumers the rules are evaluated for

ASSUME RequestRules \subseteq Rule /\ Consumers \subseteq Consumer

RuleIds == 1..MaxRuleIds
Requests == UNION {[1..n -> RequestRules] : n \in 1..MaxReq}
Idle == [op |-> "idle"]

VARIABLES
    rules,    \* the rule collection: <<[id, rule]>> in insertion order
    nextId,   \* the next id GenerateUUID hands out
    cl        \* each client's call in progress

vars == <<rules, nextId, cl>>

Ids == {rules[j].id : j \in DOMAIN rules}
Stored == [j \in DOMAIN rules |-> rules[j].rule]
SameKey(r, s) == r.attr = s.attr /\ r.pattern = s.pattern
RuleExist(r) == \E j \in DOMAIN rules : SameKey(rules[j].rule, r)

Init ==
    /\ rules = <<>>
    /\ nextId = 1
    /\ cl = [c \in Clients |-> Idle]

-----------------------------------------------------------------------------
(* AddRule: GetRules, then "ruleType = rules[0].RuleType".                *)
AddRuleBegin(c, req) ==
    /\ cl[c] = Idle
    /\ cl' = [cl EXCEPT ![c] = [op |-> "add", req |-> req, j |-> 1, at |-> "check",
                                ruleType |-> IF rules = <<>> THEN "" ELSE rules[1].rule.type]]
    /\ UNCHANGED <<rules, nextId>>

(* Mutant: the one-rule-type check is dropped.                           *)
AddRuleCheckNoTypeGuard(c) ==
    LET s == cl[c] IN
    /\ s.op = "add" /\ s.at = "check"
    /\ IF s.j > Len(s.req)
          THEN cl' = [cl EXCEPT ![c] = Idle]
          ELSE LET r == s.req[s.j] IN
               \/ /\ RuleExist(r)
                  /\ cl' = [cl EXCEPT ![c].j = s.j + 1, ![c].ruleType = r.type]
               \/ /\ ~RuleExist(r)
                  /\ cl' = [cl EXCEPT ![c].at = "insert", ![c].ruleType = r.type]
               \/ cl' = [cl EXCEPT ![c] = Idle]
    /\ UNCHANGED <<rules, nextId>>

(* One iteration of the request loop up to the insert: the rule type is  *)
(* taken from the first rule if none is stored, a different type ends    *)
(* the call (ErrBlackAndWhiteRule), then RuleExist on (attribute,        *)
(* pattern): an existing rule is skipped, an error ends the call.  The   *)
(* loop ends with success.                                                *)
AddRuleCheck(c) ==
    LET s == cl[c] IN
    /\ s.op = "add" /\ s.at = "check"
    /\ IF s.j > Len(s.req)
          THEN cl' = [cl EXCEPT ![c] = Idle]
          ELSE LET r == s.req[s.j]
                   t == IF s.ruleType = "" THEN r.type ELSE s.ruleType
               IN  \/ /\ t # r.type
                      /\ cl' = [cl EXCEPT ![c] = Idle]
                   \/ /\ t = r.type /\ RuleExist(r)
                      /\ cl' = [cl EXCEPT ![c].j = s.j + 1, ![c].ruleType = t]
                   \/ /\ t = r.type /\ ~RuleExist(r)
                      /\ cl' = [cl EXCEPT ![c].at = "insert", ![c].ruleType = t]
                   \/ /\ t = r.type                  \* RuleExist error
                      /\ cl' = [cl EXCEPT ![c] = Idle]
    /\ UNCHANGED <<rules, nextId>>

(* Mutant: the inserted rule reuses the previous id.                     *)
AddRuleInsertSameId(c) ==
    LET s == cl[c] IN
    /\ s.op = "add" /\ s.at = "insert"
    /\ nextId <= MaxRuleIds
    /\ rules' = Append(rules, [id |-> IF nextId > 1 THEN nextId - 1 ELSE 1,
                               rule |-> s.req[s.j]])
    /\ nextId' = nextId + 1
    /\ cl' = [cl EXCEPT ![c].j = s.j + 1, ![c].at = "check"]

(* Insert of a rule with a fresh id; an Insert error ends the call, with  *)
(* the rules inserted before it left in place.                           *)
AddRuleInsert(c) ==
    LET s == cl[c] IN
    /\ s.op = "add" /\ s.at = "insert"
    /\ \/ /\ nextId <= MaxRuleIds
          /\ rules' = Append(rules, [id |-> nextId, rule |-> s.req[s.j]])
          /\ nextId' = nextId + 1
          /\ cl' = [cl EXCEPT ![c].j = s.j + 1, ![c].at = "check"]
       \/ /\ cl' = [cl EXCEPT ![c] = Idle]
          /\ UNCHANGED <<rules, nextId>>

-----------------------------------------------------------------------------
(* DeleteRule(ruleIds): RuleExist for each id in turn (a missing id or an *)
(* error ends the call), then one BatchDelete of all of them.             *)
DeleteRuleBegin(c, dels) ==
    /\ cl[c] = Idle
    /\ cl' = [cl EXCEPT ![c] = [op |-> "delete", dels |-> dels, j |-> 1]]
    /\ UNCHANGED <<rules, nextId>>

DeleteRuleCheck(c) ==
    LET s == cl[c] IN
    /\ s.op = "delete" /\ s.j <= Len(s.dels)
    /\ \/ /\ s.dels[s.j] \in Ids
          /\ cl' = [cl EXCEPT ![c].j = s.j + 1]
       \/ cl' = [cl EXCEPT ![c] = Idle]       \* ErrRuleNotExists, or RuleExist error
    /\ UNCHANGED <<rules, nextId>>

DeleteRuleBatch(c) ==
    LET s == cl[c] IN
    /\ s.op = "delete" /\ s.j > Len(s.dels)
    /\ \/ rules' = SelectSeq(rules, LAMBDA e : e.id \notin Range(s.dels))
       \/ UNCHANGED rules                      \* BatchDelete error
    /\ cl' = [cl EXCEPT ![c] = Idle]
    /\ UNCHANGED nextId

-----------------------------------------------------------------------------
(* Mutant: UpdateRule without the rule-type comparison.                  *)
UpdateRuleBeginNoTypeGuard(c, id, new) ==
    /\ cl[c] = Idle
    /\ cl' = [cl EXCEPT ![c] = [op |-> "update", id |-> id, new |-> new, at |-> "exist"]]
    /\ UNCHANGED <<rules, nextId>>

(* UpdateRule: GetRules; the call is refused, changing nothing, when     *)
(* rules exist and the first one is of another type                      *)
(* (ErrModifyRuleNotAllow).                                               *)
UpdateRuleBegin(c, id, new) ==
    /\ cl[c] = Idle
    /\ IF rules = <<>> THEN TRUE ELSE rules[1].rule.type = new.type
    /\ cl' = [cl EXCEPT ![c] = [op |-> "update", id |-> id, new |-> new, at |-> "exist"]]
    /\ UNCHANGED <<rules, nextId>>

(* RuleExist on the id (ErrRuleNotExists or an error ends the call) ...   *)
UpdateRuleExist(c) ==
    LET s == cl[c] IN
    /\ s.op = "update" /\ s.at = "exist"
    /\ \/ /\ s.id \in Ids
          /\ cl' = [cl EXCEPT ![c].at = "write"]
       \/ cl' = [cl EXCEPT ![c] = Idle]
    /\ UNCHANGED <<rules, nextId>>

(* ... then "$set" of type, pattern and attribute on the document with    *)
(* that id, if it is still there.                                         *)
UpdateRuleWrite(c) ==
    LET s == cl[c] IN
    /\ s.op = "update" /\ s.at = "write"
    /\ \/ rules' = [j \in DOMAIN rules |->
                      IF rules[j].id = s.id THEN [id |-> s.id, rule |-> s.new]
                                            ELSE rules[j]]
       \/ UNCHANGED rules                      \* DocUpdate error
    /\ cl' = [cl EXCEPT ![c] = Idle]
    /\ UNCHANGED nextId

Next ==
    \E c \in Clients :
        \/ \E req \in Requests : AddRuleBegin(c, req)
        \/ AddRuleCheck(c)
        \/ AddRuleInsert(c)
        \/ \E d \in RuleIds : DeleteRuleBegin(c, <<d>>)
        \/ DeleteRuleCheck(c)
        \/ DeleteRuleBatch(c)
        \/ \E id \in RuleIds, new \in RequestRules : UpdateRuleBegin(c, id, new)
        \/ UpdateRuleExist(c)
        \/ UpdateRuleWrite(c)

Spec == Init /\ [][Next]_vars

-----------------------------------------------------------------------------
TypeOK ==
    /\ rules \in Seq([id : RuleIds, rule : Rule])
    /\ IsInjective([j \in DOMAIN rules |-> rules[j].id])
    /\ nextId \in 1..(MaxRuleIds + 1)
    /\ \A c \in Clients : cl[c].op \in {"idle", "add", "delete", "update"}

(* Spec section 3: all rules of one service share one rule type.  AddRule *)
(* reads the type of the stored rules and inserts later, in separate      *)
(* operations; UpdateRule compares with the first stored rule.           *)
OneRuleType ==
    \A i, j \in DOMAIN rules : rules[i].rule.type = rules[j].rule.type

(* Spec 4.4 (BLACK): a consumer that matches any of the provider's BLACK  *)
(* rules is denied.  MatchRules picks the scan from the first stored rule *)
(* only, so this rests on the rule store keeping one type.               *)
BlackRuleDenies ==
    \A c \in Consumers :
        (\E j \in DOMAIN rules : rules[j].rule.type = "BLACK"
                                 /\ Hit(rules[j].rule, c.tags, c))
            => MatchRules(Stored, c, c.tags) # "nil"

(* AddRule's comment: "the rule unique index is (serviceid,attribute,     *)
(* pattern)": no two rules of the service have the same attribute and     *)
(* pattern.  EnsureRule creates no such index; AddRule relies on a        *)
(* RuleExist read made before its insert.                                 *)
NoDuplicateRule ==
    \A i, j \in DOMAIN rules : i # j => ~SameKey(rules[i].rule, rules[j].rule)

=============================================================================
