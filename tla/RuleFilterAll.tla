----------------------------- MODULE RuleFilterAll -----------------------------
(***************************************************************************)
(* FilterAll (datasource/mongo/util/rule_util.go): one Filter call per     *)
(* consumer id, allowed ids written from the front of one slice and        *)
(* denied ids from the back; the first error ends the call.  The inputs    *)
(* (the provider's rules, the ids, the service documents and which tag     *)
(* lookups fail) are chosen in Init; the loop runs one id per step.        *)
(***************************************************************************)
EXTENDS RuleMatch, SequencesExt

CONSTANTS
    ConsumerIds,  \* consumer service ids
    Consumers,    \* the consumer documents that can exist
    Missing,      \* no service document for the id
    NoId,         \* an unwritten slot of the consumers slice
    MaxRules,     \* longest rule list
    MaxIds        \* longest consumerIDs list

ASSUME Consumers \subseteq Consumer

(* The rule lists of one provider, all of one type (the data model's      *)
(* invariant, which the rule store is meant to keep).                     *)
UniformRuleLists ==
    {<<>>} \cup
    UNION {[1..n -> [type : {t}, attr : Attributes, pattern : Patterns]] :
              n \in 1..MaxRules, t \in RuleTypes}

IdLists == UNION {[1..n -> ConsumerIds] : n \in 0..MaxIds}

VARIABLES
    rules, ids, services, tagsErr,     \* inputs
    pc, k, allowIdx, denyIdx, consumers,
    allow, deny, result

vars == <<rules, ids, services, tagsErr, pc, k, allowIdx, denyIdx, consumers,
          allow, deny, result>>

Init ==
    /\ rules \in UniformRuleLists
    /\ ids \in IdLists
    /\ services \in [ConsumerIds -> Consumers \cup {Missing}]
    /\ tagsErr \in SUBSET ConsumerIds
    /\ pc = "start"
    /\ k = 1 /\ allowIdx = 0 /\ denyIdx = 0 /\ consumers = <<>>
    /\ allow = <<>> /\ deny = <<>> /\ result = "none"

(* "if l == 0 || len(rules) == 0 { return consumerIDs, nil, nil }"        *)
FilterAllShortcut ==
    /\ pc = "start"
    /\ Len(ids) = 0 \/ Len(rules) = 0
    /\ pc' = "done" /\ allow' = ids /\ result' = "ok"
    /\ UNCHANGED <<rules, ids, services, tagsErr, k, allowIdx, denyIdx, consumers, deny>>

(* Mutant: denyIdx starts one past the end of the slice.                  *)
FilterAllBeginPastEnd ==
    /\ pc = "start"
    /\ Len(ids) > 0 /\ Len(rules) > 0
    /\ pc' = "loop"
    /\ allowIdx' = 0 /\ denyIdx' = Len(ids) + 1
    /\ consumers' = [j \in 1..Len(ids) |-> NoId]
    /\ UNCHANGED <<rules, ids, services, tagsErr, k, allow, deny, result>>

(* "allowIdx, denyIdx := 0, l; consumers := make([]string, l)"            *)
FilterAllBegin ==
    /\ pc = "start"
    /\ Len(ids) > 0 /\ Len(rules) > 0
    /\ pc' = "loop"
    /\ allowIdx' = 0 /\ denyIdx' = Len(ids)
    /\ consumers' = [j \in 1..Len(ids) |-> NoId]
    /\ UNCHANGED <<rules, ids, services, tagsErr, k, allow, deny, result>>

FilterOf(id) == Filter(rules, services[id], id \in tagsErr, Missing)

(* Mutant: the deny branch forgets "denyIdx--".                          *)
FilterAllStepNoDecrement ==
    /\ pc = "loop" /\ k <= Len(ids)
    /\ LET f == FilterOf(ids[k]) IN
       \/ /\ f.err
          /\ pc' = "done" /\ result' = "error"
          /\ UNCHANGED <<allowIdx, denyIdx, consumers>>
       \/ /\ ~f.err /\ f.ok
          /\ consumers' = [consumers EXCEPT ![allowIdx + 1] = ids[k]]
          /\ allowIdx' = allowIdx + 1
          /\ UNCHANGED <<pc, result, denyIdx>>
       \/ /\ ~f.err /\ ~f.ok
          /\ consumers' = [consumers EXCEPT ![denyIdx] = ids[k]]
          /\ UNCHANGED <<pc, result, allowIdx, denyIdx>>
    /\ k' = k + 1
    /\ UNCHANGED <<rules, ids, services, tagsErr, allow, deny>>

(* Mutant: an error returns the ids allowed so far.                       *)
FilterAllStepErrPartial ==
    /\ pc = "loop" /\ k <= Len(ids)
    /\ LET f == FilterOf(ids[k]) IN
       \/ /\ f.err
          /\ pc' = "done" /\ result' = "error"
          /\ allow' = SubSeq(consumers, 1, allowIdx)
          /\ UNCHANGED <<allowIdx, denyIdx, consumers>>
       \/ /\ ~f.err /\ f.ok
          /\ consumers' = [consumers EXCEPT ![allowIdx + 1] = ids[k]]
          /\ allowIdx' = allowIdx + 1
          /\ UNCHANGED <<pc, result, denyIdx, allow>>
       \/ /\ ~f.err /\ ~f.ok
          /\ consumers' = [consumers EXCEPT ![denyIdx] = ids[k]]
          /\ denyIdx' = denyIdx - 1
          /\ UNCHANGED <<pc, result, allowIdx, allow>>
    /\ k' = k + 1
    /\ UNCHANGED <<rules, ids, services, tagsErr, deny>>

(* One iteration of "for _, consumerID := range consumerIDs".             *)
FilterAllStep ==
    /\ pc = "loop" /\ k <= Len(ids)
    /\ LET f == FilterOf(ids[k]) IN
       \/ /\ f.err                                   \* return nil, nil, err
          /\ pc' = "done" /\ result' = "error"
          /\ UNCHANGED <<allowIdx, denyIdx, consumers>>
       \/ /\ ~f.err /\ f.ok                          \* consumers[allowIdx] = id; allowIdx++
          /\ consumers' = [consumers EXCEPT ![allowIdx + 1] = ids[k]]
          /\ allowIdx' = allowIdx + 1
          /\ UNCHANGED <<pc, result, denyIdx>>
       \/ /\ ~f.err /\ ~f.ok                         \* denyIdx--; consumers[denyIdx] = id
          /\ consumers' = [consumers EXCEPT ![denyIdx] = ids[k]]
          /\ denyIdx' = denyIdx - 1
          /\ UNCHANGED <<pc, result, allowIdx>>
    /\ k' = k + 1
    /\ UNCHANGED <<rules, ids, services, tagsErr, allow, deny>>

(* "return consumers[:allowIdx], consumers[denyIdx:], nil"                *)
FilterAllReturn ==
    /\ pc = "loop" /\ k > Len(ids)
    /\ allow' = SubSeq(consumers, 1, allowIdx)
    /\ deny' = SubSeq(consumers, denyIdx + 1, Len(ids))
    /\ pc' = "done" /\ result' = "ok"
    /\ UNCHANGED <<rules, ids, services, tagsErr, k, allowIdx, denyIdx, consumers>>

Next == FilterAllShortcut \/ FilterAllBegin \/ FilterAllStep \/ FilterAllReturn

Spec == Init /\ [][Next]_vars /\ WF_vars(Next)

-----------------------------------------------------------------------------
TypeOK ==
    /\ rules \in Seq(Rule) /\ ids \in Seq(ConsumerIds)
    /\ pc \in {"start", "loop", "done"}
    /\ k \in 1..(MaxIds + 1)
    /\ allowIdx \in 0..MaxIds /\ denyIdx \in 0..MaxIds
    /\ consumers \in Seq(ConsumerIds \cup {NoId})
    /\ allow \in Seq(ConsumerIds) /\ deny \in Seq(ConsumerIds)
    /\ result \in {"none", "ok", "error"}

(* Spec 4.4, read on its own: the value a rule's attribute names, whether *)
(* the attribute names anything, and the verdict for one consumer.        *)
RefKnown(attr) == "tag" \in DOMAIN attr \/ attr.field \in ServiceFields
RefValue(c, attr) == IF "tag" \in DOMAIN attr THEN c.tags[attr.tag] ELSE c.fields[attr.field]
Misconfigured(rs) == \E j \in 1..Len(rs) : ~RefKnown(rs[j].attr)
RefMatched(rs, c) ==
    \E j \in 1..Len(rs) : RefValue(c, rs[j].attr) # Empty
                          /\ <<rs[j].pattern, RefValue(c, rs[j].attr)>> \in Matches
RefAllows(rs, c) ==
    \/ rs = <<>>
    \/ rs[1].type = "WHITE" /\ RefMatched(rs, c)
    \/ rs[1].type = "BLACK" /\ ~RefMatched(rs, c)
LookupOK(id) == services[id] # Missing /\ id \notin tagsErr

(* Spec 4.4 and test property 6: a FilterAll that returns without error   *)
(* partitions its input: every id appears exactly as often in allow and   *)
(* deny together as in consumerIDs.  The code fills one slice from both   *)
(* ends with two indices.                                                 *)
FilterAllPartition ==
    (pc = "done" /\ result = "ok") =>
        ToBag(allow) (+) ToBag(deny) = ToBag(ids)

(* For a rule list whose attributes all resolve, FilterAll fails exactly  *)
(* when a consumer or its tags cannot be read, and otherwise allows the   *)
(* consumers the white/black list semantics of spec 4.4 allows (empty     *)
(* values never match) and denies the others.                             *)
FilterAllFollowsRules ==
    (pc = "done" /\ ~Misconfigured(rules)) =>
        /\ (result = "ok") <=> (rules = <<>> \/ \A j \in 1..Len(ids) : LookupOK(ids[j]))
        /\ result = "ok" =>
              /\ \A j \in 1..Len(allow) :
                    rules = <<>> \/ RefAllows(rules, services[allow[j]])
              /\ \A j \in 1..Len(deny) : ~RefAllows(rules, services[deny[j]])

(* The loop implements one atomic FilterAll: seen with the loop's own     *)
(* variables hidden and its steps as stuttering, every behaviour of       *)
(* FilterAll is one of FilterAllAtomic, result order included.            *)
Atomic == INSTANCE FilterAllAtomic
              WITH pc <- IF pc = "done" THEN "done" ELSE "start"

FilterAllRefines == Atomic!Spec

=============================================================================
