---------------------------- MODULE FilterAllAtomic ----------------------------
(***************************************************************************)
(* What one FilterAll call promises, as a single step: the Filter verdict  *)
(* of every consumer id at once.  With no ids or no rules the ids are      *)
(* returned as allowed; if the verdict of some id is an error the call     *)
(* fails with nothing returned; otherwise the allowed ids come back in     *)
(* input order and the denied ids in reverse input order (spec 9(b): the   *)
(* partition does not preserve order, and this is the order it has).      *)
(***************************************************************************)
EXTENDS RuleMatch, SequencesExt

CONSTANTS Missing

VARIABLES rules, ids, services, tagsErr, pc, allow, deny, result

vars == <<rules, ids, services, tagsErr, pc, allow, deny, result>>

Verdict(id) == Filter(rules, services[id], id \in tagsErr, Missing)

Init ==
    /\ pc = "start"
    /\ allow = <<>> /\ deny = <<>> /\ result = "none"

Return(a, d, r) == allow' = a /\ deny' = d /\ result' = r

FilterAll ==
    /\ pc = "start" /\ pc' = "done"
    /\ \/ /\ ids = <<>> \/ rules = <<>>
          /\ Return(ids, <<>>, "ok")
       \/ /\ ids # <<>> /\ rules # <<>>
          /\ \E j \in 1..Len(ids) : Verdict(ids[j]).err
          /\ Return(<<>>, <<>>, "error")
       \/ /\ ids # <<>> /\ rules # <<>>
          /\ \A j \in 1..Len(ids) : ~Verdict(ids[j]).err
          /\ Return(SelectSeq(ids, LAMBDA id : Verdict(id).ok),
                    Reverse(SelectSeq(ids, LAMBDA id : ~Verdict(id).ok)), "ok")
    /\ UNCHANGED <<rules, ids, services, tagsErr>>

(* The call returns.                                                       *)
Spec == Init /\ [][FilterAll]_vars /\ WF_vars(FilterAll)

=============================================================================
