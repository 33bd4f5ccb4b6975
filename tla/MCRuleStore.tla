------------------------------ MODULE MCRuleStore ------------------------------
(* Requests carry a WHITE rule on AppId, a BLACK rule on the region tag   *)
(* and a BLACK rule with the same attribute and pattern as the WHITE one. *)
EXTENDS RuleStore

MCRequestRules ==
    { [type |-> "WHITE", attr |-> [field |-> "AppId"], pattern |-> "p1"],
      [type |-> "BLACK", attr |-> [tag |-> "region"], pattern |-> "p2"],
      [type |-> "BLACK", attr |-> [field |-> "AppId"], pattern |-> "p1"] }

MCConsumers ==
    [fields : [{"AppId"} -> {"v1", "v2"}], tags : [{"region"} -> {"", "v1"}]]

MCMatches == {<<"p1", "v1">>, <<"p2", "v1">>, <<"p2", "v2">>, <<"p2", "">>}
=============================================================================
