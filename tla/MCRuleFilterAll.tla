---------------------------- MODULE MCRuleFilterAll ----------------------------
(* The rule engine over one known field (AppId), one unknown field, one   *)
(* tag and two patterns: "p1" matches only "v1"; "p2" matches every value *)
(* including the empty one, as ".*" does.                                 *)
EXTENDS RuleFilterAll

MCConsumers ==
    [fields : [{"AppId"} -> {"v1", "v2"}], tags : [{"region"} -> {"", "v1", "v2"}]]

MCMatches == {<<"p1", "v1">>, <<"p2", "v1">>, <<"p2", "v2">>, <<"p2", "">>}
=============================================================================
