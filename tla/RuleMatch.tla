------------------------------- MODULE RuleMatch -------------------------------
(***************************************************************************)
(* The dependency rule engine of datasource/mongo/util/rule_util.go as     *)
(* pure operators: parsePattern, patternWhiteList, patternBlackList,       *)
(* MatchRules and Filter.                                                  *)
(*                                                                         *)
(* An attribute string is modelled by what the code reads from it: one    *)
(* starting with "tag_" is [tag |-> key] (key = Attribute[4:]), any other *)
(* is [field |-> name], resolved with reflect's FieldByName, which only   *)
(* the names in ServiceFields satisfy.  A consumer is its field values    *)
(* and its tag map; an absent tag reads as Empty, as a Go map lookup      *)
(* does.  regexp.MatchString is the relation Matches (an invalid pattern  *)
(* matches nothing: its error is discarded).                              *)
(***************************************************************************)
EXTENDS Integers, Sequences, FiniteSets, FiniteSetsExt

CONSTANTS
    ServiceFields,  \* field names of discovery.MicroService that rules use
    FieldNames,     \* field names rules may carry (ServiceFields and unknown ones)
    TagKeys,        \* tag keys
    Values,         \* attribute values, Empty among them
    Empty,          \* the empty string
    Patterns,       \* rule patterns
    Matches         \* regexp.MatchString: a set of <<pattern, value>>

ASSUME /\ ServiceFields \subseteq FieldNames
       /\ Empty \in Values
       /\ Matches \subseteq Patterns \X Values

RuleTypes == {"WHITE", "BLACK"}
Attributes == [tag : TagKeys] \cup [field : FieldNames]
Rule == [type : RuleTypes, attr : Attributes, pattern : Patterns]
Consumer == [fields : [ServiceFields -> Values], tags : [TagKeys -> Values]]

(* parsePattern: the value a rule is matched against, or ErrInternal for  *)
(* a field the MicroService struct does not have.                         *)
parsePattern(consumer, attr, tags) ==
    IF "tag" \in DOMAIN attr
       THEN [err |-> FALSE, value |-> tags[attr.tag]]
    ELSE IF attr.field \in ServiceFields
       THEN [err |-> FALSE, value |-> consumer.fields[attr.field]]
    ELSE [err |-> TRUE, value |-> Empty]

(* Both list scans stop at the first rule whose attribute does not        *)
(* resolve, or whose non-empty value matches its pattern; rules with an   *)
(* empty value are skipped (continue).                                    *)
Hit(rule, tags, consumer) ==
    LET r == parsePattern(consumer, rule.attr, tags)
    IN  ~r.err /\ r.value # Empty /\ <<rule.pattern, r.value>> \in Matches

Stops(rules, tags, consumer) ==
    {k \in 1..Len(rules) :
        \/ parsePattern(consumer, rules[k].attr, tags).err
        \/ Hit(rules[k], tags, consumer)}

StopsOnError(rules, tags, consumer) ==
    LET S == Stops(rules, tags, consumer)
    IN  S # {} /\ parsePattern(consumer, rules[Min(S)].attr, tags).err

(* patternWhiteList: nil on the first match, ErrPermissionDeny when none  *)
(* matched.                                                               *)
patternWhiteList(rules, tags, consumer) ==
    CASE Stops(rules, tags, consumer) = {}     -> "ErrPermissionDeny"
      [] StopsOnError(rules, tags, consumer)   -> "ErrInternal"
      [] OTHER                                 -> "nil"

(* Mutant: the empty-value skip is dropped from the black list scan.      *)
patternBlackListNoSkip(rules, tags, consumer) ==
    LET Bad(k) == parsePattern(consumer, rules[k].attr, tags).err
        Match(k) == <<rules[k].pattern,
                      parsePattern(consumer, rules[k].attr, tags).value>> \in Matches
        S == {k \in 1..Len(rules) : Bad(k) \/ Match(k)}
    IN  CASE S = {}      -> "nil"
          [] Bad(Min(S)) -> "ErrInternal"
          [] OTHER       -> "ErrPermissionDeny"

(* Mutant: an empty value ends the black list scan (return, not continue) *)
patternBlackListReturnOnEmpty(rules, tags, consumer) ==
    LET Ends(k) == parsePattern(consumer, rules[k].attr, tags).value = Empty
        S == Stops(rules, tags, consumer) \cup {k \in 1..Len(rules) : Ends(k)}
    IN  CASE S = {}                                            -> "nil"
          [] parsePattern(consumer, rules[Min(S)].attr, tags).err -> "ErrInternal"
          [] Ends(Min(S))                                      -> "nil"
          [] OTHER                                             -> "ErrPermissionDeny"

(* patternBlackList: ErrPermissionDeny on the first match, nil when none  *)
(* matched.                                                               *)
patternBlackList(rules, tags, consumer) ==
    CASE Stops(rules, tags, consumer) = {}     -> "nil"
      [] StopsOnError(rules, tags, consumer)   -> "ErrInternal"
      [] OTHER                                 -> "ErrPermissionDeny"

(* MatchRules: the type of the FIRST rule decides which scan runs.        *)
MatchRules(rules, consumer, tags) ==
    CASE Len(rules) = 0             -> "nil"
      [] rules[1].type = "WHITE"    -> patternWhiteList(rules, tags, consumer)
      [] OTHER                      -> patternBlackList(rules, tags, consumer)

(* Filter(ctx, rules, consumerID): the consumer is looked up first (a     *)
(* missing one is ErrNoData); an empty rule list allows; then GetTags     *)
(* (lookupFails: it returned an error) and MatchRules.  A permission deny *)
(* is (false, nil); any other error is returned.                          *)
Filter(rules, consumer, lookupFails, Missing) ==
    CASE consumer = Missing   -> [ok |-> FALSE, err |-> TRUE]
      [] Len(rules) = 0       -> [ok |-> TRUE, err |-> FALSE]
      [] lookupFails          -> [ok |-> FALSE, err |-> TRUE]
      [] MatchRules(rules, consumer, consumer.tags) = "ErrPermissionDeny"
                              -> [ok |-> FALSE, err |-> FALSE]
      [] MatchRules(rules, consumer, consumer.tags) = "nil"
                              -> [ok |-> TRUE, err |-> FALSE]
      [] OTHER                -> [ok |-> FALSE, err |-> TRUE]

=============================================================================
