CONSTANTS
    ServiceFields = {"AppId"}
    FieldNames = {"AppId", "Bogus"}
    TagKeys = {"region"}
    Values = {"", "v1", "v2"}
    Empty = ""
    Patterns = {"p1", "p2"}
    Matches <- MCMatches
    RequestRules <- MCRequestRules
    Consumers <- MCConsumers
    MaxRuleIds = 3
    Clients = {a}
    MaxReq = 2
SPECIFICATION Spec
INVARIANT TypeOK
INVARIANT OneRuleType
INVARIANT BlackRuleDenies
