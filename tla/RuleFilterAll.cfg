CONSTANTS
    ServiceFields = {"AppId"}
    FieldNames = {"AppId", "Bogus"}
    TagKeys = {"region"}
    Values = {"", "v1", "v2"}
    Empty = ""
    Patterns = {"p1", "p2"}
    Matches <- MCMatches
    Consumers <- MCConsumers
    ConsumerIds = {c1, c2}
    Missing = Missing
    NoId = NoId
    MaxRules = 2
    MaxIds = 2
SPECIFICATION Spec
INVARIANT TypeOK
INVARIANT FilterAllPartition
INVARIANT FilterAllFollowsRules
PROPERTY FilterAllRefines
CHECK_DEADLOCK FALSE
