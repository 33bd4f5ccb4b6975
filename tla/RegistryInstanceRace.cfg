CONSTANTS
    Clients = {c1, c2}
    Apps = {"a"}
    Names = {"n1"}
    Aliases = {""}
    Empty = ""
    ServiceIds = {"s1", "s2", "s3"}
    NoId = ""
    GenId <- MCGenId
    ScServiceId = "s3"
    RequestIds = {}
    InstanceIds = {"i1"}
    MaxHbSet = 1
    Statuses = {"UP"}
    TagKeys = {"k", "l"}
    TagValues = {"v"}
    None = None
    Operations = {"regsvc", "delsvc", "regins", "clear"}
    StoreFaults = FALSE
SPECIFICATION Spec
INVARIANT AckedInstancesKept
