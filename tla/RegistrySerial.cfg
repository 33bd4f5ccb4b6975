CONSTANTS
    Clients = {c1}
    Apps = {"a"}
    Names = {"n1", "n2"}
    Aliases = {"", "al"}
    Empty = ""
    ServiceIds = {"s1", "s2", "s3"}
    NoId = ""
    GenId <- MCGenId
    HbRequests <- MCHbRequests
    ScServiceId = "s3"
    RequestIds = {"s3"}
    InstanceIds = {"i1", "i2"}
    MaxHbSet = 2
    Statuses = {"UP", "DOWN"}
    TagKeys = {"k", "l"}
    TagValues = {"v"}
    None = None
    Operations = {"regsvc", "delsvc", "regins", "unregins", "status", "tags", "clear", "hbset"}
    StoreFaults = TRUE
SPECIFICATION Spec
INVARIANT TypeOK AckedInstancesKept TagsAsWritten RegisteredIdNonEmpty HeartbeatSetOneResultEach
