\* One caller at a time, store and quota errors on, both editability modes.
CONSTANTS
    Clients = {a}
    SchemaIds = {s1, s2}
    Contents = {"x", "y"}
    Summaries = {"", "h"}
    Empty = ""
    None = None
    EditableModes = {TRUE, FALSE}
    StoreFaults = TRUE
    MaxDocs = 2
SPECIFICATION Spec
INVARIANT TypeOK ModifySchemasApplied
PROPERTY ProdSchemaFrozen
