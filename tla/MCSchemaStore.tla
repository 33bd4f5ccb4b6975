----------------------------- MODULE MCSchemaStore -----------------------------
EXTENDS SchemaStore
=============================================================================
