--------------------------- MODULE MCCdcPipeline ---------------------------
EXTENDS CdcPipeline

CONSTANTS k1, v1, v2

Change(operation, old, new) ==
  [operation |-> operation, key |-> k1, before |-> old, after |-> new]

\* A record's life; emitted in any other order, they fit nothing.
MCEmits ==
  { Change("create", None, v1), Change("update", v1, v2), Change("delete", v2, None) }
=============================================================================
