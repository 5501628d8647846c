--------------------------- MODULE MCTransformHost ---------------------------
EXTENDS TransformHost
=============================================================================
