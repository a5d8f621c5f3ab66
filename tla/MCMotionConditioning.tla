------------------------ MODULE MCMotionConditioning ------------------------
\* The container the first PREPARE finds: clean, or as an earlier process left it.
EXTENDS MotionConditioning

AnyLeftovers == {"none", "active"}
=============================================================================
