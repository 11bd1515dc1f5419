--------------------------- MODULE MCBlockingLoop ---------------------------
\* Model-checking instance of BlockingLoop; the liveness properties rule out
\* symmetry.
EXTENDS BlockingLoop
=============================================================================
