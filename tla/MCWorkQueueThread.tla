------------------------- MODULE MCWorkQueueThread --------------------------
\* Model-checking instances of WorkQueueThread.
EXTENDS WorkQueueThread, TLC
=============================================================================
