--------------------------- MODULE MCRecordingQueue ---------------------------
\* Model-checking instance of RecordingQueue; the refinement and the liveness
\* properties rule out symmetry.
EXTENDS RecordingQueue
===============================================================================
