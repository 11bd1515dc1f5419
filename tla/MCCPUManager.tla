---------------------------- MODULE MCCPUManager ----------------------------
\* Model-checking instance of CPUManager.
EXTENDS CPUManager
=============================================================================
