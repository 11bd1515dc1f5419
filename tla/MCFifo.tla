------------------------------- MODULE MCFifo -------------------------------
EXTENDS Fifo

MCMinTicks == -1

Scenario(uses, sync_gpu, deterministic) ==
  [uses |-> uses, sync_gpu |-> sync_gpu, deterministic |-> deterministic]

\* One scenario per group of features that act on each other.
MCScenarios ==
  { Scenario({"Break", "Pause"}, TRUE, FALSE),
    Scenario({"Register", "Control"}, TRUE, FALSE),
    Scenario({"Lock"}, TRUE, FALSE),
    Scenario({"Control", "Interrupt", "Pause", "Lock"}, FALSE, FALSE),
    Scenario({"Unlinked", "Idle", "Request", "Break", "Headset", "Lock", "State", "Stop"}, FALSE, FALSE),
    Scenario({"Register", "Pause", "Lock", "State"}, FALSE, TRUE),
    Scenario({"Lock", "Movie"}, FALSE, TRUE),
    Scenario({"Stop"}, FALSE, TRUE) }

\* A game on SyncGPU that the user stops.
MCStopScenario == { Scenario({"Stop"}, TRUE, FALSE) }
=============================================================================
