SPECIFICATION Spec
CONSTANTS
  Commands = {a, b}
  NoCommand = NoCommand
  Capacity = 2
  Modulus = 4
INVARIANT DrainMeansEmpty
INVARIANT NoLostProducerWakeup
PROPERTY ImplementsFifo
PROPERTY EveryCommandExecuted
PROPERTY ProducerResumes
PROPERTY ShutdownTerminates
