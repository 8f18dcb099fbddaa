SPECIFICATION Spec
CONSTANTS
  g1 = g1
  g2 = g2
  g3 = g3
  stranger = stranger
  Guardians = {g1, g2, g3}
  QuorumThreshold = 2
  InitialVersion = 1
  Records <- MCRecords
  Updaters = {"u1"}
  Bootstraps <- MCBootstraps
  Stores = {"file"}
PROPERTY RecoversForward
CHECK_DEADLOCK FALSE
