SPECIFICATION Spec
CONSTANTS
  g1 = g1
  g2 = g2
  g3 = g3
  stranger = stranger
  Guardians = {g1, g2, g3}
  QuorumThreshold = 2
  InitialVersion = 1
  Records <- MCRecords
  Updaters = {"u1", "u2"}
  Bootstraps <- MCBootstraps
  Stores = {"file", "sqlite"}
INVARIANTS TypeOK PolicyInForce
PROPERTIES AcceptsUpwards OnlyStorageGoesBack
CHECK_DEADLOCK FALSE
