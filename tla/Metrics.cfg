SPECIFICATION LiveSpec
CONSTANTS
  core = core
  edge = edge
  guest = guest
  w1 = w1
  w2 = w2
  Names = {core, edge, guest}
  Simulated = {core, edge}
  Slots = {w1, w2}
  WriteEvery = 2
  ForeignKey = "cascade"
  MaxDevices = 3
  MaxDeletes = 1
  MaxFaults = 1
  MaxRestarts = 1
INVARIANTS Attributed
PROPERTY Persisted
