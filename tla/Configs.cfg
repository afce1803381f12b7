SPECIFICATION Spec
CONSTANTS
  d1 = d1
  d2 = d2
  c1 = c1
  c2 = c2
  Devices = {d1, d2}
  Calls = {c1, c2}
  Sweeps = {c1}
  Schemas <- SomeSchemas
  MaxRows = 2
  MaxEdits = 1
  MaxFaults = 1
SYMMETRY DeviceSymmetry
INVARIANTS Numbered Gapless NewerIsNotOlder
PROPERTY SweepGoesOn
