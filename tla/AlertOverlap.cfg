SPECIFICATION Spec
CONSTANTS
  NDevices = 2
  Down = {2}
  Top = 2
  Evals = {e1, e2}
  MayFail = {"sync", "load", "sibling", "mark", "clear"}
  MayLose = {"sync", "load", "sibling", "mark", "insert", "clear"}
  MaxFaults = 1
  MaxChanges = 1
  MaxRestarts = 0
INVARIANTS MapNamesItsRow NoticesAreRecorded ChildHasRoot
