SPECIFICATION Spec
CONSTANTS
  NDevices = 1
  Down = {}
  Top = 2
  Evals = {e1}
  MayFail = {}
  MayLose = {}
  MaxFaults = 0
  MaxChanges = 1
  MaxRestarts = 0
PROPERTY ClosedForCause
