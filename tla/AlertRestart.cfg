SPECIFICATION Spec
CONSTANTS
  NDevices = 2
  Down = {}
  Top = 2
  Evals = {e1}
  MayFail = {}
  MayLose = {}
  MaxFaults = 0
  MaxChanges = 2
  MaxRestarts = 1
INVARIANT MapNamesItsRow
