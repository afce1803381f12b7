SPECIFICATION LiveSpec
CONSTANTS
  NDevices = 2
  Down = {2}
  Top = 3
  Evals = {e1}
  MayFail = {"load", "mark", "insert", "clear"}
  MayLose = {"load", "mark"}
  MaxFaults = 2
  MaxChanges = 2
  MaxRestarts = 1
INVARIANTS TypeOK OneOpenPerKey Tracked GroupExclusive
PROPERTIES HistoryIsKept KeepsLedger Raised Resolved
