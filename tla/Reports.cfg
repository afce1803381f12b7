SPECIFICATION Spec
CONSTANTS
  daily = daily
  weekly = weekly
  garbled = garbled
  q1 = q1
  q2 = q2
  Requests = {q1, q2}
  Configs = {daily, weekly, garbled}
  BadCron = {garbled}
  SameIdOverlap = FALSE
  MaxSubs = 2
  MaxSending = 1
  MaxFaults = 1
  MaxRestarts = 1
SYMMETRY RequestSymmetry
INVARIANTS NoZombie JobsInForce
PROPERTY StampKept
