SPECIFICATION Spec
CONSTANTS
  a1 = a1
  p1 = p1
  c1 = c1
  c2 = c2
  Alerts = {a1}
  People = {p1}
  Levels = {3, 4}
  Contents <- SomeContents
  Prefs <- SomePrefs
  Calls = {c1, c2}
  MaxAsked = 2
  MaxSaves = 2
  MaxChanges = 1
  MaxFaults = 1
  MaxRestarts = 1
SYMMETRY CallSymmetry
INVARIANTS HistoryTells MailedOnce OneSettings
PROPERTY RightPeople
CHECK_DEADLOCK FALSE
