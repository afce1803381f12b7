SPECIFICATION Spec
CONSTANTS
  p1 = p1
  i1 = i1
  i2 = i2
  c1 = c1
  c2 = c2
  e1 = e1
  e2 = e2
  Providers = {p1}
  Identities = {i1, i2}
  ProviderOf <- SomeProviders
  Emails = {e1, e2}
  States = {1}
  Calls = {c1, c2}
  Schemas <- SomeSchemas
  MaxUsers = 2
  MaxFaults = 1
SYMMETRY AccountSymmetry
INVARIANTS OneUserPerEmail LinkedOnce AnswerIsLinked StateOnce
