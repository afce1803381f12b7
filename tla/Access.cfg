SPECIFICATION Spec
CONSTANTS
  c1 = c1
  c2 = c2
  Users = {1, 2, 3}
  FirstUsers <- ThreeUsers
  Matrices <- TwoMatrices
  Roles = {"superadmin", "admin", "viewer", ""}
  Values = {"a", "b"}
  Jobs <- SomeJobs
  Calls = {c1, c2}
  Schemas <- OneSchema
  MaxGroups = 2
  MaxCalls = 3
  MaxEdits = 1
  MaxFaults = 1
SYMMETRY CallSymmetry
INVARIANTS RoleIsCurrent NamesApart
PROPERTIES  FieldsKept Reloaded
