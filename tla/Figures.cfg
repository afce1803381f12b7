SPECIFICATION Spec
CONSTANTS
  Boxes <- SomeBoxes
  Snapshots <- SomeSnapshots
  Revisions <- SomeRevisions
  Seeds <- SomeSeeds
  Edges = {"x1", "x2", "x4"}
  Down = {"x2"}
  MaxHistory = 3
  Spark = 2
  Logs <- SomeLogs
  Points = {0, 1, 2, 3, 5}
  Params <- SomeParams
  Databases <- Reachable
  Tallies <- SomeTallies
  Stats <- SomeStats
  Rows <- SomeRows
  Words = {"", "w"}
INVARIANTS PortsApart ZonesApart ChangesShow SeriesAgree SlaHonest CpuShare FiltersAgree
