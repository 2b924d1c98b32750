CONSTANTS
  Files   <- MCFiles
  Dir     <- MCDir
  Name    <- MCName
  Pinned  <- MCPinned
  Tags    <- MCTags
  AddTo   <- MCAddTo
  Listed  <- MCListed
  Shared  <- MCShared
  Foreign = "foreign"
  NoFile  = "none"
  Programs = {"load", "load_skills"}
  PageSize = 1
  MaxJobs = 2
  MaxFaults = 1
SPECIFICATION Spec
INVARIANTS
  TypeOK
  UndisturbedLoadIsComplete
  OneAssetAtATime
  ForeignEntriesSurvive
CHECK_DEADLOCK FALSE
