CONSTANTS
  d1 = d1
  d2 = d2
  x = x
  y = y
  here = here
  aside = aside
  Dirs = {d1, d2}
  Names = {here, aside}
  Files <- TheFiles
  Canonical <- Joined
  ParentDir <- Parent
  SearchPath <- Search
  Bodies <- SomeBodies
SPECIFICATION FairSpec
CHECK_DEADLOCK FALSE
INVARIANTS TypeOK NoReentry OutputIsExpansion CycleIsReal OkMeansAcyclic  EveryDropMarked
PROPERTIES Terminates
