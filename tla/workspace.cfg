CONSTANTS
  Source <- SomeSource
  Trees <- SomeTrees
  Paths <- SomePaths
  Docs <- SomeDocs
  Within <- SomeWithin
  WordAt <- SomeWord
  InUri <- SomeInUri
  AsUri <- SomeAsUri
  Roots <- SomeRoots
  Edits <- SomeEdits
  Worlds <- SomeWorlds
  Places = {0, 1}
  Slots = 2
  Faults = {"kill", "io"}
SPECIFICATION Spec
INVARIANTS TypeOK DocumentsFollowClient DiagnosticsTruthful ExitTellsTruth MeaningKept WrittenIsGood
PROPERTIES AnswersFit EveryVersionReported
CHECK_DEADLOCK FALSE
