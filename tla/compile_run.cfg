CONSTANTS
  Source <- SomeSource
  Compilations <- SomeCompilations
  NameStarts <- SomeStarts
  Later <- SomeLater
  Held <- SomeHeld
  TeraRejects = {8}
  Faults = {"disk"}
SPECIFICATION FairSpec
CHECK_DEADLOCK FALSE
INVARIANTS TypeOK  DependenciesFirst  
PROPERTIES Terminates
