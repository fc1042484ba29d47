CONSTANTS
  Source <- SomeSource
  Compilations <- SomeCompilations
  NameStarts <- SomeStarts
  Later <- SomeLater
  Held <- SomeHeld
  TeraRejects = {8}
  Faults = {}
SPECIFICATION Spec
CHECK_DEADLOCK FALSE
INVARIANTS DependsOnEmittedFirst
