CONSTANTS
  Coords = {v1}
  Contents = {x1, x2}
  Requests = {r1, r2}
  Ops = {"put", "patch", "content"}
  Faults = {"crash", "cancel", "io"}
SPECIFICATION RaceSpec
SYMMETRY Symmetry
INVARIANTS TypeOK MetaImpliesModule ServedAsPublished
PROPERTIES PublishedForever SettledModuleImmutable ContentSetOnce NoLifecycleSkip
