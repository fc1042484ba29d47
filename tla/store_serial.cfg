CONSTANTS
  v1 = v1
  v2 = v2
  x1 = x1
  x2 = x2
  r1 = r1
  r2 = r2
  Coords = {v1, v2}
  Contents = {x1}
  Requests = {r1, r2}
  Ops = {"put", "patch", "content", "meta", "list"}
  Faults = {"crash"}
SPECIFICATION SerialSpec
SYMMETRY Symmetry
INVARIANTS RetirementGate MetaIsFresh ListIsFresh
PROPERTIES ImplementsModuleStore
