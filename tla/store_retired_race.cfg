CONSTANTS
  Coords = {v1}
  Contents = {x1}
  Requests = {r1, r2}
  Ops = {"put", "patch"}
  Faults = {}
SPECIFICATION Spec
PROPERTIES RetiredIsTerminal
