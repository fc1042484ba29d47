CONSTANTS
  Coords = {c1}
  Contents = {x1, x2}
  Requests = {r1}
  Ops = {"put", "patch", "meta", "content"}
  Faults = {"kill"}
SPECIFICATION ClientSpec
INVARIANTS UsesPublishedText
