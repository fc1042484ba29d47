CONSTANTS
  r1 = r1
  r2 = r2
  x1 = x1
  x2 = x2
  Coords = {c1}
  Contents = {x1, x2}
  Requests = {r1, r2}
  Ops = {"put", "patch", "meta", "content"}
  Faults = {"network", "disk", "kill", "crash"}
SPECIFICATION ClientSpec
SYMMETRY Symmetry
INVARIANTS ClientTypeOK CacheAgrees RetiredNotUsed PublishedOkIsMine
