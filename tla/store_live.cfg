CONSTANTS
  Coords = {v1}
  Contents = {x1}
  Requests = {r1, r2}
  Ops = {"put", "patch", "content", "meta", "list"}
  Faults = {"crash", "cancel"}
SPECIFICATION FairSpec
PROPERTIES EventuallyVisible EveryRequestAnswered
