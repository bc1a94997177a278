CONSTANTS
  Reqs = {r1, r2}
  Gauges = {"g"}
  Counters = {"c"}
  Nums = {1, 2}
  MaxItems = 1
  Input <- JustSingle
  Missing = Missing
  Nil = Nil
  NoId = NoId
SPECIFICATION Spec
CHECK_DEADLOCK FALSE
INVARIANT GaugesRead
