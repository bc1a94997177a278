CONSTANTS
  Reqs = {r1, r2, r3}
  Gauges = {"g", "h"}
  Counters = {"c"}
  Nums = {1, 2, 3}
  MaxItems = 2
  Input <- Mix
  Missing = Missing
  Nil = Nil
  NoId = NoId
SPECIFICATION Spec
CHECK_DEADLOCK FALSE
SYMMETRY Symmetry
INVARIANTS
  TypeOK
  TakenAsSent
  SingleMissingAddsNothing
  AnsweredAsSent
  UrlGaugeKept
  GaugeKeptTillReuse
  GaugesKeptSameLayout
  PoolBounded
