---------------------------- MODULE MCMemStorage ----------------------------
(* Instances of MemStorage for TLC.                                          *)
EXTENDS MemStorage, TLC

CONSTANTS a, b      \* metric names

Gauge(i, arg)   == [mtype |-> "gauge", id |-> i, arg |-> arg]
Counter(i, arg) == [mtype |-> "counter", id |-> i, arg |-> arg]
Other(i)        == [mtype |-> "other", id |-> i, arg |-> "ok"]

Single(route, item) == [route |-> route, items |-> <<item>>]
Batch(items)        == [route |-> "batch", items |-> items]

Symmetry == Permutations(Reqs)

(* Every kind of update and of read, on one name.                            *)
AllInputs ==
  { Single("url", Counter(a, "ok")), Single("json", Counter(a, "ok")),
    Single("url", Gauge(a, "ok")), Single("url", Gauge(a, "nan")),
    Single("json", Gauge(a, "nil")), Single("json", Other(a)),
    Single("url", Other(a)), Single("getURL", Gauge(a, "ok")),
    Single("getJSON", Gauge(a, "ok")), Single("page", Gauge(a, "ok")),
    Batch(<<>>), Batch(<<Counter(a, "ok"), Counter(a, "ok")>>),
    Batch(<<Gauge(a, "nil"), Counter(a, "nil")>>), Batch(<<Other(a), Counter(a, "nil")>>),
    Batch(<<Counter(a, "ok"), Other(a)>>), Batch(<<Gauge(b, "ok"), Counter(a, "ok")>>) }

(* Updates whose order and effect a backup can see, that panic, or that are   *)
(* refused in part.                                                          *)
FewInputs ==
  { Single("url", Counter(a, "ok")), Single("url", Gauge(b, "nan")),
    Batch(<<Gauge(b, "ok"), Counter(a, "ok")>>), Batch(<<Other(a), Counter(a, "nil")>>),
    Batch(<<Counter(a, "ok"), Other(a)>>), Single("page", Gauge(a, "ok")) }

CounterUpdate == { Single("url", Counter(a, "ok")) }

Updates == { Single("url", Counter(a, "ok")), Single("url", Gauge(a, "ok")) }

NoFaults == {}
=============================================================================
