----------------------------- MODULE MCPgStorage -----------------------------
EXTENDS PgStorage

CONSTANTS c1, c2, nil, a, b

Counter(n, m) == [id |-> n, mtype |-> "counter", num |-> m]
Gauge(n, m)   == [id |-> n, mtype |-> "gauge", num |-> m]
Other(n)      == [id |-> n, mtype |-> "other", num |-> nil]

Update(item) == [op |-> "update", items |-> <<item>>]
Batch(items) == [op |-> "batch", items |-> items]

(* An update and anything else, and a batch with another one that writes the  *)
(* same rows in the other order.  Which of the calls is which does not matter.*)
OneUpdate == Update(Counter(a, 1))
OneBatch  == Batch(<<Counter(a, 1), Counter(b, 2)>>)
Page      == [op |-> "page", items |-> <<>>]
Crossed   == Batch(<<Gauge(b, 2), Counter(a, 2)>>)
Others ==
  { Update(Counter(a, nil)), Update(Other(a)), Batch(<<Other(b), Counter(a, 2)>>),
    [op |-> "get", items |-> <<Counter(a, nil)>>] }

MCInput == {OneUpdate, OneBatch, Page, Crossed} \union Others
MCNums  == 1 .. 2

Paired ==
  \/ req[c1] = OneUpdate /\ req[c2] # Crossed
  \/ req[c1] = OneBatch /\ req[c2] = Crossed

MCInit == Init /\ Paired

MCSpec == MCInit /\ [][Next]_vars /\ Fairness
==============================================================================
