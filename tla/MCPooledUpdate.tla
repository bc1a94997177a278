---------------------------- MODULE MCPooledUpdate ----------------------------
(* Instances of PooledUpdate for TLC.                                        *)
EXTENDS PooledUpdate, TLC

Only(id)      == [id |-> id, delta |-> Missing, value |-> Missing]
It(id, num)   == IF id \in Gauges THEN [Only(id) EXCEPT !.value = num] ELSE [Only(id) EXCEPT !.delta = num]
Nameless(num) == [id |-> Missing, delta |-> num, value |-> num]

Single(item) == [kind |-> "single", items |-> <<item>>]
Url(item)    == [kind |-> "url", items |-> <<item>>]
Batch(items) == [kind |-> "batch", items |-> items]

(* Updates of either type with and without a number or a name, batches of one *)
(* and of two items, of the same layout and of others.                        *)
Mix ==
  { Single(It("g", 1)), Single(Only("g")), Single(It("c", 2)), Single(Only("c")),
    Single(Nameless(3)), Url(It("g", 3)),
    Batch(<<It("g", 1), It("c", 2)>>), Batch(<<It("g", 2), It("c", 1)>>),
    Batch(<<It("c", 3), It("h", 3)>>), Batch(<<Nameless(3)>>), Batch(<<Only("c")>>) }

JustSingle == {Single(It("g", 1)), Single(It("c", 2))}
Symmetry == Permutations(Reqs)
=============================================================================
