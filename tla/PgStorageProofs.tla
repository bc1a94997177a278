--------------------------- MODULE PgStorageProofs ---------------------------
(***************************************************************************)
(* Theorems about PgStorage, for any calls, names, numbers and inputs.     *)
(***************************************************************************)
EXTENDS PgStorage, FiniteSetTheorems, WellFoundedInduction, TLAPS

Slot == 1 .. MaxItems

LEMMA InputType ==
  ASSUME req \in [Calls -> Input], NEW c \in Calls
  PROVE  /\ Op(c) \in Ops
         /\ Items(c) \in Seq(Item)
         /\ Len(Items(c)) \in Nat
         /\ DOMAIN Items(c) = 1 .. Len(Items(c))
         /\ DOMAIN Items(c) \subseteq Slot
         /\ \A k \in DOMAIN Items(c) : Items(c)[k] \in Item
         /\ Op(c) \in {"update", "get"} => DOMAIN Items(c) = {1}
<1>1. req[c] \in Call /\ Len(req[c].items) <= MaxItems
      /\ (req[c].op \in {"update", "get"} => Len(req[c].items) = 1)
  BY PgAssumption DEF PgAssumption
<1>2. Items(c) \in Seq(Item) /\ Op(c) \in Ops
  BY <1>1 DEF Items, Op, Call
<1>3. /\ Len(Items(c)) \in Nat /\ DOMAIN Items(c) = 1 .. Len(Items(c))
      /\ \A k \in DOMAIN Items(c) : Items(c)[k] \in Item
  BY <1>2
<1>4. DOMAIN Items(c) \subseteq Slot
  BY <1>1, <1>3, PgAssumption DEF PgAssumption, Items, Slot
<1>5. Op(c) \in {"update", "get"} => Len(Items(c)) = 1
  BY <1>1 DEF Items, Op
<1>6. Op(c) \in {"update", "get"} => DOMAIN Items(c) = {1}
  BY <1>3, <1>5
<1> QED
  BY <1>2, <1>3, <1>4, <1>6

LEMMA UpsertType ==
  ASSUME NEW row \in Row \union {NoRow}, NEW item \in Item
  PROVE  Upsert(row, item) \in Row
<1>1. item.num \in Nums \union {Nil} /\ Nums \subseteq Nat
  BY PgAssumption DEF PgAssumption, Item
<1>2. CASE row = NoRow
  BY <1>1, <1>2 DEF Upsert, Row
<1>3. CASE row \in Row
  <2>1. row.delta \in Nat \union {Nil} /\ item.num \in Nat \union {Nil}
    BY <1>1, <1>3 DEF Row
  <2>2. Sum(item.num, row.delta) \in Nat \union {Nil}
    BY <2>1 DEF Sum
  <2> QED
    BY <1>1, <1>3, <2>2 DEF Upsert, Row
<1> QED
  BY <1>2, <1>3

-------------------------------------------------------------------------------
(* A step of a call, of its timer, its connection or its statements, leaves   *)
(* the other calls alone.                                                     *)
SameFor(d) ==
  /\ pc'[d] = pc[d] /\ idx'[d] = idx[d] /\ try'[d] = try[d] /\ slept'[d] = slept[d]
  /\ outcome'[d] = outcome[d] /\ ans'[d] = ans[d]
  /\ tx'[d] = tx[d] /\ pend'[d] = pend[d] /\ applied'[d] = applied[d]
  /\ d \in expired' <=> d \in expired
  /\ d \in errs' <=> d \in errs
  /\ d \in gone' <=> d \in gone
  /\ d \in asked' <=> d \in asked
  /\ \A i : <<d, i>> \in flight' <=> <<d, i>> \in flight

StepOf(c) == Go(c) \/ Expire(c) \/ Lose(c) \/ Database(c)

LEMMA ReqKept == ASSUME NEW c \in Calls, StepOf(c) PROVE req' = req
BY DEF StepOf, Go, Database, Begin, Try, Sleep, Receive, BeginTx, SkipItem, Commit, Committed,
       PageRows, Expire, Lose, DbRun, DbStatement, DbCommit, DbUndo

LEMMA StepFrame ==
  ASSUME TypeOK, NEW c \in Calls, StepOf(c), NEW d \in Calls \ {c}
  PROVE  SameFor(d) /\ req' = req
<1> USE DEF TypeOK, SameFor, Goto, Return, goVars, dbVars
<1>1. CASE Begin(c) \/ Try(c)
  BY <1>1 DEF Begin, Try
<1>2. CASE Sleep(c)
  BY <1>2 DEF Sleep, GiveUp
<1>3. CASE Receive(c)
  BY <1>3 DEF Receive, Succeed
<1>4. CASE BeginTx(c) \/ SkipItem(c) \/ Commit(c)
  BY <1>4 DEF BeginTx, SkipItem, Commit
<1>5. CASE Committed(c) \/ PageRows(c) \/ Expire(c)
  BY <1>5 DEF Committed, PageRows, Expire
<1>6. CASE Lose(c)
  BY <1>6 DEF Lose
<1>7. ASSUME NEW i \in 0 .. Tries - 1, DbRun(c, i) PROVE SameFor(d) /\ req' = req
  BY <1>7 DEF DbRun, Answer
<1>8. CASE DbStatement(c)
  BY <1>8 DEF DbStatement, EndTx
<1>9. CASE DbCommit(c) \/ DbUndo(c)
  BY <1>9 DEF DbCommit, DbUndo, EndTx
<1> QED
  BY <1>1, <1>2, <1>3, <1>4, <1>5, <1>6, <1>7, <1>8, <1>9 DEF StepOf, Go, Database

-------------------------------------------------------------------------------
(* Types, and where a call may be.                                           *)

(* A batch works on an item it has, and of a type that is known; only a batch *)
(* has a transaction, and only what is not one has statements outside of it.  *)
PlaceOf(c) ==
  /\ Op(c) = "batch" => idx[c] <= Len(Items(c))
  /\ Op(c) = "batch" /\ pc[c] \in {"sent", "sleep"} =>
       idx[c] < Len(Items(c)) /\ Items(c)[At(c)].mtype # "other"
  /\ Op(c) = "batch" /\ pc[c] = "committing" => idx[c] = Len(Items(c))
  /\ pc[c] \in {"begin", "committing"} => Op(c) = "batch"
  /\ pc[c] = "rows" => Op(c) = "page"
  /\ Op(c) # "batch" => tx[c] = "none" /\ c \notin gone /\ c \notin asked
  /\ Op(c) = "update" /\ pc[c] \in {"try", "sent", "sleep"} => Items(c)[1].mtype # "other"
  /\ outcome[c] = "none" <=> pc[c] # "ret"
  /\ \A i : <<c, i>> \in flight =>
       Op(c) # "batch" /\ (Op(c) = "update" => Items(c)[1].mtype # "other")

Place == \A c \in Calls : PlaceOf(c)

Placed == TypeOK /\ Place

LEMMA PlaceFrame ==
  ASSUME Place, NEW d \in Calls, SameFor(d), req' = req
  PROVE  PlaceOf(d)'
BY DEF Place, PlaceOf, SameFor, Op, Items, At

LEMMA InitPlaced == Init => Placed
<1> SUFFICES ASSUME Init PROVE TypeOK /\ Place
  BY DEF Placed
<1>1. Nothing \in [Slot -> Nat] /\ NoRows \in [Names -> Row \union {NoRow}]
  BY DEF Nothing, NoRows, Slot
<1>2. 0 \in 0 .. MaxItems /\ 0 \in 0 .. Tries - 1 /\ 0 \in 0 .. Timeout
  BY PgAssumption DEF PgAssumption
<1>3. TypeOK
  BY <1>1, <1>2 DEF Init, TypeOK, Places, Slot
<1>4. \A c \in Calls : Len(Items(c)) \in Nat
  BY <1>3, InputType DEF TypeOK
<1>5. Place
  BY <1>4 DEF Init, Place, PlaceOf
<1> QED
  BY <1>3, <1>5

(* The steps of the server change no row, transaction or history; those of    *)
(* the database nothing else.                                                 *)
LEMMA ServerType ==
  ASSUME TypeOK, UNCHANGED <<req, rows, tx, pend, ver, snap, applied, killed>>,
         pc' \in [Calls -> Places], idx' \in [Calls -> 0 .. MaxItems],
         try' \in [Calls -> 0 .. Tries - 1], slept' \in [Calls -> 0 .. Timeout],
         {expired', errs', gone', asked'} \subseteq SUBSET Calls,
         outcome' \in [Calls -> {"none", "ok", "error"}],
         flight' \subseteq Calls \X (0 .. Tries - 1),
         ans' \in [Calls -> {"none", "ok", "failed"}],
         page' \in [Calls -> SUBSET Names]
  PROVE  TypeOK'
BY DEF TypeOK

LEMMA DatabaseType ==
  ASSUME TypeOK, UNCHANGED <<req, pc, goVars, gone, asked, page, killed>>,
         rows' \in [Names -> Row \union {NoRow}],
         flight' \subseteq Calls \X (0 .. Tries - 1),
         ans' \in [Calls -> {"none", "ok", "failed"}],
         tx' \in [Calls -> {"none", "open", "aborted", "ended"}],
         pend' \in [Calls -> [Slot -> Nat]],
         ver' \in [Calls -> [Names -> Row \union {NoRow}]],
         snap' \in [Calls -> [Names -> Row \union {NoRow}] \union {<<>>}],
         applied' \in [Calls -> [Slot -> Nat]]
  PROVE  TypeOK'
BY DEF TypeOK, goVars, Slot

LEMMA TryType ==
  ASSUME Placed, NEW c \in Calls, Begin(c) \/ Try(c) PROVE TypeOK'
<1> USE DEF Placed
<1>1. pc' \in [Calls -> Places] /\ outcome' \in [Calls -> {"none", "ok", "error"}]
  BY DEF Begin, Try, Goto, Return, TypeOK, Places, goVars
<1>2. flight' \subseteq Calls \X (0 .. Tries - 1)
  BY DEF Begin, Try, TypeOK, dbVars
<1> QED
  BY <1>1, <1>2, ServerType DEF Begin, Try, goVars, dbVars, TypeOK

LEMMA SleepType ==
  ASSUME Placed, NEW c \in Calls, Sleep(c) PROVE TypeOK'
<1> USE DEF Placed
<1>1. {Timeout, Tries, MaxItems} \subseteq Nat \ {0}
  BY PgAssumption DEF PgAssumption
<1>2. /\ try[c] \in 0 .. Tries - 1 /\ slept[c] \in 0 .. Timeout /\ idx[c] \in 0 .. MaxItems
      /\ pc[c] = "sleep"
  BY DEF TypeOK, Sleep
<1>3. slept' \in [Calls -> 0 .. Timeout] /\ expired' \subseteq Calls
  <2>1. slept[c] + Delay(try[c]) \in Nat
    BY <1>1, <1>2 DEF Delay
  <2> QED
    BY <1>1, <2>1 DEF Sleep, TypeOK
<1>4. CASE GiveUp(c)
  <2>1. Op(c) = "batch" => idx[c] + 1 \in 0 .. MaxItems
    <3>1. Op(c) = "batch" => idx[c] < Len(Items(c))
      BY <1>2 DEF Place, PlaceOf
    <3>2. Len(Items(c)) \in Nat /\ DOMAIN Items(c) = 1 .. Len(Items(c)) /\ DOMAIN Items(c) \subseteq Slot
      BY InputType DEF TypeOK
    <3>3. Len(Items(c)) <= MaxItems
      BY <1>1, <3>2 DEF Slot
    <3>4. MaxItems \in Nat /\ idx[c] \in Nat /\ Len(Items(c)) \in Nat
      BY <1>1, <1>2, <3>2
    <3> QED
      BY <3>1, <3>3, <3>4
  <2>2. pc' \in [Calls -> Places]
    BY <1>4 DEF GiveUp, Goto, Return, TypeOK, Places
  <2>3. idx' \in [Calls -> 0 .. MaxItems]
    BY <1>4, <2>1 DEF GiveUp, TypeOK
  <2>4. try' \in [Calls -> 0 .. Tries - 1]
    BY <1>1, <1>4 DEF GiveUp, TypeOK
  <2>5. errs' \subseteq Calls /\ outcome' \in [Calls -> {"none", "ok", "error"}]
    <3>1. errs \subseteq Calls /\ outcome \in [Calls -> {"none", "ok", "error"}]
      BY DEF TypeOK
    <3>2. errs' \subseteq Calls
      BY <1>4, <3>1 DEF GiveUp
    <3>3. outcome' \in {outcome, [outcome EXCEPT ![c] = "error"]}
      BY <1>4 DEF GiveUp, Return
    <3> QED
      BY <3>1, <3>2, <3>3
  <2>6. /\ UNCHANGED <<req, rows, tx, pend, ver, snap, applied, killed>>
        /\ UNCHANGED <<gone, asked, flight, ans, page>>
    BY DEF Sleep, dbVars
  <2>7. /\ gone \subseteq Calls /\ asked \subseteq Calls /\ flight \subseteq Calls \X (0 .. Tries - 1)
        /\ ans \in [Calls -> {"none", "ok", "failed"}] /\ page \in [Calls -> SUBSET Names]
    BY DEF TypeOK
  <2> QED
    BY <1>3, <2>2, <2>3, <2>4, <2>5, <2>6, <2>7, ServerType
<1>5. CASE /\ try[c] + 1 < Tries /\ try' = [try EXCEPT ![c] = @ + 1]
           /\ Goto(c, "try") /\ UNCHANGED <<idx, errs, outcome>>
  <2>1. pc' \in [Calls -> Places] /\ try' \in [Calls -> 0 .. Tries - 1]
    BY <1>1, <1>2, <1>5 DEF Goto, TypeOK, Places
  <2> QED
    BY <1>3, <1>5, <2>1, ServerType DEF Sleep, dbVars, TypeOK
<1> QED
  BY <1>4, <1>5 DEF Sleep

LEMMA NextIndex ==
  ASSUME Placed, NEW c \in Calls, Op(c) = "batch", idx[c] < Len(Items(c))
  PROVE  idx[c] + 1 \in 0 .. MaxItems /\ At(c) \in DOMAIN Items(c) /\ At(c) \in Slot
<1>1. /\ Len(Items(c)) \in Nat /\ DOMAIN Items(c) = 1 .. Len(Items(c))
      /\ DOMAIN Items(c) \subseteq Slot
  BY InputType DEF Placed, TypeOK
<1>2. idx[c] \in Nat /\ MaxItems \in Nat
  BY PgAssumption DEF PgAssumption, Placed, TypeOK
<1>3. idx[c] + 1 \in DOMAIN Items(c)
  BY <1>1, <1>2
<1> QED
  BY <1>1, <1>2, <1>3 DEF At, Slot

LEMMA ReceiveType ==
  ASSUME Placed, NEW c \in Calls, Receive(c) PROVE TypeOK'
<1>1. /\ pc[c] = "sent" /\ ans' = [ans EXCEPT ![c] = "none"]
      /\ UNCHANGED <<req, slept, expired, errs, rows, flight, tx, pend, ver, gone, asked, snap,
                     applied, page, killed>>
  BY DEF Receive
<1>2. {Timeout, Tries, MaxItems} \subseteq Nat \ {0}
  BY PgAssumption DEF PgAssumption
<1>3. Op(c) = "batch" => idx[c] + 1 \in 0 .. MaxItems
  BY <1>1, NextIndex DEF Placed, Place, PlaceOf
<1>4. CASE Succeed(c)
  <2>1. pc' \in [Calls -> Places]
    BY <1>4 DEF Succeed, Goto, Return, Placed, TypeOK, Places
  <2>2. idx' \in [Calls -> 0 .. MaxItems]
    BY <1>3, <1>4 DEF Succeed, Placed, TypeOK
  <2>3. try' \in [Calls -> 0 .. Tries - 1]
    BY <1>2, <1>4 DEF Succeed, Placed, TypeOK
  <2>4. outcome' \in [Calls -> {"none", "ok", "error"}]
    BY <1>4 DEF Succeed, Return, Placed, TypeOK
  <2> QED
    BY <1>1, <2>1, <2>2, <2>3, <2>4 DEF Placed, TypeOK
<1>5. CASE Goto(c, "sleep") /\ UNCHANGED <<idx, try, outcome>>
  BY <1>1, <1>5 DEF Goto, Placed, TypeOK, Places
<1> QED
  BY <1>4, <1>5 DEF Receive

LEMMA LoseType ==
  ASSUME Placed, NEW c \in Calls, Lose(c) PROVE TypeOK'
<1>1. pc' \in [Calls -> Places] /\ outcome' \in [Calls -> {"none", "ok", "error"}]
  BY DEF Lose, Goto, Return, Placed, TypeOK, Places
<1>2. gone' \subseteq Calls /\ ans' \in [Calls -> {"none", "ok", "failed"}]
  BY DEF Lose, Placed, TypeOK
<1> QED
  BY <1>1, <1>2 DEF Lose, Placed, TypeOK

LEMMA BatchStepType ==
  ASSUME Placed, NEW c \in Calls, BeginTx(c) \/ SkipItem(c) \/ Commit(c) PROVE TypeOK'
<1>1. CASE BeginTx(c)
  <2>1. pc' \in [Calls -> Places] /\ outcome' \in [Calls -> {"none", "ok", "error"}]
    BY <1>1 DEF BeginTx, Goto, Return, Placed, TypeOK, Places
  <2>2. tx' \in [Calls -> {"none", "open", "aborted", "ended"}]
    BY <1>1 DEF BeginTx, Placed, TypeOK
  <2> QED
    BY <1>1, <2>1, <2>2 DEF BeginTx, Placed, TypeOK
<1>2. CASE SkipItem(c)
  <2>1. idx[c] + 1 \in 0 .. MaxItems
    BY <1>2, NextIndex DEF SkipItem
  <2>2. idx' \in [Calls -> 0 .. MaxItems]
    BY <1>2, <2>1 DEF SkipItem, Placed, TypeOK
  <2>3. errs' \subseteq Calls
    BY <1>2 DEF SkipItem, Placed, TypeOK
  <2>4. UNCHANGED <<req, pc, try, slept, expired, outcome, dbVars, page, killed>>
    BY <1>2 DEF SkipItem
  <2> QED
    BY <2>2, <2>3, <2>4 DEF dbVars, Placed, TypeOK
<1>3. CASE Commit(c)
  <2>1. pc' \in [Calls -> Places]
    <3>1. pc' \in {[pc EXCEPT ![c] = "ret"], [pc EXCEPT ![c] = "committing"]}
      BY <1>3 DEF Commit, Goto, Return
    <3> QED
      BY <3>1 DEF Placed, TypeOK, Places
  <2>2. outcome' \in [Calls -> {"none", "ok", "error"}] /\ asked' \subseteq Calls
    BY <1>3 DEF Commit, Return, Placed, TypeOK
  <2> QED
    BY <1>3, <2>1, <2>2 DEF Commit, Placed, TypeOK
<1> QED
  BY <1>1, <1>2, <1>3

LEMMA EndType ==
  ASSUME Placed, NEW c \in Calls, Committed(c) \/ PageRows(c) \/ Expire(c) PROVE TypeOK'
<1>1. CASE Committed(c)
  <2>1. pc' \in [Calls -> Places] /\ outcome' \in [Calls -> {"none", "ok", "error"}]
    BY <1>1 DEF Committed, Joined, Return, Goto, Placed, TypeOK, Places
  <2> QED
    BY <1>1, <2>1 DEF Committed, dbVars, Placed, TypeOK
<1>2. CASE PageRows(c)
  <2>1. pc' \in [Calls -> Places] /\ outcome' \in [Calls -> {"none", "ok", "error"}]
    BY <1>2 DEF PageRows, Return, Goto, Placed, TypeOK, Places
  <2>2. page' \in [Calls -> SUBSET Names]
    BY <1>2 DEF PageRows, Listed, Placed, TypeOK
  <2> QED
    BY <1>2, <2>1, <2>2 DEF PageRows, dbVars, Placed, TypeOK
<1>3. CASE Expire(c)
  BY <1>3 DEF Expire, dbVars, Placed, TypeOK
<1> QED
  BY <1>1, <1>2, <1>3

LEMMA EndTxType ==
  ASSUME TypeOK, NEW c \in Calls, NEW how \in {"aborted", "ended"}, EndTx(c, how)
  PROVE  /\ tx' \in [Calls -> {"none", "open", "aborted", "ended"}]
         /\ pend' \in [Calls -> [Slot -> Nat]]
         /\ ver' \in [Calls -> [Names -> Row \union {NoRow}]]
<1>1. Nothing \in [Slot -> Nat] /\ NoRows \in [Names -> Row \union {NoRow}]
  BY DEF Nothing, NoRows, Slot
<1> QED
  BY <1>1 DEF EndTx, TypeOK, Slot

LEMMA SeenType ==
  ASSUME TypeOK, NEW c \in Calls, NEW n \in Names
  PROVE  Seen(c, n) \in Row \union {NoRow}
BY DEF Seen, TypeOK

LEMMA CountType ==
  ASSUME Placed
  PROVE  applied \in [Calls -> [Slot -> Nat]] /\ pend \in [Calls -> [Slot -> Nat]]
BY DEF Placed, TypeOK, Slot

LEMMA RunType ==
  ASSUME Placed, NEW c \in Calls, NEW i \in 0 .. Tries - 1, DbRun(c, i) PROVE TypeOK'
<1>1. /\ flight' = flight \ {<<c, i>>}
      /\ UNCHANGED <<req, pc, goVars, tx, pend, ver, gone, asked, page, killed>>
  BY DEF DbRun
<1>2. ASSUME NEW what \in {"ok", "failed"}, Answer(c, i, what)
      PROVE  ans' \in [Calls -> {"none", "ok", "failed"}]
  BY <1>2 DEF Answer, Placed, TypeOK
<1>3. CASE /\ Op(c) = "update" /\ rows' = Written(rows, Items(c)[1])
           /\ applied' = [applied EXCEPT ![c][1] = @ + 1]
           /\ Answer(c, i, "ok") /\ UNCHANGED snap
  <2>1. Items(c)[1] \in Item /\ 1 \in Slot
    BY <1>3, InputType DEF Placed, TypeOK
  <2>2. Items(c)[1].id \in Names /\ rows \in [Names -> Row \union {NoRow}]
    BY <2>1 DEF Item, Placed, TypeOK
  <2>3. Upsert(rows[Items(c)[1].id], Items(c)[1]) \in Row
    BY <2>1, <2>2, UpsertType
  <2>4. rows' \in [Names -> Row \union {NoRow}]
    BY <1>3, <2>2, <2>3 DEF Written
  <2>5. applied' \in [Calls -> [Slot -> Nat]]
    BY <1>3, <2>1, CountType
  <2> QED
    BY <1>1, <1>2, <1>3, <2>4, <2>5 DEF Placed, TypeOK, goVars, Slot
<1>4. CASE /\ snap' = IF Waits(c, i) THEN [snap EXCEPT ![c] = rows] ELSE snap
           /\ Answer(c, i, "ok") /\ UNCHANGED <<rows, applied>>
  <2>1. snap' \in [Calls -> [Names -> Row \union {NoRow}] \union {<<>>}]
    BY <1>4 DEF Placed, TypeOK
  <2> QED
    BY <1>1, <1>2, <1>4, <2>1 DEF Placed, TypeOK, goVars
<1>5. CASE Answer(c, i, "failed") /\ UNCHANGED <<rows, applied, snap>>
  BY <1>1, <1>2, <1>5 DEF Placed, TypeOK, goVars
<1> QED
  BY <1>3, <1>4, <1>5 DEF DbRun

LEMMA StatementType ==
  ASSUME Placed, NEW c \in Calls, DbStatement(c) PROVE TypeOK'
<1> DEFINE item == Items(c)[At(c)]
<1>1. /\ pc[c] = "sent" /\ Op(c) = "batch"
      /\ UNCHANGED <<req, pc, goVars, rows, flight, gone, asked, snap, applied, page, killed>>
  BY DEF DbStatement
<1>2. At(c) \in Slot /\ At(c) \in DOMAIN Items(c)
  BY <1>1, NextIndex DEF Placed, Place, PlaceOf
<1>3. item \in Item
  BY <1>2, InputType DEF Placed, TypeOK
<1>4. CASE /\ pend' = [pend EXCEPT ![c][At(c)] = @ + 1]
           /\ ver' = [ver EXCEPT ![c][item.id] = Upsert(Seen(c, item.id), item)]
           /\ ans' = [ans EXCEPT ![c] = "ok"] /\ UNCHANGED tx
  <2>1. item.id \in Names
    BY <1>3 DEF Item
  <2>2. Upsert(Seen(c, item.id), item) \in Row
    BY <1>3, <2>1, SeenType, UpsertType DEF Placed
  <2>3. ver' \in [Calls -> [Names -> Row \union {NoRow}]]
    BY <1>4, <2>1, <2>2 DEF Placed, TypeOK
  <2>4. pend' \in [Calls -> [Slot -> Nat]]
    BY <1>2, <1>4, CountType
  <2>5. ans' \in [Calls -> {"none", "ok", "failed"}]
    BY <1>4 DEF Placed, TypeOK
  <2> QED
    BY <1>1, <1>4, <2>3, <2>4, <2>5 DEF Placed, TypeOK, goVars, Slot
<1>5. CASE EndTx(c, "aborted") /\ ans' = [ans EXCEPT ![c] = "failed"]
  <2>1. ans' \in [Calls -> {"none", "ok", "failed"}]
    BY <1>5 DEF Placed, TypeOK
  <2> QED
    BY <1>1, <1>5, <2>1, EndTxType DEF Placed, TypeOK, goVars, Slot
<1> QED
  BY <1>4, <1>5 DEF DbStatement

LEMMA TransactionType ==
  ASSUME Placed, NEW c \in Calls, DbCommit(c) \/ DbUndo(c) PROVE TypeOK'
<1>1. EndTx(c, "ended") /\ UNCHANGED <<req, pc, goVars, flight, gone, asked, snap, page, killed>>
  BY DEF DbCommit, DbUndo
<1>2. /\ tx' \in [Calls -> {"none", "open", "aborted", "ended"}]
      /\ pend' \in [Calls -> [Slot -> Nat]]
      /\ ver' \in [Calls -> [Names -> Row \union {NoRow}]]
  BY <1>1, EndTxType DEF Placed
<1>3. CASE DbCommit(c)
  <2>1. rows' \in [Names -> Row \union {NoRow}]
    BY <1>3, SeenType DEF DbCommit, Placed
  <2>2. ans' \in [Calls -> {"none", "ok", "failed"}]
    BY <1>3 DEF DbCommit, Placed, TypeOK
  <2>3. applied' \in [Calls -> [Slot -> Nat]]
    <3>1. applied' = [applied EXCEPT ![c] = [k \in Slot |-> applied[c][k] + pend[c][k]]]
      BY <1>3 DEF DbCommit, Slot
    <3>2. [k \in Slot |-> applied[c][k] + pend[c][k]] \in [Slot -> Nat]
      BY CountType
    <3> QED
      BY <3>1, <3>2, CountType
  <2> QED
    BY <1>1, <1>2, <2>1, <2>2, <2>3 DEF Placed, TypeOK, goVars, Slot
<1>4. CASE DbUndo(c)
  BY <1>1, <1>2, <1>4 DEF DbUndo, Placed, TypeOK, goVars, Slot
<1> QED
  BY <1>3, <1>4

LEMMA KillType == ASSUME Placed, Kill PROVE TypeOK'
<1>1. pc' \in [Calls -> Places]
  BY DEF Kill, Placed, TypeOK, Places
<1>2. /\ idx' \in [Calls -> 0 .. MaxItems] /\ try' \in [Calls -> 0 .. Tries - 1]
      /\ slept' \in [Calls -> 0 .. Timeout]
  BY PgAssumption DEF PgAssumption, Kill
<1>3. gone' \subseteq Calls /\ ans' \in [Calls -> {"none", "ok", "failed"}]
  BY DEF Kill, Placed, TypeOK
<1> QED
  BY <1>1, <1>2, <1>3 DEF Kill, Placed, TypeOK

(* Where the call that moves may be then.                                     *)
LEMMA GoPlace ==
  ASSUME Placed, NEW c \in Calls, Go(c) PROVE PlaceOf(c)'
<1> USE DEF Goto, Return
<1>1. /\ PlaceOf(c) /\ idx[c] \in Nat /\ Len(Items(c)) \in Nat
      /\ pc \in [Calls -> Places] /\ idx \in [Calls -> 0 .. MaxItems]
      /\ outcome \in [Calls -> {"none", "ok", "error"}]
  BY InputType, PgAssumption DEF PgAssumption, Placed, Place, TypeOK
<1>2. req' = req => Op(c)' = Op(c) /\ Items(c)' = Items(c)
  BY DEF Op, Items
<1>3. CASE Begin(c)
  <2>1. UNCHANGED <<req, idx, tx, gone, asked, flight>> /\ pc[c] = "new"
    BY <1>3 DEF Begin, dbVars
  <2>2. Op(c) \in Ops
    BY InputType DEF Placed, TypeOK
  <2>3. pc'[c] \in {"begin", "try", "ret"}
    BY <1>1, <1>3 DEF Begin
  <2> QED
    BY <1>1, <1>2, <1>3, <2>1, <2>2, <2>3 DEF Begin, PlaceOf
<1>4. CASE Try(c)
  <2>1. UNCHANGED <<req, idx, tx, gone, asked, outcome>> /\ pc[c] = "try" /\ pc'[c] \in {"sent", "sleep"}
    BY <1>1, <1>4 DEF Try, goVars
  <2>2. \A i : <<c, i>> \in flight' => <<c, i>> \in flight \/ Op(c) # "batch"
    BY <1>4 DEF Try
  <2>3. Op(c) = "batch" => idx[c] < Len(Items(c)) /\ Items(c)[At(c)].mtype # "other"
    BY <1>4 DEF Try
  <2> QED
    BY <1>1, <1>2, <2>1, <2>2, <2>3 DEF PlaceOf, At
<1>5. CASE Sleep(c)
  <2>1. UNCHANGED <<req, tx, gone, asked, flight>> /\ pc[c] = "sleep"
    BY <1>5 DEF Sleep, dbVars
  <2>2. CASE pc' = [pc EXCEPT ![c] = "try"] /\ UNCHANGED <<idx, outcome>>
    BY <1>1, <1>2, <2>1, <2>2 DEF PlaceOf
  <2>3. CASE GiveUp(c) /\ Op(c) = "batch"
    BY <1>1, <1>2, <2>1, <2>3 DEF PlaceOf, GiveUp
  <2>4. CASE GiveUp(c) /\ Op(c) # "batch"
    BY <1>1, <1>2, <2>1, <2>4 DEF PlaceOf, GiveUp
  <2> QED
    BY <1>5, <2>2, <2>3, <2>4 DEF Sleep
<1>6. CASE Receive(c)
  <2>1. UNCHANGED <<req, tx, gone, asked, flight>> /\ pc[c] = "sent"
    BY <1>6 DEF Receive
  <2>2. CASE pc' = [pc EXCEPT ![c] = "sleep"] /\ UNCHANGED <<idx, outcome>>
    BY <1>1, <1>2, <2>1, <2>2 DEF PlaceOf, At
  <2>3. CASE Succeed(c)
    <3>1. CASE Op(c) = "batch"
      BY <1>1, <1>2, <2>1, <2>3, <3>1 DEF PlaceOf, Succeed
    <3>2. CASE Op(c) # "batch"
      BY <1>1, <1>2, <2>1, <2>3, <3>2 DEF PlaceOf, Succeed
    <3> QED
      BY <3>1, <3>2
  <2> QED
    BY <1>6, <2>2, <2>3 DEF Receive
<1>7. CASE BeginTx(c)
  BY <1>1, <1>2, <1>7 DEF BeginTx, PlaceOf
<1>8. CASE SkipItem(c)
  BY <1>1, <1>2, <1>8 DEF SkipItem, PlaceOf, dbVars
<1>9. CASE Commit(c)
  BY <1>1, <1>2, <1>9 DEF Commit, PlaceOf
<1>10. CASE Committed(c)
  BY <1>1, <1>2, <1>10 DEF Committed, Joined, PlaceOf, dbVars
<1>11. CASE PageRows(c)
  BY <1>1, <1>2, <1>11 DEF PageRows, PlaceOf, dbVars
<1> QED
  BY <1>3, <1>4, <1>5, <1>6, <1>7, <1>8, <1>9, <1>10, <1>11 DEF Go

LEMMA OtherPlace ==
  ASSUME Placed, NEW c \in Calls, Expire(c) \/ Lose(c) \/ Database(c) PROVE PlaceOf(c)'
<1>1. /\ PlaceOf(c) /\ pc \in [Calls -> Places] /\ outcome \in [Calls -> {"none", "ok", "error"}]
      /\ tx \in [Calls -> {"none", "open", "aborted", "ended"}]
  BY DEF Placed, Place, TypeOK
<1>2. req' = req => Op(c)' = Op(c) /\ Items(c)' = Items(c)
  BY DEF Op, Items
<1>3. CASE Expire(c)
  BY <1>1, <1>2, <1>3 DEF Expire, PlaceOf, At, dbVars
<1>4. CASE Lose(c)
  BY <1>1, <1>2, <1>4 DEF Lose, Goto, Return, PlaceOf, At
<1>5. ASSUME NEW i \in 0 .. Tries - 1, DbRun(c, i) PROVE PlaceOf(c)'
  BY <1>1, <1>2, <1>5 DEF DbRun, PlaceOf, At, goVars
<1>6. CASE DbStatement(c)
  BY <1>1, <1>2, <1>6 DEF DbStatement, EndTx, PlaceOf, At, goVars
<1>7. CASE DbCommit(c) \/ DbUndo(c)
  BY <1>1, <1>2, <1>7 DEF DbCommit, DbUndo, EndTx, PlaceOf, At, goVars
<1> QED
  BY <1>3, <1>4, <1>5, <1>6, <1>7 DEF Database

LEMMA NextPlaced == ASSUME Placed, [Next]_vars PROVE Placed'
<1>1. ASSUME NEW c \in Calls, StepOf(c) PROVE Placed'
  <2>1. TypeOK'
    BY <1>1, TryType, SleepType, ReceiveType, LoseType, BatchStepType, EndType, RunType,
       StatementType, TransactionType DEF StepOf, Go, Database
  <2>2. PlaceOf(c)'
    BY <1>1, GoPlace, OtherPlace DEF StepOf
  <2>3. \A d \in Calls \ {c} : PlaceOf(d)'
    BY <1>1, StepFrame, PlaceFrame DEF Placed
  <2> QED
    BY <2>1, <2>2, <2>3 DEF Placed, Place
<1>2. CASE Kill
  <2>1. ASSUME NEW c \in Calls PROVE PlaceOf(c)'
    <3>1. /\ pc'[c] = IF pc[c] \in Active THEN "dead" ELSE pc[c]
          /\ idx'[c] = 0 /\ UNCHANGED <<req, outcome, tx, asked, flight>>
          /\ c \in gone' => c \in gone \/ Op(c) = "batch"
      BY <1>2 DEF Kill
    <3>2. Len(Items(c)) \in Nat /\ Op(c)' = Op(c) /\ Items(c)' = Items(c)
      BY <3>1, InputType DEF Placed, TypeOK, Op, Items
    <3>3. pc'[c] \in {"new", "ret", "dead"} /\ (pc'[c] = "ret" <=> pc[c] = "ret")
      BY <3>1 DEF Active, Placed, TypeOK
    <3> QED
      BY <3>1, <3>2, <3>3 DEF Placed, Place, PlaceOf
  <2> QED
    BY <1>2, <2>1, KillType DEF Placed, Place
<1>3. CASE UNCHANGED vars
  <2>1. TypeOK'
    BY <1>3 DEF vars, goVars, dbVars, Placed, TypeOK
  <2>2. \A c \in Calls : SameFor(c) /\ req' = req
    BY <1>3 DEF vars, goVars, dbVars, SameFor
  <2> QED
    BY <2>1, <2>2, PlaceFrame DEF Placed, Place
<1> QED
  BY <1>1, <1>2, <1>3 DEF Next, StepOf

THEOREM PlacedInvariant == Spec => []Placed
<1> QED
  BY InitPlaced, NextPlaced, PTL DEF Spec

(* Every variable has its type throughout, whatever is called.                *)
THEOREM TypeInvariant == Spec => []TypeOK
<1>1. Placed => TypeOK
  BY DEF Placed
<1> QED
  BY <1>1, PlacedInvariant, PTL

-------------------------------------------------------------------------------
(* An update.                                                                *)

(* What it has sent can be told from where it is: a statement for each try, as *)
(* long as its seconds last, which is until the third.  What is on its way and *)
(* what has been run is no more than that.                                    *)
Sent(c) ==
  CASE pc[c] = "new" -> 0
    [] pc[c] = "try" /\ try[c] < 2 -> try[c]
    [] pc[c] \in {"sent", "sleep"} /\ try[c] = 0 -> 1
    [] OTHER -> 2

Flying(c, i) == IF <<c, i>> \in flight THEN 1 ELSE 0

UpdateOf(c) ==
  /\ pc[c] = "new" => try[c] = 0
  /\ try[c] >= 1 => slept[c] >= 1 \/ c \in expired
  /\ try[c] >= 2 => c \in expired
  /\ \A i : <<c, i>> \in flight =>
       /\ i \in {0, 1} /\ pc[c] # "new"
       /\ pc[c] = "try" => i < try[c]
       /\ pc[c] \in {"sent", "sleep"} => i <= try[c]
  /\ applied[c][1] + Flying(c, 0) + Flying(c, 1) <= Sent(c)
  /\ ans[c] = "ok" \/ outcome[c] = "ok" => applied[c][1] >= 1

Counted == Placed /\ \A c \in Calls : Op(c) = "update" => UpdateOf(c)

LEMMA SentType ==
  ASSUME Placed, NEW c \in Calls
  PROVE  /\ applied[c][1] \in Nat /\ Flying(c, 0) \in Nat /\ Flying(c, 1) \in Nat
         /\ Sent(c) \in 0 .. 2
<1>1. 1 \in Slot
  BY PgAssumption DEF PgAssumption, Slot
<1>2. try[c] \in Nat
  BY PgAssumption DEF PgAssumption, Placed, TypeOK
<1>3. Sent(c) \in 0 .. 2
  BY <1>2 DEF Sent
<1> QED
  BY <1>1, <1>3, CountType DEF Flying

LEMMA InitCounted == Init => Counted
<1> SUFFICES ASSUME Init, NEW c \in Calls, Op(c) = "update" PROVE UpdateOf(c)
  BY InitPlaced DEF Counted
<1>1. 1 \in Slot
  BY PgAssumption DEF PgAssumption, Slot
<1>2. applied[c][1] = 0
  BY <1>1 DEF Init, Nothing, Slot
<1> QED
  BY <1>2 DEF Init, UpdateOf, Sent, Flying

LEMMA UpdateStep ==
  ASSUME Counted, NEW c \in Calls, StepOf(c), Op(c) = "update" PROVE UpdateOf(c)'
<1>1. /\ UpdateOf(c) /\ PlaceOf(c) /\ 1 \in Slot
      /\ applied[c][1] \in Nat /\ applied \in [Calls -> [Slot -> Nat]]
      /\ try[c] \in 0 .. Tries - 1 /\ slept[c] \in 0 .. Timeout
      /\ try \in [Calls -> 0 .. Tries - 1] /\ slept \in [Calls -> 0 .. Timeout]
      /\ pc \in [Calls -> Places] /\ outcome \in [Calls -> {"none", "ok", "error"}]
      /\ ans \in [Calls -> {"none", "ok", "failed"}]
  <2>1. UpdateOf(c) /\ PlaceOf(c)
    BY DEF Counted, Placed, Place
  <2>2. 1 \in Slot
    BY PgAssumption DEF PgAssumption, Slot
  <2>3. applied \in [Calls -> [Slot -> Nat]] /\ applied[c][1] \in Nat
    BY <2>2, CountType DEF Counted
  <2> QED
    BY <2>1, <2>2, <2>3 DEF Counted, Placed, TypeOK
<1>2. {Timeout, Tries} \subseteq Nat \ {0} /\ Timeout <= 4
  BY PgAssumption, TimeoutAssumption DEF PgAssumption, TimeoutAssumption
<1>3. CASE Begin(c)
  <2>1. pc[c] = "new" /\ pc'[c] \in {"try", "ret"} /\ outcome'[c] \in {outcome[c], "error"}
    BY <1>1, <1>3 DEF Begin, Goto, Return
  <2>2. UNCHANGED <<try, slept, expired, flight, ans, applied>>
    BY <1>3 DEF Begin, dbVars
  <2> QED
    BY <1>1, <2>1, <2>2 DEF UpdateOf, Sent, Flying
<1>4. CASE Try(c)
  <2>1. pc[c] = "try" /\ UNCHANGED <<try, slept, expired, ans, applied, outcome>>
    BY <1>4 DEF Try, goVars
  <2>2. CASE pc' = [pc EXCEPT ![c] = "sleep"] /\ UNCHANGED flight
    BY <1>1, <2>1, <2>2 DEF UpdateOf, Sent, Flying
  <2>3. CASE /\ c \notin expired \union gone /\ pc' = [pc EXCEPT ![c] = "sent"]
             /\ flight' = flight \union {<<c, try[c]>>}
    <3>1. pc'[c] = "sent" /\ try[c] \in {0, 1} /\ <<c, try[c]>> \notin flight
      BY <1>1, <2>1, <2>3 DEF UpdateOf
    <3>2. \A i : <<c, i>> \in flight' <=> <<c, i>> \in flight \/ i = try[c]
      BY <2>3
    <3>3. Flying(c, 0)' + Flying(c, 1)' = Flying(c, 0) + Flying(c, 1) + 1
      BY <3>1, <3>2 DEF Flying
    <3>4. Sent(c) = try[c] /\ Sent(c)' = try[c] + 1
      BY <2>1, <3>1 DEF Sent
    <3>5. Flying(c, 0) \in Nat /\ Flying(c, 1) \in Nat /\ Flying(c, 0)' \in Nat /\ Flying(c, 1)' \in Nat
      BY DEF Flying
    <3>6. (applied[c][1] + Flying(c, 0) + Flying(c, 1) <= Sent(c))'
      BY <1>1, <2>1, <3>1, <3>3, <3>4, <3>5 DEF UpdateOf
    <3> QED
      BY <1>1, <2>1, <3>1, <3>2, <3>6 DEF UpdateOf
  <2> QED
    BY <1>4, <2>2, <2>3 DEF Try, Goto
<1>5. CASE Sleep(c)
  <2> DEFINE s == slept[c] + Delay(try[c])
  <2>1. /\ pc[c] = "sleep" /\ UNCHANGED <<flight, ans, applied>>
        /\ slept'[c] = IF s > Timeout THEN Timeout ELSE s
        /\ expired' = IF s >= Timeout THEN expired \union {c} ELSE expired
    BY <1>1, <1>5 DEF Sleep, dbVars
  <2>2. s = slept[c] + 2 * try[c] + 1
    BY <1>1 DEF Delay
  <2>3. \/ pc'[c] = "try" /\ try'[c] = try[c] + 1 /\ outcome'[c] = outcome[c]
        \/ pc'[c] = "ret" /\ try'[c] = 0 /\ outcome'[c] = "error"
    BY <1>1, <1>5 DEF Sleep, GiveUp, Goto, Return
  <2>4. try'[c] >= 1 => slept'[c] >= 1 \/ c \in expired'
    BY <1>1, <1>2, <2>1, <2>2, <2>3
  <2>5. try'[c] >= 2 => c \in expired'
    <3>1. try[c] >= 1 => c \in expired \/ s >= 4
      BY <1>1, <2>2 DEF UpdateOf
    <3>2. try[c] >= 1 => c \in expired'
      <4>1. s \in Nat /\ Timeout \in Nat /\ Timeout <= 4
        BY <1>1, <1>2, <2>2
      <4>2. CASE c \in expired
        BY <2>1, <4>2
      <4>3. CASE s >= 4
        <5>1. s >= Timeout
          BY <4>1, <4>3
        <5> QED
          BY <2>1, <5>1
      <4> QED
        BY <3>1, <4>2, <4>3
    <3>3. try'[c] >= 2 => try[c] >= 1
      BY <1>1, <2>3
    <3> QED
      BY <3>2, <3>3
  <2>6. Sent(c) <= Sent(c)' /\ Sent(c) \in Nat /\ Sent(c)' \in Nat
    <3>1. Sent(c) = IF try[c] = 0 THEN 1 ELSE 2
      BY <2>1 DEF Sent
    <3>2. CASE pc'[c] = "try" /\ try'[c] = try[c] + 1
      <4>1. Sent(c)' = IF try'[c] < 2 THEN try'[c] ELSE 2
        BY <3>2 DEF Sent
      <4> QED
        <5>1. try[c] \in Nat
          BY <1>1, <1>2
        <5> QED
          BY <3>1, <3>2, <4>1, <5>1
    <3>3. CASE pc'[c] = "ret"
      <4>1. Sent(c)' = 2
        BY <3>3 DEF Sent
      <4> QED
        BY <3>1, <4>1
    <3> QED
      BY <2>3, <3>2, <3>3
  <2>7. Flying(c, 0)' = Flying(c, 0) /\ Flying(c, 1)' = Flying(c, 1) /\ Flying(c, 0) \in Nat /\ Flying(c, 1) \in Nat
    BY <2>1 DEF Flying
  <2>8. (applied[c][1] + Flying(c, 0) + Flying(c, 1) <= Sent(c))'
    BY <1>1, <2>1, <2>6, <2>7 DEF UpdateOf
  <2> QED
    BY <1>1, <2>1, <2>3, <2>4, <2>5, <2>8 DEF UpdateOf
<1>6. CASE Receive(c)
  <2>1. /\ pc[c] = "sent" /\ ans'[c] = "none"
        /\ UNCHANGED <<slept, expired, flight, applied>>
    BY <1>1, <1>6 DEF Receive
  <2>2. \/ pc'[c] = "sleep" /\ try' = try /\ outcome' = outcome
        \/ pc'[c] = "ret" /\ try'[c] = 0 /\ outcome'[c] = "ok" /\ ans[c] = "ok"
    BY <1>1, <1>6 DEF Receive, Succeed, Goto, Return
  <2> QED
    BY <1>1, <2>1, <2>2 DEF UpdateOf, Sent, Flying
<1>7. CASE Expire(c)
  <2>1. UNCHANGED <<pc, try, slept, outcome, flight, ans, applied>> /\ expired' = expired \union {c}
    BY <1>7 DEF Expire, dbVars
  <2> QED
    BY <1>1, <2>1 DEF UpdateOf, Sent, Flying
<1>8. CASE Lose(c)
  <2>1. /\ pc[c] = "sent" /\ pc'[c] = "sleep" /\ ans'[c] = "none" /\ outcome' = outcome
        /\ UNCHANGED <<try, slept, expired, flight, applied>>
    BY <1>1, <1>8 DEF Lose, Goto, PlaceOf
  <2> QED
    BY <1>1, <2>1 DEF UpdateOf, Sent, Flying
<1>9. ASSUME NEW i \in 0 .. Tries - 1, DbRun(c, i) PROVE UpdateOf(c)'
  <2>1. /\ <<c, i>> \in flight /\ flight' = flight \ {<<c, i>>} /\ i \in {0, 1}
        /\ UNCHANGED <<pc, try, slept, expired, outcome>>
    BY <1>1, <1>9 DEF DbRun, goVars, UpdateOf
  <2>2. \/ applied'[c][1] = applied[c][1] + 1
        \/ applied'[c][1] = applied[c][1] /\ ans'[c] \in {"failed", ans[c]}
    BY <1>1, <1>9 DEF DbRun, Answer
  <2>3. Sent(c)' = Sent(c) /\ Sent(c) \in Nat
    BY <1>1, <2>1 DEF Sent
  <2>4. Flying(c, 0)' + Flying(c, 1)' = Flying(c, 0) + Flying(c, 1) - 1
    BY <2>1 DEF Flying
  <2>5. Flying(c, 0) \in Nat /\ Flying(c, 1) \in Nat /\ Flying(c, 0)' \in Nat /\ Flying(c, 1)' \in Nat
    BY DEF Flying
  <2>6. (applied[c][1] + Flying(c, 0) + Flying(c, 1) <= Sent(c))'
    BY <1>1, <2>2, <2>3, <2>4, <2>5 DEF UpdateOf
  <2>7. ans'[c] = "ok" \/ outcome'[c] = "ok" => applied'[c][1] >= 1
    BY <1>1, <2>1, <2>2 DEF UpdateOf
  <2>8. \A j : <<c, j>> \in flight' => <<c, j>> \in flight
    BY <2>1
  <2> QED
    BY <1>1, <2>1, <2>6, <2>7, <2>8 DEF UpdateOf
<1>10. ~(\/ BeginTx(c) \/ SkipItem(c) \/ Commit(c) \/ Committed(c) \/ PageRows(c)
         \/ DbStatement(c) \/ DbCommit(c) \/ DbUndo(c))
  BY <1>1 DEF PlaceOf, BeginTx, SkipItem, Commit, Committed, PageRows, DbStatement, DbCommit, DbUndo
<1> QED
  BY <1>3, <1>4, <1>5, <1>6, <1>7, <1>8, <1>9, <1>10 DEF StepOf, Go, Database

LEMMA NextCounted == ASSUME Counted, [Next]_vars PROVE Counted'
<1> SUFFICES ASSUME NEW d \in Calls, Op(d)' = "update" PROVE UpdateOf(d)'
  BY NextPlaced DEF Counted
<1>1. ASSUME SameFor(d), req' = req PROVE UpdateOf(d)'
  BY <1>1 DEF Counted, UpdateOf, SameFor, Sent, Flying, Op
<1>2. ASSUME NEW c \in Calls, StepOf(c) PROVE UpdateOf(d)'
  <2>1. CASE c # d
    BY <1>1, <1>2, <2>1, StepFrame DEF Counted, Placed
  <2>2. CASE c = d
    <3>1. req' = req
      BY <1>2, ReqKept
    <3> QED
      BY <1>2, <2>2, <3>1, UpdateStep DEF Op
  <2> QED
    BY <2>1, <2>2
<1>3. CASE Kill
  <2>1. /\ pc'[d] = IF pc[d] \in Active THEN "dead" ELSE pc[d]
        /\ try'[d] = 0 /\ ans'[d] = "none"
        /\ UNCHANGED <<req, flight, applied, outcome, expired>>
    BY <1>3 DEF Kill
  <2>2. UpdateOf(d) /\ pc[d] \in Places
    BY <2>1 DEF Counted, Op, Placed, TypeOK
  <2>3. pc'[d] = "new" \/ pc'[d] \in {"ret", "dead"}
    BY <2>1, <2>2 DEF Active, Places
  <2>4. applied[d][1] \in Nat /\ Flying(d, 0) \in Nat /\ Flying(d, 1) \in Nat /\ Sent(d) \in 0 .. 2
    BY SentType DEF Counted
  <2>5. Sent(d) <= Sent(d)'
    BY <2>1, <2>3, <2>4 DEF Sent, Active
  <2>6. (applied[d][1] + Flying(d, 0) + Flying(d, 1) <= Sent(d))'
    BY <2>1, <2>2, <2>3, <2>4, <2>5 DEF UpdateOf, Flying, Sent
  <2> QED
    BY <2>1, <2>2, <2>3, <2>6 DEF UpdateOf, Active
<1>4. CASE UNCHANGED vars
  BY <1>1, <1>4 DEF vars, goVars, dbVars, SameFor
<1> QED
  BY <1>2, <1>3, <1>4 DEF Next, StepOf

THEOREM CountedInvariant == Spec => []Counted
<1> QED
  BY InitCounted, NextCounted, PTL DEF Spec

(* No update is run more than twice, however many tries Retry has: the first  *)
(* two delays use up the seconds of the call.                                 *)
THEOREM UpdatedAtMostTwiceInvariant == Spec => []UpdatedAtMostTwice
<1>1. Counted => UpdatedAtMostTwice
  <2> SUFFICES ASSUME Counted, NEW c \in Calls, Op(c) = "update" PROVE applied[c][1] <= 2
    BY DEF UpdatedAtMostTwice
  <2>1. applied[c][1] \in Nat /\ Flying(c, 0) \in Nat /\ Flying(c, 1) \in Nat /\ Sent(c) \in 0 .. 2
    BY SentType DEF Counted
  <2> QED
    BY <2>1 DEF Counted, UpdateOf
<1> QED
  BY <1>1, CountedInvariant, PTL
-------------------------------------------------------------------------------
(* A batch.                                                                  *)

(* A batch that has not begun has no transaction; the connection is lost for  *)
(* good when the call stops waiting, and COMMIT is the last that is sent.     *)
Connected(c) ==
  /\ pc[c] \in {"new", "begin"} => tx[c] = "none" /\ c \notin gone /\ idx[c] = 0
  /\ pc[c] \in {"sent", "committing"} => c \notin gone
  /\ c \in asked => pc[c] \in {"committing", "ret", "dead"}
  /\ tx[c] = "ended" => c \in asked \union gone
  /\ pc[c] \in {"new", "begin", "try", "sleep"} => ans[c] = "none"

(* What is written is with an open transaction, and what is committed with    *)
(* one that is over; each item once.                                          *)
Once(c) ==
  \A k \in Slot :
    /\ pend[c][k] \in {0, 1} /\ applied[c][k] \in {0, 1}
    /\ pend[c][k] = 1 => tx[c] = "open" /\ k \in Known(c)
    /\ applied[c][k] = 1 => tx[c] = "ended" /\ k \in Known(c)

Prefixed(c, count) == \A j, k \in Known(c) : j < k => count[k] <= count[j]

(* Where a statement may still be sent for the item a batch is at, those      *)
(* before it have been written, and it and those after it have not.           *)
Ahead(c) ==
  pc[c] \in {"try", "sent", "sleep"} =>
    /\ \A k \in Slot : k > At(c) => pend[c][k] = 0
    /\ pc[c] = "sent" /\ ans[c] # "ok" => pend[c][At(c)] = 0
    /\ pc[c] = "try" /\ c \notin expired \union gone /\ idx[c] < Len(Items(c)) => pend[c][At(c)] = 0

Behind(c) ==
  tx[c] = "open" =>
    /\ pc[c] = "sent" \/ (pc[c] = "try" /\ c \notin expired \union gone) =>
         \A k \in Known(c) : k <= idx[c] => pend[c][k] = 1
    /\ pc[c] = "sent" => ans[c] # "failed"
    /\ pc[c] = "sent" /\ ans[c] = "ok" => pend[c][At(c)] = 1
    /\ pc[c] = "sleep" => c \in expired \union gone
    /\ c \in asked /\ c \notin expired => \A k \in Known(c) : pend[c][k] = 1

(* Without an error so far, every item behind it has been written.            *)
NoError(c) ==
  c \notin errs =>
    /\ tx[c] = "open" /\ pc[c] \in {"try", "sent", "sleep", "committing"} =>
         \A k \in DOMAIN Items(c) : k <= idx[c] => pend[c][k] = 1
    /\ (pc[c] = "committing" /\ ans[c] = "ok") \/ outcome[c] = "ok" =>
         \A k \in DOMAIN Items(c) : applied[c][k] = 1

Told(c) ==
  /\ pc[c] = "committing" /\ ans[c] = "ok" => tx[c] = "ended"
  /\ outcome[c] = "ok" => tx[c] = "ended" /\ c \notin errs

Whole(c) == c \notin expired => \A j, k \in Known(c) : applied[c][j] = applied[c][k]

BatchOf(c) ==
  /\ Connected(c) /\ Once(c) /\ Prefixed(c, pend[c]) /\ Prefixed(c, applied[c])
  /\ Ahead(c) /\ Behind(c) /\ NoError(c) /\ Told(c) /\ Whole(c)

Batched == Placed /\ \A c \in Calls : Op(c) = "batch" => BatchOf(c)

LEMMA BatchData ==
  ASSUME Placed, NEW c \in Calls
  PROVE  /\ Len(Items(c)) \in Nat /\ DOMAIN Items(c) = 1 .. Len(Items(c)) /\ DOMAIN Items(c) \subseteq Slot
         /\ Known(c) \subseteq DOMAIN Items(c) /\ idx[c] \in Nat /\ Slot \subseteq Nat \ {0}
         /\ pend[c] \in [Slot -> Nat] /\ applied[c] \in [Slot -> Nat]
<1>1. idx[c] \in Nat /\ Slot \subseteq Nat \ {0}
  BY PgAssumption DEF PgAssumption, Placed, TypeOK, Slot
<1> QED
  BY <1>1, InputType, CountType DEF Placed, TypeOK, Known

LEMMA InitBatched == Init => Batched
<1> SUFFICES ASSUME Init, NEW c \in Calls, Op(c) = "batch" PROVE BatchOf(c)
  BY InitPlaced DEF Batched
<1>1. \A k \in Slot : pend[c][k] = 0 /\ applied[c][k] = 0
  BY DEF Init, Nothing, Slot
<1>2. Known(c) \subseteq Slot
  BY InitPlaced, BatchData
<1> QED
  BY <1>1, <1>2 DEF Init, BatchOf, Connected, Once, Prefixed, Ahead, Behind, NoError, Told, Whole

(* What the steps of the server leave alone.                                  *)
LEMMA ServerBatch ==
  ASSUME NEW c \in Calls, BatchOf(c), UNCHANGED <<req, tx, pend, applied>>,
         c \in expired => c \in expired',
         Connected(c)', Ahead(c)', Behind(c)', NoError(c)', Told(c)'
  PROVE  BatchOf(c)'
<1>1. Known(c)' = Known(c)
  BY DEF Known, Items
<1> QED
  BY <1>1 DEF BatchOf, Once, Prefixed, Whole

LEMMA BatchServerStep ==
  ASSUME Batched, NEW c \in Calls, Op(c) = "batch", Go(c) \/ Expire(c) \/ Lose(c)
  PROVE  BatchOf(c)'
<1> USE DEF Connected, Ahead, Behind, NoError, Told
<1>1. /\ Connected(c) /\ Ahead(c) /\ Behind(c) /\ NoError(c) /\ Told(c) /\ Once(c) /\ BatchOf(c) /\ PlaceOf(c)
      /\ pc \in [Calls -> Places] /\ idx \in [Calls -> 0 .. MaxItems]
      /\ ans \in [Calls -> {"none", "ok", "failed"}] /\ outcome \in [Calls -> {"none", "ok", "error"}]
      /\ tx \in [Calls -> {"none", "open", "aborted", "ended"}]
      /\ outcome[c] = "none" <=> pc[c] # "ret"
      /\ pc[c] \in {"sent", "sleep"} => idx[c] < Len(Items(c))
  <2>1. BatchOf(c) /\ PlaceOf(c)
    BY DEF Batched, Placed, Place
  <2> QED
    BY <2>1 DEF Batched, BatchOf, Placed, PlaceOf, TypeOK
<1>2. /\ Len(Items(c)) \in Nat /\ DOMAIN Items(c) = 1 .. Len(Items(c)) /\ Known(c) \subseteq DOMAIN Items(c)
      /\ DOMAIN Items(c) \subseteq Slot /\ idx[c] \in Nat /\ Slot \subseteq Nat \ {0}
      /\ At(c) = idx[c] + 1
  BY BatchData DEF Batched, At
<1>17. idx[c] < Len(Items(c)) => At(c) \in DOMAIN Items(c) /\ At(c) \in Slot
  BY <1>2
<1>18. ASSUME \A k \in Slot : k > At(c) => pend[c][k] = 0, req' = req, idx'[c] = idx[c] + 1
       PROVE  /\ \A k \in Slot : k > At(c)' => pend[c][k] = 0
              /\ idx'[c] < Len(Items(c)) => pend[c][At(c)'] = 0
  <2> HIDE DEF Connected, Ahead, Behind, NoError, Told
  <2>1. At(c)' = At(c) + 1 /\ At(c) \in Nat /\ At(c)' = idx'[c] + 1
    BY <1>2, <1>18 DEF At, Op
  <2>2. idx'[c] < Len(Items(c)) => At(c)' \in Slot
    BY <1>2, <1>18, <2>1
  <2> QED
    BY <1>2, <1>18, <2>1, <2>2
<1>3. req' = req => Items(c)' = Items(c) /\ Known(c)' = Known(c) /\ Op(c)' = "batch"
  BY DEF Items, Known, Op
<1>4. req' = req /\ idx'[c] = idx[c] + 1 => At(c)' = At(c) + 1
  BY <1>2, <1>3 DEF At
<1>5. req' = req /\ idx'[c] = idx[c] => At(c)' = At(c)
  BY <1>2, <1>3 DEF At
<1>6. CASE Begin(c)
  <2>1. pc[c] = "new" /\ pc'[c] = "begin" /\ UNCHANGED <<req, idx, try, slept, expired, errs, dbVars, outcome>>
    BY <1>1, <1>6 DEF Begin, Goto
  <2> QED
    BY <1>1, <1>2, <1>3, <2>1, ServerBatch DEF dbVars
<1>7. CASE Try(c)
  <2>1. /\ pc[c] = "try" /\ UNCHANGED <<req, idx, expired, errs, outcome, ans, tx, pend, gone, asked, applied>>
        /\ idx[c] < Len(Items(c))
        /\ \/ c \in expired \union gone /\ pc'[c] = "sleep"
           \/ c \notin expired \union gone /\ pc'[c] = "sent"
    BY <1>1, <1>7 DEF Try, Goto, goVars
  <2> QED
    BY <1>1, <1>2, <1>3, <1>5, <2>1, ServerBatch
<1>8. CASE Sleep(c)
  <2>1. /\ pc[c] = "sleep" /\ pc'[c] = "try" /\ expired \subseteq expired' /\ errs \subseteq errs'
        /\ UNCHANGED <<req, outcome, ans, tx, pend, gone, asked, applied>>
        /\ \/ idx'[c] = idx[c]
           \/ idx'[c] = idx[c] + 1 /\ c \in errs'
    BY <1>1, <1>8 DEF Sleep, GiveUp, Goto, dbVars
  <2>2. Connected(c)'
    BY <1>1, <1>2, <1>3, <1>4, <1>5, <2>1 DEF Once
  <2>3. Ahead(c)'
    <3>1. \A k \in Slot : k > At(c) => pend[c][k] = 0
      BY <1>1, <2>1
    <3>2. CASE idx'[c] = idx[c] + 1
      BY <1>3, <1>18, <2>1, <3>1, <3>2
    <3>3. CASE idx'[c] = idx[c]
      <4>1. At(c)' = At(c) /\ At(c) \in Slot
        BY <1>1, <1>5, <1>17, <2>1, <3>3
      <4>2. c \notin expired' \union gone' => pend[c][At(c)] = 0
        BY <1>1, <2>1, <4>1 DEF Once
      <4> QED
        BY <1>3, <2>1, <3>1, <4>1, <4>2
    <3> QED
      BY <2>1, <3>2, <3>3
  <2>4. Behind(c)'
    BY <1>1, <1>2, <1>3, <1>4, <1>5, <2>1 DEF Once
  <2>5. NoError(c)'
    BY <1>1, <1>2, <1>3, <1>4, <1>5, <2>1 DEF Once
  <2>6. Told(c)'
    BY <1>1, <1>2, <1>3, <1>4, <1>5, <2>1 DEF Once
  <2> QED
    BY <1>1, <2>1, <2>2, <2>3, <2>4, <2>5, <2>6, ServerBatch
<1>9. CASE Receive(c)
  <2>1. /\ pc[c] = "sent" /\ ans'[c] = "none"
        /\ UNCHANGED <<req, expired, errs, tx, pend, gone, asked, applied, outcome>>
        /\ \/ ans[c] = "ok" /\ pc'[c] = "try" /\ idx'[c] = idx[c] + 1
           \/ ans[c] = "failed" /\ pc'[c] = "sleep" /\ idx'[c] = idx[c]
    BY <1>1, <1>9 DEF Receive, Succeed, Goto
  <2>2. Connected(c)'
    BY <1>1, <1>2, <1>3, <1>4, <1>5, <2>1 DEF Once
  <2>3. Ahead(c)'
    <3>1. \A k \in Slot : k > At(c) => pend[c][k] = 0
      BY <1>1, <2>1
    <3>2. CASE idx'[c] = idx[c] + 1
      BY <1>3, <1>18, <2>1, <3>1, <3>2
    <3>3. CASE idx'[c] = idx[c]
      <4>1. At(c)' = At(c) /\ At(c) \in Slot
        BY <1>1, <1>5, <1>17, <2>1, <3>3
      <4>2. pc'[c] = "sleep"
        BY <1>2, <2>1, <3>3
      <4> QED
        BY <1>3, <2>1, <3>1, <4>1, <4>2
    <3> QED
      BY <2>1, <3>2, <3>3
  <2>4. Behind(c)'
    BY <1>1, <1>2, <1>3, <1>4, <1>5, <2>1 DEF Once
  <2>5. NoError(c)'
    BY <1>1, <1>2, <1>3, <1>4, <1>5, <2>1 DEF Once
  <2>6. Told(c)'
    BY <1>1, <1>2, <1>3, <1>4, <1>5, <2>1 DEF Once
  <2> QED
    BY <1>1, <2>1, <2>2, <2>3, <2>4, <2>5, <2>6, ServerBatch
<1>10. CASE BeginTx(c)
  <2>1. /\ pc[c] = "begin" /\ UNCHANGED <<req, idx, expired, errs, ans, pend, gone, asked, applied>>
        /\ \/ pc'[c] = "ret" /\ outcome'[c] = "error" /\ UNCHANGED tx
           \/ pc'[c] = "try" /\ tx'[c] = "open" /\ outcome' = outcome
    BY <1>1, <1>10 DEF BeginTx, Goto, Return
  <2>2. Connected(c)'
    BY <1>1, <1>2, <1>3, <1>5, <2>1 DEF Once
  <2>3. Ahead(c)'
    <3>1. \A k \in Slot : pend[c][k] = 0
      BY <1>1, <2>1 DEF Once
    <3>2. idx[c] < Len(Items(c)) => At(c) \in Slot
      BY <1>17
    <3> QED
      BY <1>3, <1>5, <2>1, <3>1, <3>2
  <2>4. Behind(c)'
    BY <1>1, <1>2, <1>3, <1>5, <2>1 DEF Once
  <2>5. NoError(c)'
    BY <1>1, <1>2, <1>3, <1>5, <2>1 DEF Once
  <2>6. Told(c)'
    BY <1>1, <1>2, <1>3, <1>5, <2>1 DEF Once
  <2>7. Once(c)' /\ Prefixed(c, pend[c])' /\ Prefixed(c, applied[c])' /\ Whole(c)'
    BY <1>1, <1>2, <1>3, <2>1 DEF BatchOf, Once, Prefixed, Whole
  <2> QED
    BY <2>2, <2>3, <2>4, <2>5, <2>6, <2>7 DEF BatchOf
<1>11. CASE SkipItem(c)
  <2>1. /\ pc[c] = "try" /\ idx'[c] = idx[c] + 1 /\ c \in errs' /\ At(c) \notin Known(c)
        /\ UNCHANGED <<req, pc, expired, outcome, ans, tx, pend, gone, asked, applied>>
    BY <1>1, <1>11 DEF SkipItem, dbVars, Known
  <2>2. Connected(c)'
    BY <1>1, <1>2, <1>3, <1>4, <2>1
  <2>3. Ahead(c)'
    <3>1. \A k \in Slot : k > At(c) => pend[c][k] = 0
      BY <1>1, <2>1
    <3> QED
      BY <1>3, <1>18, <2>1, <3>1
  <2>4. Behind(c)'
    BY <1>1, <1>2, <1>3, <1>4, <2>1
  <2>5. NoError(c)'
    BY <1>1, <1>2, <1>3, <1>4, <2>1
  <2>6. Told(c)'
    BY <1>1, <1>2, <1>3, <1>4, <2>1
  <2> QED
    BY <1>1, <2>1, <2>2, <2>3, <2>4, <2>5, <2>6, ServerBatch
<1>12. CASE Commit(c)
  <2>1. /\ pc[c] = "try" /\ idx[c] = Len(Items(c))
        /\ UNCHANGED <<req, idx, expired, errs, ans, tx, pend, gone, applied>>
        /\ \/ pc'[c] = "ret" /\ outcome'[c] = "error" /\ UNCHANGED asked
           \/ c \notin gone /\ pc'[c] = "committing" /\ outcome' = outcome /\ asked' = asked \union {c}
    BY <1>1, <1>12 DEF Commit, Goto, Return
  <2>2. Connected(c)'
    BY <1>1, <1>2, <1>3, <1>5, <2>1
  <2>3. Ahead(c)'
    BY <1>1, <1>2, <1>3, <1>5, <2>1
  <2>4. Behind(c)'
    BY <1>1, <1>2, <1>3, <1>5, <2>1
  <2>5. NoError(c)'
    BY <1>1, <1>2, <1>3, <1>5, <2>1
  <2>6. Told(c)'
    BY <1>1, <1>2, <1>3, <1>5, <2>1
  <2> QED
    BY <1>1, <2>1, <2>2, <2>3, <2>4, <2>5, <2>6, ServerBatch
<1>13. CASE Committed(c)
  <2>1. /\ pc[c] = "committing" /\ pc'[c] = "ret"
        /\ UNCHANGED <<req, idx, expired, errs, ans, tx, pend, gone, asked, applied>>
        /\ outcome'[c] = IF ans[c] = "ok" /\ c \notin errs THEN "ok" ELSE "error"
    BY <1>1, <1>13 DEF Committed, Joined, Goto, Return, dbVars
  <2> QED
    BY <1>1, <1>2, <1>3, <1>5, <2>1, ServerBatch
<1>14. CASE Expire(c)
  <2>1. /\ pc[c] \notin {"committing", "rows"} /\ expired' = expired \union {c}
        /\ UNCHANGED <<req, pc, idx, errs, outcome, ans, tx, pend, gone, asked, applied>>
    BY <1>14 DEF Expire, dbVars
  <2> QED
    BY <1>1, <1>2, <1>3, <1>5, <2>1, ServerBatch
<1>15. CASE Lose(c)
  <2>1. /\ ans'[c] = "none" /\ UNCHANGED <<req, idx, expired, errs, tx, pend, asked, applied>>
        /\ \/ pc[c] = "sent" /\ pc'[c] = "sleep" /\ outcome' = outcome /\ c \in expired \union gone'
           \/ pc[c] = "committing" /\ pc'[c] = "ret" /\ outcome'[c] = "error"
    BY <1>1, <1>15 DEF Lose, Goto, Return
  <2> QED
    BY <1>1, <1>2, <1>3, <1>5, <2>1, ServerBatch
<1>16. ~PageRows(c)
  BY <1>1 DEF PageRows, PlaceOf
<1> QED
  BY <1>6, <1>7, <1>8, <1>9, <1>10, <1>11, <1>12, <1>13, <1>14, <1>15, <1>16 DEF Go

LEMMA BatchStatement ==
  ASSUME Batched, NEW c \in Calls, Op(c) = "batch", DbStatement(c) PROVE BatchOf(c)'
<1>1. /\ pc[c] = "sent" /\ ans[c] = "none" /\ idx[c] < Len(Items(c))
      /\ UNCHANGED <<req, pc, idx, expired, errs, outcome, gone, asked, applied>>
  <2>1. PlaceOf(c)
    BY DEF Batched, Placed, Place
  <2> QED
    BY <2>1 DEF DbStatement, PlaceOf, goVars
<1>2. BatchOf(c) /\ outcome[c] # "ok" /\ c \notin asked
  <2>1. BatchOf(c) /\ PlaceOf(c)
    BY DEF Batched, Placed, Place
  <2> QED
    BY <1>1, <2>1 DEF BatchOf, Connected, PlaceOf
<1>3. /\ Known(c) \subseteq DOMAIN Items(c) /\ DOMAIN Items(c) = 1 .. Len(Items(c)) /\ Len(Items(c)) \in Nat
      /\ DOMAIN Items(c) \subseteq Slot /\ idx[c] \in Nat /\ At(c) = idx[c] + 1 /\ Slot \subseteq Nat
      /\ At(c) \in Slot /\ pend[c] \in [Slot -> Nat]
  BY <1>1, BatchData DEF Batched, At
<1>4. Items(c)' = Items(c) /\ Known(c)' = Known(c) /\ At(c)' = At(c)
  BY <1>1 DEF Items, Known, At, Op
<1>5. CASE /\ tx[c] = "open" /\ UNCHANGED tx
           /\ pend' = [pend EXCEPT ![c][At(c)] = @ + 1]
           /\ ans' = [ans EXCEPT ![c] = "ok"]
  <2>1. pend[c][At(c)] = 0 /\ \A k \in Slot : k > At(c) => pend[c][k] = 0
    BY <1>1, <1>2, <1>3 DEF BatchOf, Ahead
  <2>2. \A k \in Known(c) : k <= idx[c] => pend[c][k] = 1
    BY <1>1, <1>2, <1>5 DEF BatchOf, Behind
  <2>3. ans'[c] = "ok" /\ tx'[c] = "open"
    BY <1>5 DEF Batched, Placed, TypeOK
  <2>4. \A k \in Slot : pend'[c][k] = IF k = At(c) THEN 1 ELSE pend[c][k]
    BY <1>3, <1>5, <2>1, CountType DEF Batched
  <2>11. At(c) \in Known(c)
    <3>1. PlaceOf(c)
      BY DEF Batched, Placed, Place
    <3> QED
      BY <1>1, <1>3, <3>1 DEF PlaceOf, Known
  <2>5. Connected(c)' /\ Told(c)' /\ Whole(c)' /\ Prefixed(c, applied[c])'
    BY <1>1, <1>2, <1>4, <2>3 DEF BatchOf, Connected, Told, Whole, Prefixed
  <2>6. Once(c)'
    BY <1>1, <1>2, <1>4, <1>5, <2>3, <2>4, <2>11 DEF BatchOf, Once
  <2>7. Prefixed(c, pend[c])'
    <3>1. ASSUME NEW j \in Known(c), NEW k \in Known(c), j < k PROVE pend'[c][k] <= pend'[c][j]
      <4>1. pend[c][k] \in {0, 1} /\ pend[c][j] \in {0, 1}
        BY <1>2, <1>3 DEF BatchOf, Once
      <4>2. CASE k <= At(c)
        BY <1>3, <2>2, <2>4, <3>1, <4>1, <4>2
      <4>3. CASE k > At(c)
        BY <1>3, <2>1, <2>4, <4>1, <4>3
      <4> QED
        BY <1>3, <4>2, <4>3
    <3> QED
      BY <1>4, <3>1 DEF Prefixed
  <2>8. Ahead(c)'
    BY <1>1, <1>3, <1>4, <2>1, <2>3, <2>4 DEF Ahead
  <2>9. Behind(c)'
    BY <1>1, <1>2, <1>3, <1>4, <2>2, <2>3, <2>4 DEF Behind
  <2>10. NoError(c)'
    <3>1. c \notin errs => \A k \in DOMAIN Items(c) : k <= idx[c] => pend[c][k] = 1
      BY <1>1, <1>2, <1>5 DEF BatchOf, NoError
    <3> QED
      BY <1>1, <1>2, <1>3, <1>4, <2>4, <3>1 DEF NoError
  <2> QED
    BY <2>5, <2>6, <2>7, <2>8, <2>9, <2>10 DEF BatchOf
<1>6. CASE EndTx(c, "aborted") /\ ans' = [ans EXCEPT ![c] = "failed"]
  <2>1. /\ ans'[c] = "failed" /\ tx'[c] = "aborted" /\ \A k \in Slot : pend'[c][k] = 0
    BY <1>6 DEF EndTx, Batched, Placed, TypeOK, Nothing, Slot
  <2>2. \A k \in Slot : applied[c][k] \in {0, 1} /\ (applied[c][k] = 1 => tx[c] = "ended")
    BY <1>2 DEF BatchOf, Once
  <2>3. tx[c] # "ended"
    BY <1>1, <1>2 DEF BatchOf, Connected
  <2> QED
    BY <1>1, <1>2, <1>3, <1>4, <2>1, <2>2, <2>3
       DEF BatchOf, Connected, Once, Prefixed, Ahead, Behind, NoError, Told, Whole
<1> QED
  BY <1>5, <1>6 DEF DbStatement

LEMMA BatchEnd ==
  ASSUME Batched, NEW c \in Calls, Op(c) = "batch", DbCommit(c) \/ DbUndo(c) PROVE BatchOf(c)'
<1>1. /\ UNCHANGED <<req, pc, idx, expired, errs, outcome, gone, asked>>
      /\ tx[c] \in {"open", "aborted"} /\ tx'[c] = "ended" /\ \A k \in Slot : pend'[c][k] = 0
  <2>1. /\ UNCHANGED <<req, pc, goVars, gone, asked>> /\ EndTx(c, "ended")
        /\ tx[c] \in {"open", "aborted"}
    BY DEF DbCommit, DbUndo
  <2>2. tx'[c] = "ended" /\ \A k \in Slot : pend'[c][k] = 0
    BY <2>1 DEF EndTx, Batched, Placed, TypeOK, Nothing, Slot
  <2> QED
    BY <2>1, <2>2 DEF goVars
<1>2. BatchOf(c) /\ PlaceOf(c)
  BY DEF Batched, Placed, Place
<1>3. /\ Known(c) \subseteq DOMAIN Items(c) /\ DOMAIN Items(c) = 1 .. Len(Items(c))
      /\ DOMAIN Items(c) \subseteq Slot /\ Slot \subseteq Nat /\ Len(Items(c)) \in Nat
  BY BatchData DEF Batched
<1>4. Items(c)' = Items(c) /\ Known(c)' = Known(c)
  BY <1>1 DEF Items, Known
<1>5. outcome[c] # "ok" /\ \A k \in Slot : applied[c][k] = 0
  BY <1>1, <1>2 DEF BatchOf, Told, Once
<1>6. CASE DbUndo(c)
  <2>1. ans' = ans /\ applied' = applied /\ c \in gone
    BY <1>6 DEF DbUndo
  <2>2. pc[c] \notin {"sent", "committing", "new", "begin"}
    BY <1>2, <2>1 DEF BatchOf, Connected
  <2> QED
    BY <1>1, <1>2, <1>3, <1>4, <1>5, <2>1, <2>2
       DEF BatchOf, Connected, Once, Prefixed, Ahead, Behind, NoError, Told, Whole
<1>7. CASE DbCommit(c)
  <2>1. pc[c] \in {"committing", "ret", "dead"} /\ c \in asked
    BY <1>2, <1>7 DEF DbCommit, BatchOf, Connected
  <2>2. \A k \in Slot : applied'[c][k] = pend[c][k] /\ pend[c][k] \in {0, 1}
    <3>1. \A k \in Slot : applied'[c][k] = applied[c][k] + pend[c][k]
      BY <1>7, CountType DEF DbCommit, Batched, Slot
    <3> QED
      BY <1>2, <1>5, <3>1 DEF BatchOf, Once
  <2>3. pc[c] = "committing" => ans'[c] = IF tx[c] = "open" THEN "ok" ELSE "failed"
    BY <1>7 DEF DbCommit, Batched, Placed, TypeOK
  <2>4. Connected(c)' /\ Told(c)' /\ Ahead(c)' /\ Behind(c)'
    BY <1>1, <1>2, <1>5, <2>1 DEF BatchOf, Connected, Told, Ahead, Behind
  <2>5. Once(c)'
    BY <1>1, <1>2, <1>4, <2>2 DEF BatchOf, Once
  <2>6. Prefixed(c, pend[c])' /\ Prefixed(c, applied[c])'
    BY <1>1, <1>2, <1>3, <1>4, <2>2 DEF BatchOf, Prefixed
  <2>7. NoError(c)'
    <3>1. ASSUME pc[c] = "committing", tx[c] = "open", c \notin errs, NEW k \in DOMAIN Items(c)
          PROVE  applied'[c][k] = 1
      <4>1. k <= idx[c] /\ k \in Slot
        BY <1>2, <1>3, <3>1 DEF PlaceOf
      <4> QED
        BY <1>2, <2>2, <3>1, <4>1 DEF BatchOf, NoError
    <3> QED
      BY <1>1, <1>4, <1>5, <2>3, <3>1 DEF NoError
  <2>8. Whole(c)'
    <3>1. c \notin expired /\ tx[c] = "open" => \A k \in Known(c) : pend[c][k] = 1
      BY <1>2, <2>1 DEF BatchOf, Behind
    <3>2. tx[c] = "aborted" => \A k \in Slot : pend[c][k] = 0
      BY <1>2 DEF BatchOf, Once
    <3> QED
      BY <1>1, <1>3, <1>4, <2>2, <3>1, <3>2 DEF Whole
  <2> QED
    BY <2>4, <2>5, <2>6, <2>7, <2>8 DEF BatchOf
<1> QED
  BY <1>6, <1>7

LEMMA NextBatched == ASSUME Batched, [Next]_vars PROVE Batched'
<1> SUFFICES ASSUME NEW d \in Calls, Op(d)' = "batch" PROVE BatchOf(d)'
  BY NextPlaced DEF Batched
<1>1. ASSUME SameFor(d), req' = req PROVE BatchOf(d)'
  <2>1. Op(d) = "batch" /\ Items(d)' = Items(d) /\ Known(d)' = Known(d) /\ At(d)' = At(d)
    BY <1>1 DEF Op, Items, Known, At, SameFor
  <2> QED
    BY <1>1, <2>1 DEF Batched, BatchOf, SameFor, Connected, Once, Prefixed, Ahead, Behind, NoError,
                      Told, Whole
<1>2. ASSUME NEW c \in Calls, StepOf(c) PROVE BatchOf(d)'
  <2>1. CASE c # d
    BY <1>1, <1>2, <2>1, StepFrame DEF Batched, Placed
  <2>2. CASE c = d
    <3>1. Op(d) = "batch"
      BY <1>2, ReqKept DEF Op
    <3>2. ASSUME NEW i \in 0 .. Tries - 1 PROVE ~DbRun(d, i)
      BY <3>1 DEF Batched, Placed, Place, PlaceOf, DbRun
    <3> QED
      BY <1>2, <2>2, <3>1, <3>2, BatchServerStep, BatchStatement, BatchEnd DEF StepOf, Database
  <2> QED
    BY <2>1, <2>2
<1>3. CASE Kill
  <2>1. /\ pc'[d] = IF pc[d] \in Active THEN "dead" ELSE pc[d]
        /\ idx'[d] = 0 /\ ans'[d] = "none"
        /\ UNCHANGED <<req, tx, pend, applied, outcome, expired, errs, asked>>
        /\ d \in gone' <=> d \in gone \/ pc[d] \in Active
    BY <1>3 DEF Kill, Op
  <2>2. BatchOf(d) /\ pc[d] \in Places
    BY <2>1 DEF Batched, Op, Placed, TypeOK
  <2>3. pc'[d] \in {"new", "ret", "dead"} /\ (pc'[d] # "dead" => pc'[d] = pc[d] /\ pc[d] \notin Active)
    BY <2>1, <2>2 DEF Active, Places
  <2>4. Items(d)' = Items(d)
    BY <2>1 DEF Items
  <2>5. Connected(d)' /\ Ahead(d)'
    BY <2>1, <2>2, <2>3 DEF BatchOf, Connected, Ahead, Active
  <2>6. Behind(d)'
    <3>1. Known(d)' = Known(d)
      BY <2>4 DEF Known
    <3> QED
      BY <2>1, <2>2, <2>3, <3>1 DEF BatchOf, Behind
  <2>7. NoError(d)' /\ Told(d)'
    BY <2>1, <2>2, <2>3, <2>4 DEF BatchOf, NoError, Told
  <2> QED
    BY <2>1, <2>2, <2>5, <2>6, <2>7, ServerBatch
<1>4. CASE UNCHANGED vars
  BY <1>1, <1>4 DEF vars, goVars, dbVars, SameFor
<1> QED
  BY <1>2, <1>3, <1>4 DEF Next, StepOf

THEOREM BatchedInvariant == Spec => []Batched
<1> QED
  BY InitBatched, NextBatched, PTL DEF Spec

(* What is committed of a batch is each item once at most, and up to some     *)
(* item: whatever fails, is tried again or is lost.                           *)
THEOREM BatchPrefixInvariant == Spec => []BatchPrefix
<1>1. Batched => BatchPrefix
  <2> SUFFICES ASSUME Batched, NEW c \in Calls, Op(c) = "batch"
               PROVE  /\ \A k \in DOMAIN Items(c) : applied[c][k] <= 1
                      /\ \A j, k \in Known(c) : j < k => applied[c][k] <= applied[c][j]
    BY DEF BatchPrefix
  <2> QED
    BY BatchData DEF Batched, BatchOf, Once, Prefixed
<1> QED
  BY <1>1, BatchedInvariant, PTL

(* All of a batch or nothing of it, while its context has not ended.          *)
THEOREM BatchWholeInvariant == Spec => []BatchWhole
<1>1. Batched => BatchWhole
  BY DEF Batched, BatchOf, Whole, BatchWhole
<1> QED
  BY <1>1, BatchedInvariant, PTL

(* A call that returned nil is in the table: an update once at least, a batch *)
(* with each of its items exactly once.                                       *)
THEOREM OkIsCommittedInvariant == Spec => []OkIsCommitted
<1>1. Batched /\ Counted => OkIsCommitted
  <2> SUFFICES ASSUME Batched, Counted, NEW c \in Calls, outcome[c] = "ok"
               PROVE  /\ Op(c) = "update" => applied[c][1] >= 1
                      /\ Op(c) = "batch" => \A k \in DOMAIN Items(c) : applied[c][k] = 1
    BY DEF OkIsCommitted
  <2> QED
    BY DEF Batched, BatchOf, NoError, Told, Counted, UpdateOf
<1> QED
  BY <1>1, BatchedInvariant, CountedInvariant, PTL

-------------------------------------------------------------------------------
(* Induction, over numbers and over the subsets of a finite set.             *)

(* Every set of numbers has a least one.                                     *)
LEMMA Least ==
  ASSUME NEW T, T \subseteq Nat, T # {}
  PROVE  \E x \in T : \A y \in T : ~ (y < x)
<1>1. IsWellFoundedOn(OpToRel(<, Nat), Nat)
  BY NatLessThanWellFounded
<1>2. \E x \in T : \A y \in T : ~ (<<y, x>> \in OpToRel(<, Nat))
  BY <1>1, WFMin
<1>3. \A x, y \in T : y < x => <<y, x>> \in OpToRel(<, Nat)
  BY DEF OpToRel
<1> QED
  BY <1>2, <1>3

(* What holds of 0, and of every next number, holds of every number.         *)
LEMMA NatSteps ==
  ASSUME NEW S, 0 \in S, \A n \in Nat : n \in S => n + 1 \in S
  PROVE  \A n \in Nat : n \in S
<1> SUFFICES ASSUME Nat \ S # {} PROVE FALSE
  OBVIOUS
<1>1. PICK x \in Nat \ S : \A y \in Nat \ S : ~ (y < x)
  BY Least
<1>2. x # 0 /\ x - 1 \in Nat
  BY <1>1
<1>3. x - 1 \in S
  BY <1>1, <1>2
<1> QED
  BY <1>1, <1>2, <1>3

LEMMA SubsetSize ==
  ASSUME NEW S, IsFiniteSet(S), NEW s \in SUBSET S
  PROVE  /\ IsFiniteSet(s) /\ Cardinality(s) \in Nat
         /\ Cardinality(s) = 0 <=> s = {}
         /\ \A x \in s : s \ {x} \in SUBSET S /\ Cardinality(s) = Cardinality(s \ {x}) + 1
<1>1. IsFiniteSet(s)
  BY FS_Subset
<1>2. Cardinality(s) \in Nat /\ (Cardinality(s) = 0 <=> s = {})
  BY <1>1, FS_CardinalityType, FS_EmptySet
<1>3. ASSUME NEW x \in s
      PROVE  s \ {x} \in SUBSET S /\ Cardinality(s) = Cardinality(s \ {x}) + 1
  <2>1. Cardinality(s \ {x}) = Cardinality(s) - 1
    BY <1>1, FS_RemoveElement
  <2> QED
    BY <1>2, <2>1
<1> QED
  BY <1>1, <1>2, <1>3

(* What holds of the empty set, and of a set when it holds of the set without *)
(* any one of its elements, holds of every subset.                           *)
LEMMA SubsetSteps ==
  ASSUME NEW S, IsFiniteSet(S), NEW Good, {} \in Good,
         \A s \in SUBSET S : s # {} /\ (\A x \in s : s \ {x} \in Good) => s \in Good
  PROVE  \A s \in SUBSET S : s \in Good
<1> DEFINE R == {n \in Nat : \A s \in SUBSET S : Cardinality(s) = n => s \in Good}
<1>1. 0 \in R
  BY SubsetSize
<1>2. ASSUME NEW n \in Nat, n \in R
      PROVE  n + 1 \in R
  <2>1. ASSUME NEW s \in SUBSET S, Cardinality(s) = n + 1
        PROVE  s \in Good
    <3>1. s # {} /\ \A x \in s : s \ {x} \in SUBSET S /\ Cardinality(s \ {x}) = n
      <4>1. /\ Cardinality(s) = 0 <=> s = {}
            /\ \A x \in s : s \ {x} \in SUBSET S /\ Cardinality(s) = Cardinality(s \ {x}) + 1
        BY SubsetSize
      <4>2. \A x \in s : Cardinality(s \ {x}) \in Nat
        BY <4>1, SubsetSize
      <4> QED
        BY <2>1, <4>1, <4>2
    <3>2. \A x \in s : s \ {x} \in Good
      BY <1>2, <3>1
    <3> QED
      BY <3>1, <3>2
  <2> QED
    BY <2>1
<1>3. \A n \in Nat : n \in R
  <2> HIDE DEF R
  <2> QED
    BY <1>1, <1>2, NatSteps
<1>4. \A s \in SUBSET S : Cardinality(s) \in Nat
  BY SubsetSize
<1> QED
  BY <1>3, <1>4

-------------------------------------------------------------------------------
(* Sums.                                                                     *)

Pick(s) == CHOOSE x \in s : TRUE

Picked(it, f, s) == IF s = {} THEN 0 ELSE f[Pick(s)] + it[s \ {Pick(s)}]

(* What the definition of the sum goes through, subset by subset.            *)
Sums(it, f, S) ==
  /\ it = [s \in SUBSET S |-> it[s]]
  /\ \A s \in SUBSET S : it[s] = Picked(it, f, s)

LEMMA PickIn == \A s : s # {} => Pick(s) \in s
BY DEF Pick

LEMMA SumsExists ==
  ASSUME NEW f, NEW S, IsFiniteSet(S)
  PROVE  \E it : Sums(it, f, S)
<1> DEFINE Upto(g, n) == /\ g = [s \in SUBSET S |-> g[s]]
                         /\ \A s \in SUBSET S : Cardinality(s) <= n => g[s] = Picked(g, f, s)
           R == {n \in Nat : \E g : Upto(g, n)}
<1>1. 0 \in R
  <2> DEFINE g == [s \in SUBSET S |-> 0]
  <2>1. g = [s \in SUBSET S |-> g[s]]
    OBVIOUS
  <2>2. ASSUME NEW s \in SUBSET S, Cardinality(s) <= 0
        PROVE  g[s] = Picked(g, f, s)
    <3>1. s = {}
      BY <2>2, SubsetSize
    <3> QED
      BY <3>1 DEF Picked
  <2>3. Upto(g, 0)
    <3> HIDE DEF g
    <3> QED
      BY <2>1, <2>2
  <2> HIDE DEF g, Upto
  <2> QED
    BY <2>3
<1>2. ASSUME NEW n \in Nat, n \in R
      PROVE  n + 1 \in R
  <2>1. PICK g : Upto(g, n)
    BY <1>2
  <2> DEFINE h == [s \in SUBSET S |-> IF Cardinality(s) = n + 1 THEN Picked(g, f, s) ELSE g[s]]
  <2>2. h = [s \in SUBSET S |-> h[s]]
    OBVIOUS
  <2>3. \A s \in SUBSET S : Cardinality(s) <= n => Cardinality(s) # n + 1
    BY SubsetSize
  <2>4. \A s \in SUBSET S : h[s] = IF Cardinality(s) = n + 1 THEN Picked(g, f, s) ELSE g[s]
    OBVIOUS
  <2>5. \A s \in SUBSET S : Cardinality(s) <= n => g[s] = Picked(g, f, s)
    BY <2>1
  <2> HIDE DEF h, Upto
  <2>6. ASSUME NEW s \in SUBSET S, Cardinality(s) <= n + 1
        PROVE  h[s] = Picked(h, f, s)
    <3>1. h[s] = Picked(g, f, s)
      <4>1. Cardinality(s) <= n \/ Cardinality(s) = n + 1
        BY <2>6, SubsetSize
      <4> QED
        BY <2>3, <2>4, <2>5, <4>1
    <3>2. Picked(h, f, s) = Picked(g, f, s)
      <4>1. CASE s = {}
        BY <4>1 DEF Picked
      <4>2. CASE s # {}
        <5>1. Pick(s) \in s
          BY <4>2, PickIn
        <5>2. s \ {Pick(s)} \in SUBSET S /\ Cardinality(s) = Cardinality(s \ {Pick(s)}) + 1
          BY <5>1, SubsetSize
        <5>3. Cardinality(s \ {Pick(s)}) \in Nat
          BY <5>2, SubsetSize
        <5>4. Cardinality(s \ {Pick(s)}) <= n
          BY <2>6, <5>2, <5>3
        <5>5. h[s \ {Pick(s)}] = g[s \ {Pick(s)}]
          BY <2>3, <2>4, <5>2, <5>4
        <5> QED
          BY <5>5 DEF Picked
      <4> QED
        BY <4>1, <4>2
    <3> QED
      BY <3>1, <3>2
  <2>7. Upto(h, n + 1)
    BY <2>2, <2>6 DEF Upto
  <2> QED
    BY <2>7
<1>3. Cardinality(S) \in R
  <2>1. Cardinality(S) \in Nat
    BY FS_CardinalityType
  <2> HIDE DEF R
  <2> QED
    BY <1>1, <1>2, <2>1, NatSteps
<1>4. PICK g : Upto(g, Cardinality(S))
  BY <1>3
<1>5. \A s \in SUBSET S : Cardinality(s) <= Cardinality(S)
  BY FS_Subset
<1>6. Sums(g, f, S)
  BY <1>4, <1>5 DEF Sums
<1> QED
  BY <1>6

(* It does not matter of which set they are subsets.                         *)
LEMMA SumsUnique ==
  ASSUME NEW f, NEW S, IsFiniteSet(S), NEW U \in SUBSET S,
         NEW it, NEW ut, Sums(it, f, S), Sums(ut, f, U)
  PROVE  \A s \in SUBSET U : it[s] = ut[s]
<1> DEFINE Good == {s \in SUBSET U : it[s] = ut[s]}
<1>1. \A s \in SUBSET U : /\ s \in SUBSET S
                          /\ it[s] = Picked(it, f, s) /\ ut[s] = Picked(ut, f, s)
  BY DEF Sums
<1>2. {} \in Good
  BY <1>1 DEF Picked
<1>3. ASSUME NEW s \in SUBSET U, s # {}, \A x \in s : s \ {x} \in Good
      PROVE  s \in Good
  <2>1. Pick(s) \in s
    BY <1>3, PickIn
  <2>2. it[s \ {Pick(s)}] = ut[s \ {Pick(s)}]
    BY <1>3, <2>1
  <2>3. Picked(it, f, s) = Picked(ut, f, s)
    BY <2>2 DEF Picked
  <2> QED
    BY <1>1, <2>3
<1>4. IsFiniteSet(U)
  BY FS_Subset
<1>5. \A s \in SUBSET U : s \in Good
  <2> HIDE DEF Good
  <2> QED
    BY <1>2, <1>3, <1>4, SubsetSteps
<1> QED
  BY <1>5

LEMMA SumIs ==
  ASSUME NEW f, NEW S, IsFiniteSet(S), NEW it, Sums(it, f, S)
  PROVE  SumFunctionOnSet(f, S) = it[S]
<1> DEFINE F == CHOOSE g : g = [s \in SUBSET S |-> Picked(g, f, s)]
<1>1. SumFunctionOnSet(f, S) = F[S]
  BY DEF SumFunctionOnSet, FoldFunctionOnSet, MapThenFoldSet, Picked, Pick
<1>2. it = [s \in SUBSET S |-> Picked(it, f, s)]
  BY DEF Sums
<1>3. F = [s \in SUBSET S |-> Picked(F, f, s)]
  BY <1>2
<1> HIDE DEF F
<1>4. Sums(F, f, S)
  <2>1. F = [s \in SUBSET S |-> F[s]] /\ \A s \in SUBSET S : F[s] = Picked(F, f, s)
    BY <1>3
  <2> QED
    BY <2>1 DEF Sums
<1>5. S \in SUBSET S
  OBVIOUS
<1>6. F[S] = it[S]
  BY <1>4, <1>5, SumsUnique
<1> QED
  BY <1>1, <1>6

(* Nothing adds up to 0.                                                     *)
LEMMA SumOfNone ==
  ASSUME NEW f
  PROVE  SumFunctionOnSet(f, {}) = 0
<1>1. IsFiniteSet({})
  BY FS_EmptySet
<1>2. PICK it : Sums(it, f, {})
  BY <1>1, SumsExists
<1>3. it[{}] = 0
  BY <1>2 DEF Sums, Picked
<1> QED
  BY <1>1, <1>2, <1>3, SumIs

(* The sum is what one element adds, and the sum of the rest: of the element  *)
(* that the definition picks, and so of any.                                 *)
LEMMA SumPicked ==
  ASSUME NEW f, NEW S, IsFiniteSet(S), S # {}
  PROVE  SumFunctionOnSet(f, S) = f[Pick(S)] + SumFunctionOnSet(f, S \ {Pick(S)})
<1> DEFINE U == S \ {Pick(S)}
<1>1. IsFiniteSet(U) /\ U \in SUBSET S
  BY FS_RemoveElement
<1>2. S \in SUBSET S /\ U \in SUBSET U
  OBVIOUS
<1>3. PICK it : Sums(it, f, S)
  BY SumsExists
<1>4. it[S] = f[Pick(S)] + it[U]
  BY <1>2, <1>3 DEF Sums, Picked
<1> HIDE DEF U
<1>5. PICK ut : Sums(ut, f, U)
  BY <1>1, SumsExists
<1>6. it[U] = ut[U]
  BY <1>1, <1>2, <1>3, <1>5, SumsUnique
<1>7. SumFunctionOnSet(f, S) = it[S] /\ SumFunctionOnSet(f, U) = ut[U]
  BY <1>1, <1>3, <1>5, SumIs
<1> QED
  BY <1>4, <1>6, <1>7 DEF U

(* Numbers add up to a number.                                              *)
LEMMA SumType ==
  ASSUME NEW f, NEW S, IsFiniteSet(S), \A x \in S : f[x] \in Nat
  PROVE  \A s \in SUBSET S : SumFunctionOnSet(f, s) \in Nat
<1> DEFINE Good == {s \in SUBSET S : SumFunctionOnSet(f, s) \in Nat}
<1>1. {} \in Good
  BY SumOfNone
<1>2. ASSUME NEW s \in SUBSET S, s # {}, \A x \in s : s \ {x} \in Good
      PROVE  s \in Good
  <2>1. Pick(s) \in s /\ f[Pick(s)] \in Nat
    BY <1>2, PickIn
  <2>2. IsFiniteSet(s)
    BY FS_Subset
  <2>3. SumFunctionOnSet(f, s) = f[Pick(s)] + SumFunctionOnSet(f, s \ {Pick(s)})
    BY <1>2, <2>2, SumPicked
  <2>4. SumFunctionOnSet(f, s \ {Pick(s)}) \in Nat
    BY <1>2, <2>1
  <2> QED
    BY <2>1, <2>3, <2>4
<1>3. \A s \in SUBSET S : s \in Good
  <2> HIDE DEF Good
  <2> QED
    BY <1>1, <1>2, SubsetSteps
<1> QED
  BY <1>3

(* Any element can be the one that is taken out.                             *)
LEMMA SumTaken ==
  ASSUME NEW f, NEW S, IsFiniteSet(S), \A x \in S : f[x] \in Nat
  PROVE  \A s \in SUBSET S : \A x \in s :
           SumFunctionOnSet(f, s) = f[x] + SumFunctionOnSet(f, s \ {x})
<1> DEFINE Sum1(s) == SumFunctionOnSet(f, s)
           Good == {s \in SUBSET S : \A x \in s : Sum1(s) = f[x] + Sum1(s \ {x})}
<1>1. {} \in Good
  OBVIOUS
<1>2. \A s \in SUBSET S : IsFiniteSet(s) /\ Sum1(s) \in Nat
  BY FS_Subset, SumType
<1>3. \A s \in SUBSET S : s # {} => Pick(s) \in s /\ Sum1(s) = f[Pick(s)] + Sum1(s \ {Pick(s)})
  BY <1>2, PickIn, SumPicked
<1> HIDE DEF Sum1
<1>4. ASSUME NEW s \in SUBSET S, s # {}, \A x \in s : s \ {x} \in Good
      PROVE  s \in Good
  <2>1. ASSUME NEW x \in s
        PROVE  Sum1(s) = f[x] + Sum1(s \ {x})
    <3> DEFINE y == Pick(s)
    <3>1. y \in s /\ Sum1(s) = f[y] + Sum1(s \ {y})
      BY <1>3, <1>4
    <3> HIDE DEF y
    <3>2. CASE x = y
      BY <3>1, <3>2
    <3>3. CASE x # y
      <4>1. Sum1(s \ {y}) = f[x] + Sum1((s \ {y}) \ {x})
        BY <1>4, <3>1, <3>3
      <4>2. Sum1(s \ {x}) = f[y] + Sum1((s \ {x}) \ {y})
        BY <1>4, <3>1, <3>3
      <4>3. (s \ {y}) \ {x} = (s \ {x}) \ {y}
        OBVIOUS
      <4>4. f[x] \in Nat /\ f[y] \in Nat /\ Sum1((s \ {x}) \ {y}) \in Nat
        BY <1>2, <3>1
      <4> QED
        BY <3>1, <4>1, <4>2, <4>3, <4>4
    <3> QED
      BY <3>2, <3>3
  <2> QED
    BY <2>1
<1>5. \A s \in SUBSET S : s \in Good
  <2> HIDE DEF Good
  <2> QED
    BY <1>1, <1>4, SubsetSteps
<1> QED
  BY <1>5 DEF Sum1

(* Functions with the same values have the same sum.                         *)
LEMMA SumAgree ==
  ASSUME NEW f, NEW g, NEW S, IsFiniteSet(S), \A x \in S : f[x] = g[x]
  PROVE  SumFunctionOnSet(f, S) = SumFunctionOnSet(g, S)
<1> DEFINE Good == {s \in SUBSET S : SumFunctionOnSet(f, s) = SumFunctionOnSet(g, s)}
<1>1. {} \in Good
  BY SumOfNone
<1>2. ASSUME NEW s \in SUBSET S, s # {}, \A x \in s : s \ {x} \in Good
      PROVE  s \in Good
  <2>1. Pick(s) \in s /\ f[Pick(s)] = g[Pick(s)]
    BY <1>2, PickIn
  <2>2. IsFiniteSet(s)
    BY FS_Subset
  <2>3. SumFunctionOnSet(f, s) = f[Pick(s)] + SumFunctionOnSet(f, s \ {Pick(s)})
    BY <1>2, <2>2, SumPicked
  <2>4. SumFunctionOnSet(g, s) = g[Pick(s)] + SumFunctionOnSet(g, s \ {Pick(s)})
    BY <1>2, <2>2, SumPicked
  <2>5. SumFunctionOnSet(f, s \ {Pick(s)}) = SumFunctionOnSet(g, s \ {Pick(s)})
    BY <1>2, <2>1
  <2> QED
    BY <2>1, <2>3, <2>4, <2>5
<1>3. \A s \in SUBSET S : s \in Good
  <2> HIDE DEF Good
  <2> QED
    BY <1>1, <1>2, SubsetSteps
<1> QED
  BY <1>3

(* One value grows, or one more is added: the sum grows by as much.          *)
LEMMA SumGrows ==
  ASSUME NEW S, IsFiniteSet(S), NEW q, NEW m \in Nat,
         NEW f, \A x \in S : f[x] \in Nat,
         NEW g, \A x \in S \ {q} : g[x] = f[x],
         g[q] = IF q \in S THEN f[q] + m ELSE m
  PROVE  SumFunctionOnSet(g, S \union {q}) = SumFunctionOnSet(f, S) + m
<1> DEFINE U == S \union {q}
           R == S \ {q}
<1>1. IsFiniteSet(U) /\ IsFiniteSet(R)
  BY FS_AddElement, FS_RemoveElement
<1>2. g[q] \in Nat /\ \A x \in U : g[x] \in Nat
  OBVIOUS
<1>3. q \in U /\ U \ {q} = R /\ U \in SUBSET U /\ S \in SUBSET S /\ R \in SUBSET S
  OBVIOUS
<1> HIDE DEF U
<1>4. SumFunctionOnSet(g, U) = g[q] + SumFunctionOnSet(g, R)
  BY <1>1, <1>2, <1>3, SumTaken
<1>5. SumFunctionOnSet(g, R) = SumFunctionOnSet(f, R)
  BY <1>1, SumAgree
<1>6. SumFunctionOnSet(f, R) \in Nat
  BY <1>3, SumType
<1>7. CASE q \in S
  <2>1. SumFunctionOnSet(f, S) = f[q] + SumFunctionOnSet(f, R)
    BY <1>3, <1>7, SumTaken
  <2> QED
    BY <1>4, <1>5, <1>6, <1>7, <2>1 DEF U
<1>8. CASE q \notin S
  <2>1. R = S
    BY <1>8
  <2>2. g[q] = m
    BY <1>8
  <2> HIDE DEF R
  <2>3. SumFunctionOnSet(g, U) = m + SumFunctionOnSet(f, S)
    BY <1>4, <1>5, <2>1, <2>2
  <2>4. SumFunctionOnSet(f, S) \in Nat
    BY <1>6, <2>1
  <2> QED
    BY <2>3, <2>4 DEF U
<1> QED
  BY <1>7, <1>8

-------------------------------------------------------------------------------
(* Rows and what was committed for them.                                     *)

Pairs == Calls \X Slot

(* As For, for requests rq and any numbers of runs.                          *)
ForOf(rq, n, count) ==
  {p \in Pairs :
     /\ p[2] <= Len(rq[p[1]].items) /\ rq[p[1]].items[p[2]].id = n /\ count[p[1]][p[2]] > 0}

ItemIn(rq, p) == rq[p[1]].items[p[2]]

CountsOf(rq, n, count) == {p \in ForOf(rq, n, count) : ItemIn(rq, p).mtype = "counter"}

PartsOf(rq, n, count) ==
  [p \in CountsOf(rq, n, count) |-> count[p[1]][p[2]] * ItemIn(rq, p).num]

(* A row is what so many runs of the items make of none.                     *)
IsSum(rq, n, row, count) ==
  /\ IsFiniteSet(ForOf(rq, n, count))
  /\ row = NoRow => ForOf(rq, n, count) = {}
  /\ row # NoRow /\ row.delta = Nil =>
       \E p \in ForOf(rq, n, count) : ItemIn(rq, p).mtype = "gauge" \/ ItemIn(rq, p).num = Nil
  /\ row # NoRow /\ row.delta # Nil =>
       /\ \A p \in CountsOf(rq, n, count) : ItemIn(rq, p).num # Nil
       /\ row.delta = SumFunctionOnSet(PartsOf(rq, n, count), CountsOf(rq, n, count))

(* The numbers of runs of the items of one name are the same.                *)
SameRuns(rq, n, count, more) ==
  \A p \in Pairs : p[2] <= Len(rq[p[1]].items) /\ rq[p[1]].items[p[2]].id = n =>
    more[p[1]][p[2]] = count[p[1]][p[2]]

LEMMA SameSum ==
  ASSUME NEW rq, NEW n, NEW row, NEW count, NEW more, SameRuns(rq, n, count, more),
         IsSum(rq, n, row, count)
  PROVE  IsSum(rq, n, row, more)
<1>1. ForOf(rq, n, more) = ForOf(rq, n, count)
  BY DEF ForOf, SameRuns
<1>2. CountsOf(rq, n, more) = CountsOf(rq, n, count)
  BY <1>1 DEF CountsOf
<1>3. PartsOf(rq, n, more) = PartsOf(rq, n, count)
  <2>1. \A p \in CountsOf(rq, n, count) : more[p[1]][p[2]] = count[p[1]][p[2]]
    BY DEF CountsOf, ForOf, SameRuns
  <2> QED
    BY <1>2, <2>1 DEF PartsOf
<1> QED
  BY <1>1, <1>2, <1>3 DEF IsSum

(* One run more of one item.                                                 *)
OneMore(rq, n, count, more, q) ==
  /\ q \in Pairs /\ q[2] <= Len(rq[q[1]].items) /\ ItemIn(rq, q).id = n
  /\ more[q[1]][q[2]] = count[q[1]][q[2]] + 1
  /\ \A p \in Pairs \ {q} : p[2] <= Len(rq[p[1]].items) /\ rq[p[1]].items[p[2]].id = n =>
       more[p[1]][p[2]] = count[p[1]][p[2]]

LEMMA MoreFor ==
  ASSUME NEW rq, NEW n, NEW count \in [Calls -> [Slot -> Nat]], NEW more, NEW q,
         OneMore(rq, n, count, more, q)
  PROVE  /\ ForOf(rq, n, more) = ForOf(rq, n, count) \union {q}
         /\ \A p \in ForOf(rq, n, count) \ {q} : more[p[1]][p[2]] = count[p[1]][p[2]]
         /\ q \notin ForOf(rq, n, count) => more[q[1]][q[2]] = 1
<1>1. count[q[1]][q[2]] \in Nat
  <2>1. q[1] \in Calls /\ q[2] \in Slot
    BY DEF OneMore, Pairs
  <2> QED
    BY <2>1
<1>2. q \in ForOf(rq, n, more)
  BY <1>1 DEF OneMore, ForOf, ItemIn
<1>3. \A p \in Pairs \ {q} : p \in ForOf(rq, n, more) <=> p \in ForOf(rq, n, count)
  BY DEF OneMore, ForOf
<1>4. ForOf(rq, n, more) \subseteq Pairs /\ ForOf(rq, n, count) \subseteq Pairs
  BY DEF ForOf
<1>5. ForOf(rq, n, more) = ForOf(rq, n, count) \union {q}
  BY <1>2, <1>3, <1>4
<1>6. \A p \in ForOf(rq, n, count) \ {q} : more[p[1]][p[2]] = count[p[1]][p[2]]
  BY DEF OneMore, ForOf
<1>7. q \notin ForOf(rq, n, count) => more[q[1]][q[2]] = 1
  <2>1. q \notin ForOf(rq, n, count) => ~ (count[q[1]][q[2]] > 0)
    BY DEF OneMore, ForOf, ItemIn
  <2> QED
    BY <1>1, <2>1 DEF OneMore
<1> QED
  BY <1>5, <1>6, <1>7

(* A gauge leaves the sum as it is.                                          *)
LEMMA GaugeSum ==
  ASSUME NEW rq, NEW n, NEW row \in Row \union {NoRow},
         NEW count \in [Calls -> [Slot -> Nat]], NEW more, NEW q, OneMore(rq, n, count, more, q),
         ItemIn(rq, q).mtype = "gauge", IsSum(rq, n, row, count)
  PROVE  IsSum(rq, n, Upsert(row, ItemIn(rq, q)), more)
<1> DEFINE up == Upsert(row, ItemIn(rq, q))
           all == ForOf(rq, n, count)
<1>1. /\ ForOf(rq, n, more) = all \union {q}
      /\ \A p \in all \ {q} : more[p[1]][p[2]] = count[p[1]][p[2]]
      /\ q \notin all => more[q[1]][q[2]] = 1
  BY MoreFor
<1>2. IsFiniteSet(ForOf(rq, n, more))
  BY <1>1, FS_AddElement DEF IsSum
<1>3. up # NoRow /\ (row = NoRow => up.delta = Nil) /\ (row # NoRow => up.delta = row.delta)
  BY DEF Upsert, NoRow, Row
<1> HIDE DEF up
<1>4. q \in ForOf(rq, n, more)
  BY <1>1
<1>5. CountsOf(rq, n, more) = CountsOf(rq, n, count) /\ q \notin CountsOf(rq, n, count)
  BY <1>1 DEF CountsOf
<1>6. PartsOf(rq, n, more) = PartsOf(rq, n, count)
  <2>1. \A p \in CountsOf(rq, n, count) : more[p[1]][p[2]] = count[p[1]][p[2]]
    BY <1>1, <1>5 DEF CountsOf
  <2> QED
    BY <1>5, <2>1 DEF PartsOf
<1>7. CASE up.delta = Nil
  BY <1>2, <1>3, <1>4, <1>7 DEF IsSum, up
<1>8. CASE up.delta # Nil
  <2>1. row # NoRow /\ row.delta # Nil /\ row.delta = up.delta
    BY <1>3, <1>8
  <2> QED
    BY <1>2, <1>3, <1>5, <1>6, <1>8, <2>1 DEF IsSum, up
<1> QED
  BY <1>7, <1>8 DEF up

(* A counter adds to it.                                                     *)
LEMMA CounterSum ==
  ASSUME NEW rq, NEW n, NEW row \in Row \union {NoRow},
         NEW count \in [Calls -> [Slot -> Nat]], NEW more, NEW q, OneMore(rq, n, count, more, q),
         ItemIn(rq, q).mtype = "counter", IsSum(rq, n, row, count),
         \A p \in ForOf(rq, n, count) \union {q} : ItemIn(rq, p).num \in Nat \union {Nil}
  PROVE  IsSum(rq, n, Upsert(row, ItemIn(rq, q)), more)
<1> DEFINE up == Upsert(row, ItemIn(rq, q))
           all == ForOf(rq, n, count)
           counts == CountsOf(rq, n, count)
           num == ItemIn(rq, q).num
<1>1. /\ ForOf(rq, n, more) = all \union {q}
      /\ \A p \in all \ {q} : more[p[1]][p[2]] = count[p[1]][p[2]]
      /\ q \notin all => more[q[1]][q[2]] = 1
  BY MoreFor
<1>2. IsFiniteSet(all) /\ IsFiniteSet(ForOf(rq, n, more))
  BY <1>1, FS_AddElement DEF IsSum
<1>3. /\ up # NoRow
      /\ row = NoRow => up.delta = num
      /\ row # NoRow => up.delta = Sum(num, row.delta)
  BY DEF Upsert, NoRow, Row
<1> HIDE DEF up
<1>4. CountsOf(rq, n, more) = counts \union {q} /\ counts \subseteq all
  BY <1>1 DEF CountsOf
<1>5. num \in Nat \union {Nil} /\ Nil \notin Nat
  BY PgAssumption DEF PgAssumption
<1>6. CASE num = Nil
  <2>1. up.delta = Nil
    BY <1>3, <1>6 DEF Sum
  <2>2. q \in ForOf(rq, n, more)
    BY <1>1
  <2> QED
    BY <1>2, <1>3, <1>6, <2>1, <2>2 DEF IsSum, up
<1>7. CASE num \in Nat /\ row # NoRow /\ row.delta = Nil
  <2>1. up.delta = Nil
    BY <1>3, <1>7 DEF Sum
  <2>2. \E p \in ForOf(rq, n, more) : ItemIn(rq, p).mtype = "gauge" \/ ItemIn(rq, p).num = Nil
    BY <1>1, <1>7 DEF IsSum
  <2> QED
    BY <1>2, <1>3, <2>1, <2>2 DEF IsSum, up
<1>8. CASE num \in Nat /\ (row # NoRow => row.delta # Nil)
  <2> DEFINE f == PartsOf(rq, n, count)
             g == PartsOf(rq, n, more)
             delta == IF row = NoRow THEN 0 ELSE row.delta
  <2>1. \A p \in counts : ItemIn(rq, p).num \in Nat
    <3>1. row = NoRow => counts = {}
      BY <1>4 DEF IsSum
    <3>2. row # NoRow => \A p \in counts : ItemIn(rq, p).num # Nil
      BY <1>8 DEF IsSum
    <3> QED
      BY <1>4, <3>1, <3>2
  <2>2. delta = SumFunctionOnSet(f, counts)
    <3>1. CASE row = NoRow
      <4>1. counts = {}
        BY <1>4, <3>1 DEF IsSum
      <4> HIDE DEF counts, f
      <4> QED
        BY <3>1, <4>1, SumOfNone
    <3>2. CASE row # NoRow
      BY <1>8, <3>2 DEF IsSum
    <3> QED
      BY <3>1, <3>2
  <2>3. /\ \A p \in counts : f[p] = count[p[1]][p[2]] * ItemIn(rq, p).num
        /\ \A p \in counts \union {q} : g[p] = more[p[1]][p[2]] * ItemIn(rq, p).num
    BY <1>4 DEF PartsOf
  <2> HIDE DEF f, g, counts, all
  <2>4. \A p \in counts : count[p[1]][p[2]] \in Nat
    BY DEF counts, CountsOf, ForOf, Pairs
  <2>5. \A p \in counts : f[p] \in Nat
    BY <2>1, <2>3, <2>4
  <2>6. \A p \in counts \ {q} : g[p] = f[p]
    BY <1>1, <1>4, <2>3
  <2>7. g[q] = IF q \in counts THEN f[q] + num ELSE num
    <3>1. g[q] = more[q[1]][q[2]] * num
      BY <2>3
    <3>2. CASE q \in counts
      <4>1. count[q[1]][q[2]] \in Nat /\ more[q[1]][q[2]] = count[q[1]][q[2]] + 1
            /\ f[q] = count[q[1]][q[2]] * num
        BY <2>3, <2>4, <3>2 DEF OneMore
      <4>2. \A k, m \in Nat : (k + 1) * m = k * m + m
        OBVIOUS
      <4> QED
        BY <1>8, <3>1, <3>2, <4>1, <4>2
    <3>3. CASE q \notin counts
      <4>1. q \notin all
        BY <3>3 DEF counts, CountsOf, all
      <4> QED
        BY <1>1, <1>8, <3>1, <3>3, <4>1
    <3> QED
      BY <3>2, <3>3
  <2>8. IsFiniteSet(counts)
    BY <1>2, <1>4, FS_Subset
  <2>9. SumFunctionOnSet(g, counts \union {q}) = SumFunctionOnSet(f, counts) + num
    <3> DEFINE m == num
    <3>1. m \in Nat /\ g[q] = IF q \in counts THEN f[q] + m ELSE m
      BY <1>8, <2>7
    <3> HIDE DEF m
    <3>2. SumFunctionOnSet(g, counts \union {q}) = SumFunctionOnSet(f, counts) + m
      BY <2>5, <2>6, <2>8, <3>1, SumGrows
    <3> QED
      BY <3>2 DEF m
  <2>10. up.delta \in Nat /\ up.delta = delta + num
    <3>1. delta \in Nat
      BY <1>8 DEF Row
    <3>2. row # NoRow => up.delta = num + row.delta
      BY <1>3, <1>5, <1>8 DEF Sum
    <3> QED
      BY <1>3, <1>8, <3>1, <3>2
  <2>11. up.delta = SumFunctionOnSet(g, CountsOf(rq, n, more))
    BY <1>4, <2>2, <2>9, <2>10
  <2>12. \A p \in CountsOf(rq, n, more) : ItemIn(rq, p).num # Nil
    BY <1>4, <1>5, <1>8, <2>1
  <2> QED
    BY <1>2, <1>3, <1>5, <2>10, <2>11, <2>12 DEF IsSum, g, up
<1> QED
  BY <1>5, <1>6, <1>7, <1>8 DEF up

(* One run more of one item makes the row what the statement makes of it, and *)
(* the rows of other names stay what they are.                               *)
LEMMA RunSum ==
  ASSUME TypeOK, NEW c \in Calls, NEW k \in DOMAIN Items(c), Items(c)[k].mtype # "other",
         NEW row \in Row \union {NoRow},
         NEW count \in [Calls -> [Slot -> Nat]], NEW more,
         \A d \in Calls, j \in Slot :
           more[d][j] = IF d = c /\ j = k THEN count[d][j] + 1 ELSE count[d][j]
  PROVE  /\ IsSum(req, Items(c)[k].id, row, count) =>
              IsSum(req, Items(c)[k].id, Upsert(row, Items(c)[k]), more)
         /\ \A n \in Names : n # Items(c)[k].id => SameRuns(req, n, count, more)
<1> DEFINE q == <<c, k>>
           n0 == Items(c)[k].id
<1>1. /\ k \in Slot /\ k <= Len(Items(c)) /\ Items(c)[k] \in Item
      /\ \A d \in Calls : /\ Len(Items(d)) \in Nat /\ DOMAIN Items(d) = 1 .. Len(Items(d))
                          /\ \A j \in DOMAIN Items(d) : Items(d)[j] \in Item
  <2>1. req \in [Calls -> Input]
    BY DEF TypeOK
  <2> QED
    BY <2>1, InputType
<1>2. /\ q[1] = c /\ q[2] = k /\ q \in Pairs
      /\ \A p \in Pairs : p[1] \in Calls /\ p[2] \in Slot /\ (p # q => p[1] # c \/ p[2] # k)
  BY <1>1 DEF Pairs
<1>3. /\ ItemIn(req, q) = Items(c)[k] /\ Len(req[q[1]].items) = Len(Items(c))
      /\ \A d \in Calls : req[d].items = Items(d)
  BY <1>2 DEF ItemIn, Items
<1> HIDE DEF q
<1>4. OneMore(req, n0, count, more, q)
  <2>1. q \in Pairs /\ q[2] <= Len(req[q[1]].items) /\ ItemIn(req, q).id = n0
    BY <1>1, <1>2, <1>3
  <2>2. more[q[1]][q[2]] = count[q[1]][q[2]] + 1
    BY <1>1, <1>2
  <2>3. \A p \in Pairs \ {q} : more[p[1]][p[2]] = count[p[1]][p[2]]
    BY <1>2
  <2> QED
    BY <2>1, <2>2, <2>3 DEF OneMore
<1>5. Items(c)[k].mtype \in {"gauge", "counter"}
  BY <1>1 DEF Item, Types
<1>6. \A p \in ForOf(req, n0, count) \union {q} : ItemIn(req, p).num \in Nat \union {Nil}
  <2>1. \A p \in ForOf(req, n0, count) : p \in Pairs /\ p[2] \in Slot /\ p[2] <= Len(req[p[1]].items)
    BY DEF ForOf, Pairs
  <2>2. \A p \in ForOf(req, n0, count) : p[2] \in DOMAIN Items(p[1])
    <3>1. SUFFICES ASSUME NEW p \in ForOf(req, n0, count) PROVE p[2] \in DOMAIN Items(p[1])
      OBVIOUS
    <3>2. p[1] \in Calls /\ p[2] \in Slot
      BY <1>2, <2>1
    <3>3. p[2] <= Len(Items(p[1])) /\ DOMAIN Items(p[1]) = 1 .. Len(Items(p[1]))
          /\ Len(Items(p[1])) \in Nat
      BY <1>1, <1>3, <2>1, <3>2
    <3>4. p[2] \in Nat \ {0}
      BY <3>2, PgAssumption DEF Slot, PgAssumption
    <3> QED
      BY <3>3, <3>4
  <2>3. \A p \in ForOf(req, n0, count) \union {q} : ItemIn(req, p) \in Item
    BY <1>1, <1>2, <1>3, <2>1, <2>2 DEF ItemIn
  <2>4. \A i \in Item : i.num \in Nat \union {Nil}
    BY PgAssumption DEF PgAssumption, Item
  <2> QED
    BY <2>3, <2>4
<1>7. ASSUME IsSum(req, n0, row, count)
      PROVE  IsSum(req, n0, Upsert(row, Items(c)[k]), more)
  <2>1. CASE ItemIn(req, q).mtype = "gauge"
    <3>1. IsSum(req, n0, Upsert(row, ItemIn(req, q)), more)
      BY <1>4, <1>7, <2>1, GaugeSum
    <3> QED
      BY <1>3, <3>1
  <2>2. CASE ItemIn(req, q).mtype = "counter"
    <3>1. IsSum(req, n0, Upsert(row, ItemIn(req, q)), more)
      BY <1>4, <1>6, <1>7, <2>2, CounterSum
    <3> QED
      BY <1>3, <3>1
  <2> QED
    BY <1>3, <1>5, <2>1, <2>2
<1>8. ASSUME NEW n \in Names, n # n0
      PROVE  SameRuns(req, n, count, more)
  BY <1>2, <1>3, <1>8 DEF SameRuns
<1> QED
  BY <1>7, <1>8

(* What is committed, with what the transaction of d has written.            *)
Own(a, p, d) == [a EXCEPT ![d] = [k \in Slot |-> a[d][k] + p[d][k]]]

IsOwn(own, a, p, d) ==
  /\ own \in [Calls -> [Slot -> Nat]]
  /\ \A e \in Calls, k \in Slot :
       own[e][k] = IF e = d THEN a[d][k] + p[d][k] ELSE a[e][k]

LEMMA OwnAt ==
  ASSUME NEW a \in [Calls -> [Slot -> Nat]], NEW p \in [Calls -> [Slot -> Nat]], NEW d \in Calls
  PROVE  IsOwn(Own(a, p, d), a, p, d)
<1> DEFINE sum == [k \in Slot |-> a[d][k] + p[d][k]]
<1>1. sum \in [Slot -> Nat] /\ \A k \in Slot : sum[k] = a[d][k] + p[d][k]
  OBVIOUS
<1>2. Own(a, p, d) = [a EXCEPT ![d] = sum]
  BY DEF Own
<1> HIDE DEF sum
<1> QED
  BY <1>1, <1>2 DEF IsOwn

(* Every row is the sum of what was committed for it; the rows a transaction  *)
(* has written are that with its own statements; no two transactions have     *)
(* written the same row; and one that is not open has written none.          *)
RowsAreSums == \A n \in Names : IsSum(req, n, rows[n], applied)
VersAreSums ==
  \A c \in Calls, n \in Names : Holds(c, n) => IsSum(req, n, ver[c][n], Own(applied, pend, c))
HeldOnce == \A c, d \in Calls, n \in Names : Holds(c, n) /\ Holds(d, n) => c = d
NonePending == \A c \in Calls : tx[c] # "open" => pend[c] = Nothing

Summed == RowsAreSums /\ VersAreSums /\ HeldOnce /\ NonePending

LEMMA InitSummed == Init => Summed
<1> SUFFICES ASSUME Init PROVE Summed
  OBVIOUS
<1>1. \A p \in Pairs : applied[p[1]][p[2]] = 0
  BY DEF Init, Nothing, Pairs, Slot
<1>2. \A n \in Names : ForOf(req, n, applied) = {} /\ rows[n] = NoRow
  BY <1>1 DEF Init, ForOf, NoRows
<1>3. RowsAreSums
  BY <1>2, FS_EmptySet DEF RowsAreSums, IsSum
<1>4. \A c \in Calls, n \in Names : ~Holds(c, n)
  BY DEF Init, Holds
<1>5. NonePending
  BY DEF Init, NonePending
<1> QED
  BY <1>3, <1>4, <1>5 DEF Summed, VersAreSums, HeldOnce

LEMMA HoldsKept ==
  ASSUME NEW d \in Calls, NEW n, req' = req, tx'[d] = tx[d], pend'[d] = pend[d]
  PROVE  Holds(d, n)' <=> Holds(d, n)
BY DEF Holds, Items

(* The steps of the server, and the statements that read or fail.            *)
LEMMA QuietSummed ==
  ASSUME TypeOK, Summed, UNCHANGED <<req, rows, applied, pend, ver>>,
         \A d \in Calls : tx'[d] = tx[d] \/ tx'[d] = "open"
  PROVE  Summed'
<1>1. \A d \in Calls, n \in Names : Holds(d, n)' => Holds(d, n)
  <2>1. SUFFICES ASSUME NEW d \in Calls, NEW n \in Names, Holds(d, n)' PROVE Holds(d, n)
    OBVIOUS
  <2>2. PICK k \in DOMAIN Items(d) : pend[d][k] > 0 /\ Items(d)[k].id = n
    BY <2>1 DEF Holds, Items
  <2>3. k \in Slot
    BY InputType DEF TypeOK
  <2>4. pend[d] # Nothing
    <3>1. Nothing[k] = 0
      BY <2>3 DEF Nothing, Slot
    <3> QED
      BY <2>2, <3>1
  <2>5. tx[d] = "open"
    BY <2>4 DEF Summed, NonePending
  <2> QED
    BY <2>2, <2>5 DEF Holds
<1>2. RowsAreSums'
  BY DEF Summed, RowsAreSums
<1>3. VersAreSums'
  BY <1>1 DEF Summed, VersAreSums
<1>4. HeldOnce'
  BY <1>1 DEF Summed, HeldOnce
<1>5. NonePending'
  BY DEF Summed, NonePending
<1> QED
  BY <1>2, <1>3, <1>4, <1>5 DEF Summed

(* A transaction that does not hold a row has not written its items.          *)
LEMMA NotHeld ==
  ASSUME TypeOK, Summed, NEW c \in Calls, NEW n, ~Holds(c, n)
  PROVE  \A k \in Slot : k <= Len(Items(c)) /\ Items(c)[k].id = n => pend[c][k] = 0
<1>1. SUFFICES ASSUME NEW k \in Slot, k <= Len(Items(c)), Items(c)[k].id = n
               PROVE  pend[c][k] = 0
  OBVIOUS
<1>2. k \in DOMAIN Items(c)
  <2>1. Len(Items(c)) \in Nat /\ DOMAIN Items(c) = 1 .. Len(Items(c))
    BY InputType DEF TypeOK
  <2> QED
    BY <1>1, <2>1 DEF Slot
<1>3. pend[c][k] \in Nat
  <2>1. pend \in [Calls -> [Slot -> Nat]]
    BY DEF TypeOK, Slot
  <2> QED
    BY <2>1
<1>4. CASE tx[c] = "open"
  BY <1>1, <1>2, <1>3, <1>4 DEF Holds
<1>5. CASE tx[c] # "open"
  BY <1>5 DEF Summed, NonePending, Nothing, Slot
<1> QED
  BY <1>4, <1>5

(* A row is seen as what was committed for it, with the own statements.      *)
LEMMA SeenSum ==
  ASSUME TypeOK, Summed, NEW c \in Calls, NEW n \in Names
  PROVE  IsSum(req, n, Seen(c, n), Own(applied, pend, c))
<1>1. CASE Holds(c, n)
  BY <1>1 DEF Seen, Summed, VersAreSums
<1>2. CASE ~Holds(c, n)
  <2> DEFINE own == Own(applied, pend, c)
  <2>1. applied \in [Calls -> [Slot -> Nat]] /\ pend \in [Calls -> [Slot -> Nat]]
    BY DEF TypeOK, Slot
  <2>2. IsOwn(own, applied, pend, c)
    BY <2>1, OwnAt
  <2> HIDE DEF own
  <2>3. \A k \in Slot : k <= Len(Items(c)) /\ Items(c)[k].id = n => pend[c][k] = 0
    BY <1>2, NotHeld
  <2>4. SameRuns(req, n, applied, own)
    <3>1. \A p \in Pairs : p[1] \in Calls /\ p[2] \in Slot
      BY DEF Pairs
    <3>2. \A k \in Slot : applied[c][k] \in Nat
      BY <2>1
    <3>3. \A e \in Calls, k \in Slot :
            own[e][k] = IF e = c THEN applied[c][k] + pend[c][k] ELSE applied[e][k]
      BY <2>2 DEF IsOwn
    <3> QED
      BY <2>3, <3>1, <3>2, <3>3 DEF SameRuns, Items
  <2>5. IsSum(req, n, rows[n], applied)
    BY DEF Summed, RowsAreSums
  <2>6. IsSum(req, n, rows[n], own)
    BY <2>4, <2>5, SameSum
  <2> QED
    BY <1>2, <2>6 DEF Seen, own
<1> QED
  BY <1>1, <1>2

(* A statement outside of a transaction runs: it is no row that a             *)
(* transaction holds.                                                        *)
LEMMA RunSummed ==
  ASSUME Placed, Summed, NEW c \in Calls, NEW i, <<c, i>> \in flight,
         Op(c) = "update", ~Locked(Items(c)[1].id, c),
         rows' = Written(rows, Items(c)[1]), applied' = [applied EXCEPT ![c][1] = @ + 1],
         UNCHANGED <<req, tx, pend, ver>>
  PROVE  Summed'
<1> DEFINE more == applied'
           item == Items(c)[1]
           n0   == item.id
<1>1. /\ TypeOK /\ 1 \in DOMAIN Items(c) /\ 1 \in Slot /\ item \in Item /\ n0 \in Names
      /\ item.mtype # "other" /\ tx[c] = "none"
  <2>1. 1 \in DOMAIN Items(c) /\ TypeOK
    BY InputType DEF Placed, TypeOK
  <2>2. 1 \in Slot /\ item \in Item
    BY <2>1, InputType DEF TypeOK
  <2> QED
    BY <2>1, <2>2 DEF Item, Placed, Place, PlaceOf
<1>2. /\ applied \in [Calls -> [Slot -> Nat]] /\ pend \in [Calls -> [Slot -> Nat]]
      /\ rows \in [Names -> Row \union {NoRow}]
  BY CountType DEF Placed, TypeOK
<1>3. \A d \in Calls, j \in Slot :
        more[d][j] = IF d = c /\ j = 1 THEN applied[d][j] + 1 ELSE applied[d][j]
  BY <1>1, <1>2
<1>4. more \in [Calls -> [Slot -> Nat]]
  BY <1>1, <1>2
<1>5. /\ rows'[n0] = Upsert(rows[n0], item)
      /\ \A n \in Names : n # n0 => rows'[n] = rows[n]
  BY <1>1, <1>2 DEF Written
<1> HIDE DEF more
<1>6. /\ IsSum(req, n0, rows[n0], applied) => IsSum(req, n0, Upsert(rows[n0], item), more)
      /\ \A n \in Names : n # n0 => SameRuns(req, n, applied, more)
  BY <1>1, <1>2, <1>3, RunSum
<1>7. \A n \in Names : IsSum(req, n, rows'[n], more)
  BY <1>1, <1>5, <1>6, SameSum DEF Summed, RowsAreSums
<1>8. \A d \in Calls, n \in Names : Holds(d, n)' <=> Holds(d, n)
  BY HoldsKept
<1>9. ASSUME NEW d \in Calls, NEW n \in Names, Holds(d, n)
      PROVE  IsSum(req, n, ver[d][n], Own(more, pend, d))
  <2> DEFINE own == Own(applied, pend, d)
             later == Own(more, pend, d)
  <2>1. d # c
    BY <1>1, <1>9 DEF Holds
  <2>2. n # n0
    BY <1>9, <2>1 DEF Locked
  <2>3. IsOwn(own, applied, pend, d)
    BY <1>2, OwnAt
  <2>4. IsOwn(later, more, pend, d)
    BY <1>2, <1>4, OwnAt
  <2> HIDE DEF own, later
  <2>5. \A e \in Calls, k \in Slot : e # c \/ k # 1 => later[e][k] = own[e][k]
    BY <1>3, <2>3, <2>4 DEF IsOwn
  <2>6. \A p \in Pairs : p[1] \in Calls /\ p[2] \in Slot
    BY DEF Pairs
  <2>7. SameRuns(req, n, own, later)
    BY <2>2, <2>5, <2>6 DEF SameRuns, Items
  <2>8. IsSum(req, n, ver[d][n], own)
    BY <1>9 DEF Summed, VersAreSums, own
  <2> QED
    BY <2>7, <2>8, SameSum DEF later
<1>10. RowsAreSums'
  BY <1>7 DEF RowsAreSums, more
<1>11. VersAreSums'
  BY <1>8, <1>9 DEF VersAreSums, more
<1>12. HeldOnce' /\ NonePending'
  BY <1>8 DEF Summed, HeldOnce, NonePending
<1> QED
  BY <1>10, <1>11, <1>12 DEF Summed

(* A statement of a transaction runs: it holds the row then.                  *)
LEMMA StatementSummed ==
  ASSUME Placed, Summed, NEW c \in Calls, pc[c] = "sent", Op(c) = "batch", tx[c] = "open",
         ~Locked(Items(c)[At(c)].id, c),
         pend' = [pend EXCEPT ![c][At(c)] = @ + 1],
         ver' = [ver EXCEPT ![c][Items(c)[At(c)].id] =
                   Upsert(Seen(c, Items(c)[At(c)].id), Items(c)[At(c)])],
         UNCHANGED <<req, rows, applied, tx>>
  PROVE  Summed'
<1> DEFINE later == pend'
           own   == Own(applied, pend, c)
           more  == Own(applied, later, c)
           k     == At(c)
           item  == Items(c)[k]
           n0    == item.id
           row   == Seen(c, n0)
<1>1. TypeOK /\ k \in DOMAIN Items(c) /\ k \in Slot /\ item.mtype # "other"
  BY NextIndex DEF Placed, Place, PlaceOf
<1>2. item \in Item /\ n0 \in Names /\ row \in Row \union {NoRow}
  <2>1. item \in Item
    BY <1>1, InputType DEF TypeOK
  <2>2. n0 \in Names
    BY <2>1 DEF Item
  <2> QED
    BY <1>1, <2>1, <2>2, SeenType
<1>3. /\ applied \in [Calls -> [Slot -> Nat]] /\ pend \in [Calls -> [Slot -> Nat]]
      /\ ver \in [Calls -> [Names -> Row \union {NoRow}]]
  BY CountType DEF Placed, TypeOK
<1>4. later \in [Calls -> [Slot -> Nat]]
  BY <1>1, <1>3
<1>5. /\ later[c][k] = pend[c][k] + 1
      /\ \A j \in Slot : j # k => later[c][j] = pend[c][j]
      /\ \A d \in Calls : d # c => later[d] = pend[d] /\ ver'[d] = ver[d]
  BY <1>1, <1>3
<1>6. /\ ver'[c][n0] = Upsert(row, item)
      /\ \A n \in Names : n # n0 => ver'[c][n] = ver[c][n]
  BY <1>2, <1>3
<1>7. \A d \in Calls, n \in Names : d # c => (Holds(d, n)' <=> Holds(d, n))
  BY <1>5, HoldsKept
<1>8. \A n \in Names : Holds(c, n)' /\ n # n0 => Holds(c, n)
  <2>1. SUFFICES ASSUME NEW n \in Names, Holds(c, n)', n # n0 PROVE Holds(c, n)
    OBVIOUS
  <2>2. PICK j \in DOMAIN Items(c) : later[c][j] > 0 /\ Items(c)[j].id = n
    BY <2>1 DEF Holds, Items
  <2>3. j # k /\ j \in Slot
    BY <1>1, <2>1, <2>2, InputType DEF TypeOK
  <2>4. pend[c][j] > 0
    BY <1>5, <2>2, <2>3
  <2> QED
    BY <2>2, <2>4 DEF Holds
<1> HIDE DEF later, k, row, item, n0
<1>9. IsOwn(own, applied, pend, c)
  BY <1>3, OwnAt
<1>10. IsOwn(more, applied, later, c)
  BY <1>3, <1>4, OwnAt
<1> HIDE DEF own, more
<1>11. \A e \in Calls, j \in Slot :
         more[e][j] = IF e = c /\ j = k THEN own[e][j] + 1 ELSE own[e][j]
  <2>1. applied[c][k] \in Nat /\ pend[c][k] \in Nat
    BY <1>1, <1>3
  <2>2. more[c][k] = own[c][k] + 1
    BY <1>1, <1>5, <1>9, <1>10, <2>1 DEF IsOwn
  <2>3. \A j \in Slot : j # k => more[c][j] = own[c][j]
    BY <1>5, <1>9, <1>10 DEF IsOwn
  <2>4. \A e \in Calls, j \in Slot : e # c => more[e][j] = own[e][j]
    BY <1>9, <1>10 DEF IsOwn
  <2> QED
    BY <2>2, <2>3, <2>4
<1>12. /\ IsSum(req, n0, row, own) => IsSum(req, n0, Upsert(row, item), more)
       /\ \A n \in Names : n # n0 => SameRuns(req, n, own, more)
  <2>1. own \in [Calls -> [Slot -> Nat]]
    BY <1>9 DEF IsOwn
  <2> QED
    BY <1>1, <1>2, <1>11, <2>1, RunSum DEF item, n0
<1>13. IsSum(req, n0, row, own)
  BY <1>1, <1>2, SeenSum DEF row, own
<1>14. ASSUME NEW d \in Calls, NEW n \in Names, Holds(d, n)'
       PROVE  IsSum(req, n, ver'[d][n], Own(applied, later, d))
  <2>1. CASE d # c
    <3>1. Own(applied, later, d) = Own(applied, pend, d)
      BY <1>5, <2>1 DEF Own
    <3>2. Holds(d, n)
      BY <1>7, <1>14, <2>1
    <3> QED
      BY <1>5, <2>1, <3>1, <3>2 DEF Summed, VersAreSums
  <2>2. CASE d = c /\ n = n0
    BY <1>6, <1>12, <1>13, <2>2 DEF more
  <2>3. CASE d = c /\ n # n0
    <3>1. Holds(c, n)
      BY <1>8, <1>14, <2>3
    <3>2. IsSum(req, n, ver[c][n], own)
      BY <3>1 DEF Summed, VersAreSums, own
    <3>3. IsSum(req, n, ver[c][n], more)
      BY <1>12, <2>3, <3>2, SameSum
    <3> QED
      BY <1>6, <2>3, <3>3 DEF more
  <2> QED
    BY <2>1, <2>2, <2>3
<1>15. RowsAreSums'
  BY DEF Summed, RowsAreSums
<1>16. VersAreSums'
  BY <1>14 DEF VersAreSums, later
<1>17. HeldOnce'
  <2>1. \A d \in Calls : d # c => ~Holds(d, n0)
    BY DEF Locked, n0, item, k
  <2> QED
    BY <1>2, <1>7, <1>8, <2>1 DEF Summed, HeldOnce
<1>18. NonePending'
  BY <1>5 DEF Summed, NonePending, later
<1> QED
  BY <1>15, <1>16, <1>17, <1>18 DEF Summed

(* A transaction is over, and what it has written with it.                    *)
LEMMA UndoSummed ==
  ASSUME Placed, Summed, NEW c \in Calls, NEW how, how # "open", EndTx(c, how),
         UNCHANGED <<req, rows, applied>>
  PROVE  Summed'
<1>1. /\ tx'[c] = how /\ pend'[c] = Nothing
      /\ \A d \in Calls : d # c => tx'[d] = tx[d] /\ pend'[d] = pend[d] /\ ver'[d] = ver[d]
  BY DEF EndTx, Placed, TypeOK
<1>2. \A n \in Names : ~Holds(c, n)'
  BY <1>1 DEF Holds
<1>3. \A d \in Calls, n \in Names : d # c => (Holds(d, n)' <=> Holds(d, n))
  BY <1>1, HoldsKept
<1>4. RowsAreSums'
  BY DEF Summed, RowsAreSums
<1>5. VersAreSums'
  <2> DEFINE later == pend'
  <2>1. \A d \in Calls : d # c => Own(applied, later, d) = Own(applied, pend, d)
    BY <1>1 DEF Own
  <2> QED
    BY <1>1, <1>2, <1>3, <2>1 DEF Summed, VersAreSums
<1>6. HeldOnce'
  BY <1>2, <1>3 DEF Summed, HeldOnce
<1>7. NonePending'
  BY <1>1 DEF Summed, NonePending
<1> QED
  BY <1>4, <1>5, <1>6, <1>7 DEF Summed

(* COMMIT makes the rows what the transaction has seen, and its runs of the   *)
(* items those that count; no other transaction has written the same rows.    *)
LEMMA CommitSummed ==
  ASSUME Placed, Summed, NEW c \in Calls, DbCommit(c)
  PROVE  Summed'
<1> DEFINE more  == applied'
           later == pend'
<1>1. /\ TypeOK /\ req' = req /\ EndTx(c, "ended")
      /\ \A n \in Names : rows'[n] = Seen(c, n)
      /\ more = Own(applied, pend, c)
  BY DEF DbCommit, Own, Slot, Placed
<1>2. /\ tx'[c] = "ended" /\ later[c] = Nothing
      /\ \A d \in Calls : d # c => tx'[d] = tx[d] /\ later[d] = pend[d] /\ ver'[d] = ver[d]
  BY <1>1 DEF EndTx, TypeOK
<1>3. \A n \in Names : ~Holds(c, n)'
  BY <1>2 DEF Holds
<1>4. \A d \in Calls, n \in Names : d # c => (Holds(d, n)' <=> Holds(d, n))
  BY <1>1, <1>2, HoldsKept
<1>5. applied \in [Calls -> [Slot -> Nat]] /\ pend \in [Calls -> [Slot -> Nat]]
  BY CountType
<1>6. later \in [Calls -> [Slot -> Nat]]
  <2>1. pend' \in [Calls -> [1 .. MaxItems -> Nat]]
    BY NextPlaced DEF Next, Database, Placed, TypeOK
  <2> QED
    BY <2>1 DEF Slot
<1> HIDE DEF more, later
<1>7. /\ more \in [Calls -> [Slot -> Nat]]
      /\ \A e \in Calls, j \in Slot :
           more[e][j] = IF e = c THEN applied[c][j] + pend[c][j] ELSE applied[e][j]
  <2> DEFINE own == Own(applied, pend, c)
  <2>1. IsOwn(own, applied, pend, c)
    BY <1>5, OwnAt
  <2>2. more = own
    BY <1>1
  <2> HIDE DEF own
  <2> QED
    BY <2>1, <2>2 DEF IsOwn
<1>8. \A n \in Names : IsSum(req, n, rows'[n], more)
  BY <1>1, SeenSum
<1>9. ASSUME NEW d \in Calls, NEW n \in Names, d # c, Holds(d, n)
      PROVE  IsSum(req, n, ver'[d][n], Own(more, later, d))
  <2> DEFINE own == Own(applied, pend, d)
             ours == Own(more, later, d)
  <2>1. IsOwn(own, applied, pend, d)
    BY <1>5, OwnAt
  <2>2. IsOwn(ours, more, later, d)
    BY <1>6, <1>7, OwnAt
  <2>3. IsSum(req, n, ver[d][n], own)
    BY <1>9 DEF Summed, VersAreSums
  <2> HIDE DEF own, ours
  <2>4. \A j \in Slot : j <= Len(Items(c)) /\ Items(c)[j].id = n => pend[c][j] = 0
    <3>1. ~Holds(c, n)
      BY <1>9 DEF Summed, HeldOnce
    <3> QED
      BY <1>1, <3>1, NotHeld
  <2>5. \A e \in Calls, j \in Slot : e # c => ours[e][j] = own[e][j]
    <3>1. SUFFICES ASSUME NEW e \in Calls, NEW j \in Slot, e # c PROVE ours[e][j] = own[e][j]
      OBVIOUS
    <3>2. more[e][j] = applied[e][j] /\ (e = d => later[d][j] = pend[d][j])
      BY <1>2, <1>7, <1>9, <3>1
    <3> QED
      BY <2>1, <2>2, <3>2 DEF IsOwn
  <2>6. \A j \in Slot : pend[c][j] = 0 => ours[c][j] = own[c][j]
    <3>1. SUFFICES ASSUME NEW j \in Slot, pend[c][j] = 0 PROVE ours[c][j] = own[c][j]
      OBVIOUS
    <3>2. applied[c][j] \in Nat
      BY <1>5
    <3> QED
      BY <1>7, <1>9, <2>1, <2>2, <3>1, <3>2 DEF IsOwn
  <2>7. \A p \in Pairs : p[1] \in Calls /\ p[2] \in Slot
    BY DEF Pairs
  <2>8. SameRuns(req, n, own, ours)
    BY <2>4, <2>5, <2>6, <2>7 DEF SameRuns, Items
  <2>9. IsSum(req, n, ver[d][n], ours)
    BY <2>3, <2>8, SameSum
  <2> QED
    BY <1>2, <1>9, <2>9 DEF ours
<1>10. RowsAreSums'
  BY <1>1, <1>8 DEF RowsAreSums, more
<1>11. VersAreSums'
  BY <1>1, <1>3, <1>4, <1>9 DEF VersAreSums, more, later
<1>12. HeldOnce'
  BY <1>3, <1>4 DEF Summed, HeldOnce
<1>13. NonePending'
  BY <1>2 DEF Summed, NonePending, later
<1> QED
  BY <1>10, <1>11, <1>12, <1>13 DEF Summed

LEMMA NextSummed == ASSUME Placed, Summed, [Next]_vars PROVE Summed'
<1>1. ASSUME NEW c \in Calls, Go(c) \/ Expire(c) \/ Lose(c) PROVE Summed'
  <2>1. UNCHANGED <<req, rows, applied, pend, ver>>
        /\ (UNCHANGED tx \/ tx' = [tx EXCEPT ![c] = "open"])
    <3>1. CASE Begin(c) \/ Try(c) \/ Sleep(c) \/ Receive(c)
      BY <3>1 DEF Begin, Try, Sleep, Receive, dbVars
    <3>2. CASE BeginTx(c) \/ SkipItem(c) \/ Commit(c)
      BY <3>2 DEF BeginTx, SkipItem, Commit, dbVars
    <3>3. CASE Committed(c) \/ PageRows(c) \/ Expire(c) \/ Lose(c)
      BY <3>3 DEF Committed, PageRows, Expire, Lose, dbVars
    <3> QED
      BY <1>1, <3>1, <3>2, <3>3 DEF Go
  <2>2. \A d \in Calls : tx'[d] = tx[d] \/ tx'[d] = "open"
    BY <2>1 DEF Placed, TypeOK
  <2> QED
    BY <2>1, <2>2, QuietSummed DEF Placed
<1>2. ASSUME NEW c \in Calls, NEW i \in 0 .. Tries - 1, DbRun(c, i) PROVE Summed'
  <2>1. <<c, i>> \in flight /\ UNCHANGED <<req, tx, pend, ver>>
    BY <1>2 DEF DbRun
  <2>2. CASE UNCHANGED <<rows, applied>>
    BY <2>1, <2>2, QuietSummed DEF Placed
  <2>3. CASE ~UNCHANGED <<rows, applied>>
    <3>1. /\ Op(c) = "update" /\ ~Locked(Items(c)[1].id, c)
          /\ rows' = Written(rows, Items(c)[1]) /\ applied' = [applied EXCEPT ![c][1] = @ + 1]
      BY <1>2, <2>3 DEF DbRun
    <3> QED
      BY <2>1, <3>1, RunSummed
  <2> QED
    BY <2>2, <2>3
<1>3. ASSUME NEW c \in Calls, DbStatement(c) PROVE Summed'
  <2>1. pc[c] = "sent" /\ Op(c) = "batch" /\ UNCHANGED <<req, rows, applied>>
    BY <1>3 DEF DbStatement
  <2>2. CASE EndTx(c, "aborted")
    BY <2>1, <2>2, UndoSummed
  <2>3. CASE ~EndTx(c, "aborted")
    <3>1. /\ tx[c] = "open" /\ ~Locked(Items(c)[At(c)].id, c) /\ UNCHANGED tx
          /\ pend' = [pend EXCEPT ![c][At(c)] = @ + 1]
          /\ ver' = [ver EXCEPT ![c][Items(c)[At(c)].id] =
                       Upsert(Seen(c, Items(c)[At(c)].id), Items(c)[At(c)])]
      BY <1>3, <2>3 DEF DbStatement
    <3> QED
      BY <2>1, <3>1, StatementSummed
  <2> QED
    BY <2>2, <2>3
<1>4. ASSUME NEW c \in Calls, DbUndo(c) PROVE Summed'
  <2>1. EndTx(c, "ended") /\ UNCHANGED <<req, rows, applied>>
    BY <1>4 DEF DbUndo
  <2> QED
    BY <2>1, UndoSummed
<1>5. CASE Kill \/ UNCHANGED vars
  <2>1. UNCHANGED <<req, rows, applied, pend, ver, tx>>
    BY <1>5 DEF Kill, vars, dbVars
  <2> QED
    BY <2>1, QuietSummed DEF Placed
<1> QED
  BY <1>1, <1>2, <1>3, <1>4, <1>5, CommitSummed DEF Next, Database

(* A counter in the table is the sum of all that was committed for it, with   *)
(* each number as often as its statement was run, tries whose answers were     *)
(* lost included: whatever is retried, undone, or run late by the database.    *)
THEOREM CounterIsSumInvariant == Spec => []CounterIsSum
<1>1. Init => Placed /\ Summed
  BY InitPlaced, InitSummed
<1>2. Placed /\ Summed /\ [Next]_vars => Placed' /\ Summed'
  BY NextPlaced, NextSummed
<1>3. Placed /\ Summed => CounterIsSum
  <2>1. SUFFICES ASSUME Summed, NEW n \in Names, rows[n] # NoRow
                 PROVE  LET counts == {p \in For(n) : ItemOf(p).mtype = "counter"}
                            parts  == [p \in counts |-> applied[p[1]][p[2]] * ItemOf(p).num]
                        IN  IF rows[n].delta = Nil
                            THEN \E p \in For(n) :
                                   ItemOf(p).mtype = "gauge" \/ ItemOf(p).num = Nil
                            ELSE /\ \A p \in counts : ItemOf(p).num # Nil
                                 /\ rows[n].delta = SumFunction(parts)
    BY DEF CounterIsSum
  <2> DEFINE counts == {p \in For(n) : ItemOf(p).mtype = "counter"}
             parts  == [p \in counts |-> applied[p[1]][p[2]] * ItemOf(p).num]
  <2>2. For(n) = ForOf(req, n, applied)
    BY DEF For, ForOf, Pairs, Slot, Items
  <2>3. \A p : ItemOf(p) = ItemIn(req, p)
    BY DEF ItemOf, ItemIn, Items
  <2>4. counts = CountsOf(req, n, applied) /\ parts = PartsOf(req, n, applied)
    BY <2>2, <2>3 DEF CountsOf, PartsOf
  <2>5. SumFunction(parts) = SumFunctionOnSet(parts, counts)
    BY DEF SumFunction
  <2>6. IsSum(req, n, rows[n], applied)
    BY <2>1 DEF Summed, RowsAreSums
  <2> HIDE DEF counts, parts
  <2>7. rows[n].delta # Nil => /\ \A p \in counts : ItemOf(p).num # Nil
                               /\ rows[n].delta = SumFunction(parts)
    BY <2>1, <2>3, <2>4, <2>5, <2>6 DEF IsSum
  <2>8. rows[n].delta = Nil =>
          \E p \in For(n) : ItemOf(p).mtype = "gauge" \/ ItemOf(p).num = Nil
    BY <2>1, <2>2, <2>3, <2>6 DEF IsSum
  <2> QED
    BY <2>7, <2>8 DEF counts, parts
<1> QED
  BY <1>1, <1>2, <1>3, PTL DEF Spec

==============================================================================
