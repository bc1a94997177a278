------------------------------ MODULE PgStorage ------------------------------
(***************************************************************************)
(* The storage in PostgreSQL (internal/storage/pgstorage.go): the calls of *)
(* the handlers, Retry, and the one transaction of a batch, against a      *)
(* database that answers late, fails a statement, or is lost on the way.   *)
(*                                                                         *)
(*   - every statement is tried up to three times, and a lost answer looks *)
(*     like a lost statement: a counter may be added to again;             *)
(*   - the context of a call ends after three seconds, while Retry sleeps  *)
(*     one, three and five;                                                *)
(*   - Begin and Commit have no context, and the statements of a batch     *)
(*     have: a batch whose context has ended is committed as far as it got *)
(*                                                                         *)
(* The database is external.  It runs the statements one by one, keeps a   *)
(* lock on what a transaction has written, undoes all of a transaction in  *)
(* which a statement failed, and may run a statement nobody waits for any  *)
(* longer.  Gauges and counters are numbers, NULL is Nil.                  *)
(***************************************************************************)
EXTENDS Integers, Sequences, FiniteSets, Functions

CONSTANTS
  Calls,     (* the calls of the storage, one for each request                  *)
  Names,     (* names of metrics                                                *)
  Nums,      (* the numbers that are sent                                       *)
  Nil,       (* no number, and NULL                                             *)
  MaxItems,  (* the metrics of a batch                                          *)
  Input,     (* what is called: a subset of Call                                *)
  Tries,     (* how often Retry tries (3 in the code)                           *)
  Timeout    (* the seconds a call has (3 in the code)                          *)

Types == {"gauge", "counter", "other"}
Item  == [id : Names, mtype : Types, num : Nums \union {Nil}]
Ops   == {"update", "batch", "get", "page"}
Call  == [op : Ops, items : Seq(Item)]

ASSUME PgAssumption ==
  /\ Nums \subseteq Nat /\ Nil \notin Nat
  /\ {MaxItems, Tries, Timeout} \subseteq Nat \ {0}
  /\ Input \subseteq Call
  /\ \A c \in Input : /\ Len(c.items) <= MaxItems
                      /\ c.op \in {"update", "get"} => Len(c.items) = 1

(* The first two delays, one and three seconds, use up those of a call.       *)
ASSUME TimeoutAssumption == Timeout <= 4

NoRow   == <<>>
Row     == [mtype : {"gauge", "counter"}, delta : Nat \union {Nil}, value : Nums \union {Nil}]
NoRows  == [n \in Names |-> NoRow]
Nothing == [k \in 1 .. MaxItems |-> 0]

VARIABLES
  req,      (* what each call is                                                *)
  pc,       (* where it is                                                      *)
  idx,      (* the items of a batch that are behind it                          *)
  try,      (* i of Retry                                                       *)
  slept,    (* the seconds it has slept                                         *)
  expired,  (* its context is done                                              *)
  errs,     (* an item of the batch has failed                                  *)
  outcome,  (* what it returned                                                 *)
  rows,     (* the table metrics, as committed                                  *)
  flight,   (* statements outside of transactions on their way                  *)
  ans,      (* the answer on its way to a call                                  *)
  tx,       (* the transaction of a batch                                       *)
  pend,     (* how often its transaction has written each item                  *)
  ver,      (* the rows as the transaction has written them                     *)
  gone,     (* the batches that have lost their connection                      *)
  asked,    (* the batches that have sent COMMIT                                *)
  snap,     (* the table as a call that reads has got it                        *)
  page,     (* the names on the page GetMetrics returned                        *)
  killed,   (* the server has been killed and started again                     *)
  applied   (* history: how often each item has been committed                  *)

goVars == <<idx, try, slept, expired, errs, outcome>>
dbVars == <<rows, flight, ans, tx, pend, ver, gone, asked, snap, applied>>
vars   == <<req, pc, goVars, dbVars, page, killed>>

Items(c) == req[c].items
Op(c)    == req[c].op
Places   == {"new", "begin", "try", "sent", "sleep", "committing", "rows", "ret", "dead"}
Active   == Places \ {"new", "ret", "dead"}

(* The item a call is at.                                                     *)
At(c) == IF Op(c) = "batch" THEN idx[c] + 1 ELSE 1

-------------------------------------------------------------------------------
Init ==
  /\ req \in [Calls -> Input]
  /\ pc = [c \in Calls |-> "new"]
  /\ idx = [c \in Calls |-> 0] /\ try = [c \in Calls |-> 0] /\ slept = [c \in Calls |-> 0]
  /\ expired = {} /\ errs = {}
  /\ outcome = [c \in Calls |-> "none"]
  /\ rows = NoRows
  /\ flight = {}
  /\ ans = [c \in Calls |-> "none"]
  /\ tx = [c \in Calls |-> "none"]
  /\ pend = [c \in Calls |-> Nothing]
  /\ ver = [c \in Calls |-> NoRows]
  /\ gone = {} /\ asked = {}
  /\ snap = [c \in Calls |-> <<>>]
  /\ page = [c \in Calls |-> {}]
  /\ killed = FALSE
  /\ applied = [c \in Calls |-> Nothing]

Goto(c, place) == pc' = [pc EXCEPT ![c] = place]

Return(c, what) == Goto(c, "ret") /\ outcome' = [outcome EXCEPT ![c] = what]

(* A call comes in: a type that is not known is refused, but in a batch.      *)
Begin(c) ==
  /\ pc[c] = "new"
  /\ \/ /\ Op(c) = "batch" /\ Goto(c, "begin") /\ UNCHANGED outcome
     \/ /\ Op(c) = "update" /\ Items(c)[1].mtype = "other" /\ Return(c, "error")
     \/ /\ Op(c) = "update" => Items(c)[1].mtype # "other"
        /\ Op(c) # "batch" /\ Goto(c, "try") /\ UNCHANGED outcome
  /\ UNCHANGED <<req, idx, try, slept, expired, errs, dbVars, page, killed>>

(* The three seconds are over, or the client has gone, while the context is   *)
(* still of use: COMMIT has none, and the walk over the rows ends anywhere.   *)
Expire(c) ==
  /\ pc[c] \in Active \ {"committing", "rows"} /\ c \notin expired
  /\ expired' = expired \union {c}
  /\ UNCHANGED <<req, pc, idx, try, slept, errs, outcome, dbVars, page, killed>>

-------------------------------------------------------------------------------
(* Retry.                                                                     *)

(* Mutants: the delay does not grow; it is off by a sign.                     *)
DelayFixed(i) == 1
DelayMinus(i) == i * 2 - 1

Delay(i) == i * 2 + 1

(* Mutant: the statement is given no context.                                 *)
TryAnyway(c) ==
  /\ pc[c] = "try"
  /\ Op(c) = "batch" => idx[c] < Len(Items(c)) /\ Items(c)[At(c)].mtype # "other"
  /\ \/ c \in gone /\ Goto(c, "sleep") /\ UNCHANGED flight
     \/ /\ c \notin gone
        /\ Goto(c, "sent")
        /\ flight' = IF Op(c) = "batch" THEN flight ELSE flight \union {<<c, try[c]>>}
  /\ UNCHANGED <<req, goVars, rows, ans, tx, pend, ver, gone, asked, snap, applied, page, killed>>

(* One try: a context that is done, or a transaction without its connection,  *)
(* fails it before anything is sent.                                          *)
Try(c) ==
  /\ pc[c] = "try"
  /\ Op(c) = "batch" => idx[c] < Len(Items(c)) /\ Items(c)[At(c)].mtype # "other"
  /\ \/ c \in expired \union gone /\ Goto(c, "sleep") /\ UNCHANGED flight
     \/ /\ c \notin expired \union gone
        /\ Goto(c, "sent")
        /\ flight' = IF Op(c) = "batch" THEN flight ELSE flight \union {<<c, try[c]>>}
  /\ UNCHANGED <<req, goVars, rows, ans, tx, pend, ver, gone, asked, snap, applied, page, killed>>

(* The function returned nil, and so does Retry.                              *)
Succeed(c) ==
  /\ try' = [try EXCEPT ![c] = 0]
  /\ \/ /\ Op(c) = "batch"
        /\ Goto(c, "try") /\ idx' = [idx EXCEPT ![c] = @ + 1] /\ UNCHANGED outcome
     \/ Op(c) \in {"update", "get"} /\ Return(c, "ok") /\ UNCHANGED idx
     \/ Op(c) = "page" /\ Goto(c, "rows") /\ UNCHANGED <<idx, outcome>>

(* Mutants: the last error is forgotten; there is no last try.                *)
GiveUpOk(c) ==
  /\ try' = [try EXCEPT ![c] = 0]
  /\ IF Op(c) = "batch"
     THEN Goto(c, "try") /\ idx' = [idx EXCEPT ![c] = @ + 1] /\ UNCHANGED <<outcome, errs>>
     ELSE Return(c, "ok") /\ UNCHANGED <<idx, errs>>

GiveUpNever(c) ==
  Goto(c, "try") /\ try' = [try EXCEPT ![c] = 0] /\ UNCHANGED <<idx, errs, outcome>>

(* Retry returns an error: the call fails, a batch goes on.                   *)
GiveUp(c) ==
  /\ try' = [try EXCEPT ![c] = 0]
  /\ IF Op(c) = "batch"
     THEN /\ Goto(c, "try") /\ idx' = [idx EXCEPT ![c] = @ + 1]
          /\ errs' = errs \union {c} /\ UNCHANGED outcome
     ELSE Return(c, "error") /\ UNCHANGED <<idx, errs>>

(* After each try that failed, the last one too, it sleeps; the context ends  *)
(* meanwhile when there are no more seconds.                                  *)
Sleep(c) ==
  /\ pc[c] = "sleep"
  /\ LET s == slept[c] + Delay(try[c])
     IN  /\ slept' = [slept EXCEPT ![c] = IF s > Timeout THEN Timeout ELSE s]
         /\ expired' = IF s >= Timeout THEN expired \union {c} ELSE expired
  /\ IF try[c] + 1 < Tries
     THEN /\ try' = [try EXCEPT ![c] = @ + 1]
          /\ Goto(c, "try") /\ UNCHANGED <<idx, errs, outcome>>
     ELSE GiveUp(c)
  /\ UNCHANGED <<req, dbVars, page, killed>>

(* The answer arrives; a get that finds no row has failed.                    *)
Receive(c) ==
  /\ pc[c] = "sent" /\ ans[c] \in {"ok", "failed"}
  /\ IF ans[c] = "ok" /\ ~(Op(c) = "get" /\ snap[c][Items(c)[1].id] = NoRow)
     THEN Succeed(c)
     ELSE Goto(c, "sleep") /\ UNCHANGED <<idx, try, outcome>>
  /\ ans' = [ans EXCEPT ![c] = "none"]
  /\ UNCHANGED <<req, slept, expired, errs, rows, flight, tx, pend, ver, gone, asked, snap,
                 applied, page, killed>>

(* The connection is lost, or the context ends while the call waits: whether  *)
(* the statement runs is not known.  A context that ends just when the row is *)
(* read leaves a transaction its connection.                                  *)
Lose(c) ==
  /\ pc[c] \in {"sent", "committing"}
  /\ IF pc[c] = "sent" THEN Goto(c, "sleep") /\ UNCHANGED outcome ELSE Return(c, "error")
  /\ IF Op(c) = "batch"
     THEN \/ gone' = gone \union {c}
          \/ pc[c] = "sent" /\ c \in expired /\ ans[c] = "ok" /\ UNCHANGED gone
     ELSE UNCHANGED gone
  /\ ans' = [ans EXCEPT ![c] = "none"]
  /\ UNCHANGED <<req, idx, try, slept, expired, errs, rows, flight, tx, pend, ver, asked, snap,
                 applied, page, killed>>

-------------------------------------------------------------------------------
(* A batch: its transaction, its items, its COMMIT.                           *)

(* Begin, which has no context, and the statements it prepares.               *)
BeginTx(c) ==
  /\ pc[c] = "begin"
  /\ \/ Return(c, "error") /\ UNCHANGED tx
     \/ /\ c \notin expired
        /\ tx' = [tx EXCEPT ![c] = "open"] /\ Goto(c, "try") /\ UNCHANGED outcome
  /\ UNCHANGED <<req, idx, try, slept, expired, errs, rows, flight, ans, pend, ver, gone, asked,
                 snap, applied, page, killed>>

(* An item of a type that is not known is an error, and the next one follows. *)
SkipItem(c) ==
  /\ pc[c] = "try" /\ Op(c) = "batch" /\ idx[c] < Len(Items(c))
  /\ Items(c)[At(c)].mtype = "other"
  /\ idx' = [idx EXCEPT ![c] = @ + 1]
  /\ errs' = errs \union {c}
  /\ UNCHANGED <<req, pc, try, slept, expired, outcome, dbVars, page, killed>>

(* COMMIT is sent whatever has failed.                                        *)
Commit(c) ==
  /\ pc[c] = "try" /\ Op(c) = "batch" /\ idx[c] = Len(Items(c))
  /\ IF c \in gone
     THEN Return(c, "error") /\ UNCHANGED asked
     ELSE /\ Goto(c, "committing") /\ UNCHANGED outcome
          /\ asked' = asked \union {c}
  /\ UNCHANGED <<req, idx, try, slept, expired, errs, rows, flight, ans, tx, pend, ver, gone, snap,
                 applied, page, killed>>

(* Mutant: only the error of Commit counts.                                   *)
JoinedCommit(c) == IF ans[c] = "ok" THEN "ok" ELSE "error"

(* errors.Join: one error is enough.                                          *)
Joined(c) == IF ans[c] = "ok" /\ c \notin errs THEN "ok" ELSE "error"

Committed(c) ==
  /\ pc[c] = "committing" /\ ans[c] \in {"ok", "failed"}
  /\ Return(c, Joined(c))
  /\ UNCHANGED <<req, idx, try, slept, expired, errs, dbVars, page, killed>>

-------------------------------------------------------------------------------
(* GetMetrics walks the rows, leaving out those without a number; the walk    *)
(* ends early, and without an error, when the connection or the context does. *)
HasNumber(row) ==
  row # NoRow /\ (IF row.mtype = "gauge" THEN row.value # Nil ELSE row.delta # Nil)

Listed(c) == {n \in Names : HasNumber(snap[c][n])}

PageRows(c) ==
  /\ pc[c] = "rows"
  /\ \E S \in SUBSET Listed(c) : page' = [page EXCEPT ![c] = S]
  /\ Return(c, "ok")
  /\ UNCHANGED <<req, idx, try, slept, expired, errs, dbVars, killed>>

-------------------------------------------------------------------------------
(* The database.                                                              *)

Sum(m, n) == IF m = Nil \/ n = Nil THEN Nil ELSE m + n

(* Mutant: the number replaces the counter.                                   *)
UpsertReplaces(row, item) ==
  IF item.mtype = "gauge"
  THEN IF row = NoRow THEN [mtype |-> "gauge", delta |-> Nil, value |-> item.num]
                      ELSE [row EXCEPT !.value = item.num]
  ELSE IF row = NoRow THEN [mtype |-> "counter", delta |-> item.num, value |-> Nil]
                      ELSE [row EXCEPT !.delta = item.num]

(* INSERT .. ON CONFLICT (id) DO UPDATE: the type of a row stays, NULL plus a *)
(* number is NULL.                                                            *)
Upsert(row, item) ==
  IF item.mtype = "gauge"
  THEN IF row = NoRow THEN [mtype |-> "gauge", delta |-> Nil, value |-> item.num]
                      ELSE [row EXCEPT !.value = item.num]
  ELSE IF row = NoRow THEN [mtype |-> "counter", delta |-> item.num, value |-> Nil]
                      ELSE [row EXCEPT !.delta = Sum(item.num, @)]

Written(table, item) == [table EXCEPT ![item.id] = Upsert(@, item)]

(* The transaction of a call has written the row of this name: it sees what it *)
(* has written, and nobody else writes it before it ends.                     *)
Holds(c, n) == tx[c] = "open" /\ \E k \in DOMAIN Items(c) : pend[c][k] > 0 /\ Items(c)[k].id = n

Locked(n, c) == \E d \in Calls \ {c} : Holds(d, n)

Seen(c, n) == IF Holds(c, n) THEN ver[c][n] ELSE rows[n]

Waits(c, i) == pc[c] = "sent" /\ try[c] = i

Answer(c, i, what) == ans' = IF Waits(c, i) THEN [ans EXCEPT ![c] = what] ELSE ans

(* A statement outside of a transaction: it is run, or fails.                 *)
DbRun(c, i) ==
  /\ <<c, i>> \in flight
  /\ flight' = flight \ {<<c, i>>}
  /\ \/ /\ Op(c) = "update" /\ ~Locked(Items(c)[1].id, c)
        /\ rows' = Written(rows, Items(c)[1])
        /\ applied' = [applied EXCEPT ![c][1] = @ + 1]
        /\ Answer(c, i, "ok") /\ UNCHANGED snap
     \/ /\ Op(c) \in {"get", "page"}
        /\ snap' = IF Waits(c, i) THEN [snap EXCEPT ![c] = rows] ELSE snap
        /\ Answer(c, i, "ok") /\ UNCHANGED <<rows, applied>>
     \/ Answer(c, i, "failed") /\ UNCHANGED <<rows, applied, snap>>
  /\ UNCHANGED <<req, pc, goVars, tx, pend, ver, gone, asked, page, killed>>

(* Mutant: the statement of a batch is committed at once.                     *)
DbStatementAlone(c) ==
  /\ pc[c] = "sent" /\ Op(c) = "batch" /\ ans[c] = "none"
  /\ \/ /\ ~Locked(Items(c)[At(c)].id, c)
        /\ rows' = Written(rows, Items(c)[At(c)])
        /\ applied' = [applied EXCEPT ![c][At(c)] = @ + 1]
        /\ ans' = [ans EXCEPT ![c] = "ok"]
     \/ ans' = [ans EXCEPT ![c] = "failed"] /\ UNCHANGED <<rows, applied>>
  /\ UNCHANGED <<req, pc, goVars, tx, pend, ver, flight, gone, asked, snap, page, killed>>

(* The transaction is over, or waits for a COMMIT that will not be one: what   *)
(* it has written is with it no longer.                                       *)
EndTx(c, how) ==
  /\ tx' = [tx EXCEPT ![c] = how]
  /\ pend' = [pend EXCEPT ![c] = Nothing]
  /\ ver' = [ver EXCEPT ![c] = NoRows]

(* A statement of a transaction.  A failure, as that of the one chosen in a   *)
(* deadlock, undoes the transaction, whose later statements fail.             *)
DbStatement(c) ==
  /\ pc[c] = "sent" /\ Op(c) = "batch" /\ ans[c] = "none"
  /\ LET item == Items(c)[At(c)] IN
       \/ /\ tx[c] = "open" /\ ~Locked(item.id, c)
          /\ pend' = [pend EXCEPT ![c][At(c)] = @ + 1]
          /\ ver' = [ver EXCEPT ![c][item.id] = Upsert(Seen(c, item.id), item)]
          /\ ans' = [ans EXCEPT ![c] = "ok"] /\ UNCHANGED tx
       \/ EndTx(c, "aborted") /\ ans' = [ans EXCEPT ![c] = "failed"]
  /\ UNCHANGED <<req, pc, goVars, rows, flight, gone, asked, snap, applied, page, killed>>

(* COMMIT of a transaction in which a statement failed undoes it, and is an   *)
(* error.  The answer may find nobody.                                        *)
DbCommit(c) ==
  /\ c \in asked /\ tx[c] \in {"open", "aborted"}
  /\ EndTx(c, "ended")
  /\ ans' = IF pc[c] # "committing" THEN ans
            ELSE [ans EXCEPT ![c] = IF tx[c] = "open" THEN "ok" ELSE "failed"]
  /\ rows' = [n \in Names |-> Seen(c, n)]
  /\ applied' = [applied EXCEPT ![c] = [k \in 1 .. MaxItems |-> @[k] + pend[c][k]]]
  /\ UNCHANGED <<req, pc, goVars, flight, gone, asked, snap, page, killed>>

(* A transaction without its connection is undone.                            *)
DbUndo(c) ==
  /\ c \in gone /\ tx[c] \in {"open", "aborted"}
  /\ EndTx(c, "ended")
  /\ UNCHANGED <<req, pc, goVars, rows, flight, ans, gone, asked, snap, applied, page, killed>>

(* The server is killed, or exits because its handlers do not end in time;    *)
(* its calls are no more, and what they have sent may still be run.           *)
Kill ==
  /\ ~killed /\ killed' = TRUE
  /\ pc' = [c \in Calls |-> IF pc[c] \in Active THEN "dead" ELSE pc[c]]
  /\ gone' = gone \union {c \in Calls : pc[c] \in Active /\ Op(c) = "batch"}
  /\ idx' = [c \in Calls |-> 0] /\ try' = idx' /\ slept' = idx'
  /\ ans' = [c \in Calls |-> "none"]
  /\ UNCHANGED <<req, expired, errs, outcome, rows, flight, tx, pend, ver, asked, snap, applied,
                 page>>

-------------------------------------------------------------------------------
Go(c) ==
  \/ Begin(c) \/ Try(c) \/ Sleep(c) \/ Receive(c)
  \/ BeginTx(c) \/ SkipItem(c) \/ Commit(c) \/ Committed(c) \/ PageRows(c)

Database(c) ==
  \/ \E i \in 0 .. Tries - 1 : DbRun(c, i)
  \/ DbStatement(c) \/ DbCommit(c) \/ DbUndo(c)

Next == \/ \E c \in Calls : Go(c) \/ Expire(c) \/ Lose(c) \/ Database(c)
        \/ Kill

Spec == Init /\ [][Next]_vars

(* The steps of a goroutine, and its timer, come, and who waits for a         *)
(* statement stops when the context ends.  Nothing is asked of the database:  *)
(* Begin and COMMIT, which have no context, may wait for it for ever.         *)
Fairness ==
  \A c \in Calls :
    /\ WF_vars(pc[c] \notin {"new", "begin"} /\ Go(c))
    /\ WF_vars(Expire(c))
    /\ WF_vars(c \in expired /\ pc[c] = "sent" /\ Lose(c))

FairSpec == Spec /\ Fairness

-------------------------------------------------------------------------------
(* Properties.                                                               *)

TypeOK ==
  /\ req \in [Calls -> Input]
  /\ pc \in [Calls -> Places]
  /\ idx \in [Calls -> 0 .. MaxItems]
  /\ try \in [Calls -> 0 .. Tries - 1] /\ slept \in [Calls -> 0 .. Timeout]
  /\ {expired, errs, gone, asked} \subseteq SUBSET Calls
  /\ outcome \in [Calls -> {"none", "ok", "error"}]
  /\ rows \in [Names -> Row \union {NoRow}]
  /\ flight \subseteq Calls \X (0 .. Tries - 1)
  /\ ans \in [Calls -> {"none", "ok", "failed"}]
  /\ tx \in [Calls -> {"none", "open", "aborted", "ended"}]
  /\ pend \in [Calls -> [1 .. MaxItems -> Nat]]
  /\ ver \in [Calls -> [Names -> Row \union {NoRow}]]
  /\ snap \in [Calls -> [Names -> Row \union {NoRow}] \union {<<>>}]
  /\ page \in [Calls -> SUBSET Names]
  /\ killed \in BOOLEAN
  /\ applied \in [Calls -> [1 .. MaxItems -> Nat]]

(* What has been committed for the name n: calls and their items.             *)
For(n) ==
  {p \in Calls \X (1 .. MaxItems) :
     /\ p[2] <= Len(Items(p[1])) /\ Items(p[1])[p[2]].id = n /\ applied[p[1]][p[2]] > 0}
ItemOf(p) == Items(p[1])[p[2]]

(* A row that has a delta is the sum of all that was committed for it, each   *)
(* as often as it was run; one that has none was made so: by a gauge, or by a *)
(* counter without a number.                                                  *)
CounterIsSum ==
  \A n \in Names : rows[n] # NoRow =>
    LET counts == {p \in For(n) : ItemOf(p).mtype = "counter"}
        parts  == [p \in counts |-> applied[p[1]][p[2]] * ItemOf(p).num]
    IN  IF rows[n].delta = Nil
        THEN \E p \in For(n) : ItemOf(p).mtype = "gauge" \/ ItemOf(p).num = Nil
        ELSE /\ \A p \in counts : ItemOf(p).num # Nil
             /\ rows[n].delta = SumFunction(parts)

(* An update is committed twice at most: Retry has three tries, but sleeps    *)
(* the seconds of the third away.                                             *)
UpdatedAtMostTwice == \A c \in Calls : Op(c) = "update" => applied[c][1] <= 2

(* What a caller is told was done has been: the items of a batch once, that   *)
(* of an update once at least.                                                *)
OkIsCommitted ==
  \A c \in Calls : outcome[c] = "ok" =>
    /\ Op(c) = "update" => applied[c][1] >= 1
    /\ Op(c) = "batch" => \A k \in DOMAIN Items(c) : applied[c][k] = 1

(* Known to the statement, that is.                                           *)
Known(c) == {k \in DOMAIN Items(c) : Items(c)[k].mtype # "other"}

(* A batch is committed once, and up to some item: none is left out before    *)
(* one that is there, but those of types that are not known.                  *)
BatchPrefix ==
  \A c \in Calls : Op(c) = "batch" =>
    /\ \A k \in DOMAIN Items(c) : applied[c][k] <= 1
    /\ \A j, k \in Known(c) : j < k => applied[c][k] <= applied[c][j]

(* All of it or nothing, as long as its context has not ended: whatever fails *)
(* in the database, on the way or in the server.                              *)
BatchWhole ==
  \A c \in Calls : Op(c) = "batch" /\ c \notin expired =>
    \A j, k \in Known(c) : applied[c][j] = applied[c][k]

(* The page has all metrics the table had.                                    *)
PageHasAll ==
  \A c \in Calls : Op(c) = "page" /\ outcome[c] = "ok" => page[c] = Listed(c)

(* What MetricStore promises, with an update that may take effect twice.      *)
Taking(c) == IF Op(c) \in {"update", "batch"} THEN Known(c) ELSE {}

Promise == INSTANCE MetricStore WITH
  call   <- [c \in Calls |->
               [items    |-> Taking(c),
                times    |-> IF Op(c) = "update" THEN 2 ELSE 1,
                complete |-> Known(c) = DOMAIN Items(c) \/ Op(c) \in {"get", "page"}]],
  effect <- [c \in Calls |-> [k \in Taking(c) |-> applied[c][k]]],
  answer <- outcome

(* The storage in PostgreSQL is a MetricStore: step by step, whatever is      *)
(* lost, undone, tried again or run late.                                     *)
StoreSpec == Promise!Spec

(* Every call returns, though the database may say nothing at all, but for a  *)
(* batch that waits for ever in Begin or in Commit: neither a statement, nor  *)
(* a row another batch has locked, nor Retry can keep a handler.              *)
Unlimited == {"begin", "committing"}

CallsReturn == \A c \in Calls : <>[](pc[c] \notin Active \ Unlimited)
==============================================================================
