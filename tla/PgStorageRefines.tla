--------------------------- MODULE PgStorageRefines ---------------------------
(***************************************************************************)
(* The storage in PostgreSQL is a MetricStore: each of its steps is a step *)
(* of it, or changes nothing it knows of.                                  *)
(***************************************************************************)
EXTENDS PgStorageProofs

Settled == Counted /\ Batched /\ UpdatedAtMostTwice

THEOREM SettledInvariant == Spec => []Settled
<1>1. Counted /\ Batched /\ UpdatedAtMostTwice => Settled
  BY DEF Settled
<1> QED
  BY <1>1, CountedInvariant, BatchedInvariant, UpdatedAtMostTwiceInvariant, PTL

LEMMA TakingType ==
  ASSUME Placed, NEW c \in Calls
  PROVE  /\ Taking(c) \in SUBSET (Nat \ {0}) /\ Taking(c) \subseteq Slot
         /\ Op(c) = "update" => Taking(c) = IF Items(c)[1].mtype # "other" THEN {1} ELSE {}
         /\ Op(c) = "batch" => Taking(c) = Known(c)
         /\ Op(c) \in {"get", "page"} => Taking(c) = {}
<1>1. Known(c) \subseteq DOMAIN Items(c) /\ DOMAIN Items(c) \subseteq Slot /\ Slot \subseteq Nat \ {0}
  BY BatchData
<1>2. Op(c) = "update" => DOMAIN Items(c) = {1}
  BY InputType DEF Placed, TypeOK
<1> QED
  BY <1>1, <1>2 DEF Taking, Known

-------------------------------------------------------------------------------
(* What a step is to MetricStore, by what it changes.                        *)

LEMMA CallTold ==
  ASSUME Settled, NEW c \in Calls, NEW what \in {"ok", "error"}, pc[c] # "ret",
         outcome' = [outcome EXCEPT ![c] = what], UNCHANGED <<req, applied>>,
         what = "ok" => /\ Known(c) = DOMAIN Items(c) \/ Op(c) \in {"get", "page"}
                        /\ \A k \in Taking(c) : applied[c][k] > 0
  PROVE  Promise!Next
<1> DEFINE effect(d) == [k \in Taking(d) |-> applied[d][k]]
<1>1. outcome[c] = "none" /\ outcome \in [Calls -> {"none", "ok", "error"}]
  BY DEF Settled, Counted, Placed, Place, PlaceOf, TypeOK
<1>2. \A d \in Calls : /\ Taking(d)' = Taking(d) /\ Known(d)' = Known(d)
                       /\ Items(d)' = Items(d) /\ Op(d)' = Op(d)
  BY DEF Taking, Known, Items, Op
<1>3. [d \in Calls |-> effect(d)]' = [d \in Calls |-> effect(d)]
  BY <1>2
<1>4. \A k \in Taking(c) : effect(c)[k] = applied[c][k]
  OBVIOUS
<1> HIDE DEF effect
<1>5. Promise!Tell(c, what)
  BY <1>1, <1>3, <1>4 DEF Promise!Tell, effect
<1>6. outcome' # outcome
  BY <1>1
<1> QED
  BY <1>2, <1>5, <1>6 DEF Promise!Next

(* A commit that writes the metrics P of a call for the first time.           *)
LEMMA CallTakesEffect ==
  ASSUME Settled, NEW c \in Calls, UNCHANGED <<req, outcome>>, outcome[c] # "ok",
         NEW P \in SUBSET Taking(c), P # {},
         \A j \in Taking(c), k \in P : j < k => j \in P,
         \A k \in Taking(c) : applied[c][k] = 0 /\ applied'[c][k] = IF k \in P THEN 1 ELSE 0,
         \A d \in Calls \ {c} : applied'[d] = applied[d]
  PROVE  Promise!Next
<1> DEFINE effect(d) == [k \in Taking(d) |-> applied[d][k]]
<1>1. outcome[c] \in {"none", "error"}
  BY DEF Settled, Counted, Placed, TypeOK
<1>2. \A d \in Calls : /\ Taking(d)' = Taking(d) /\ Known(d)' = Known(d)
                       /\ Items(d)' = Items(d) /\ Op(d)' = Op(d)
  BY DEF Taking, Known, Items, Op
<1>3. effect(c)' = [k \in Taking(c) |-> IF k \in P /\ effect(c)[k] = 0 THEN 1 ELSE effect(c)[k]]
  BY <1>2
<1>4. ASSUME NEW d \in Calls \ {c} PROVE effect(d)' = effect(d)
  BY <1>2
<1>5. [d \in Calls |-> effect(d)]' =
        [[d \in Calls |-> effect(d)] EXCEPT ![c] =
           [k \in Taking(c) |-> IF k \in P /\ @[k] = 0 THEN 1 ELSE @[k]]]
  <2> HIDE DEF effect
  <2>1. ASSUME NEW d \in Calls
        PROVE  effect(d)' = IF d = c
                            THEN [k \in Taking(c) |-> IF k \in P /\ effect(c)[k] = 0 THEN 1 ELSE effect(c)[k]]
                            ELSE effect(d)
    BY <1>3, <1>4
  <2> QED
    BY <2>1
<1>6. PICK k \in P : effect(c)[k] = 0 /\ effect(c)'[k] = 1
  BY <1>2
<1>7. [d \in Calls |-> effect(d)]' # [d \in Calls |-> effect(d)]
  <2> HIDE DEF effect
  <2>1. effect(c)' # effect(c)
    BY <1>6
  <2> QED
    BY <2>1
<1>8. Promise!FirstPart(Taking(c), P)
  BY DEF Promise!FirstPart
<1> HIDE DEF effect
<1>9. Promise!TakeEffect(c)
  BY <1>1, <1>5, <1>6, <1>8 DEF Promise!TakeEffect, effect
<1> QED
  BY <1>2, <1>7, <1>9 DEF Promise!Next, effect

(* An update that is run for the second time.                                 *)
LEMMA CallAgain ==
  ASSUME Settled, NEW c \in Calls, Op(c) = "update", 1 \in Taking(c), UNCHANGED <<req, outcome>>,
         applied[c][1] = 1, applied' = [applied EXCEPT ![c][1] = @ + 1]
  PROVE  Promise!Next
<1> DEFINE effect(d) == [k \in Taking(d) |-> applied[d][k]]
<1>1. \A d \in Calls : /\ Taking(d)' = Taking(d) /\ Known(d)' = Known(d)
                       /\ Items(d)' = Items(d) /\ Op(d)' = Op(d)
  BY DEF Taking, Known, Items, Op
<1>2. applied \in [Calls -> [Slot -> Nat]] /\ Taking(c) = {1} /\ 1 \in Slot
  BY CountType, TakingType DEF Settled, Counted
<1>3. applied'[c][1] = 2 /\ \A d \in Calls \ {c} : applied'[d] = applied[d]
  BY <1>2
<1>4. effect(c)[1] = 1 /\ effect(c)' = [effect(c) EXCEPT ![1] = @ + 1]
  BY <1>1, <1>2, <1>3
<1>5. ASSUME NEW d \in Calls \ {c} PROVE effect(d)' = effect(d)
  BY <1>1, <1>3
<1>6. [d \in Calls |-> effect(d)]' = [[d \in Calls |-> effect(d)] EXCEPT ![c][1] = @ + 1]
  <2> HIDE DEF effect
  <2>1. ASSUME NEW d \in Calls
        PROVE  effect(d)' = IF d = c THEN [effect(c) EXCEPT ![1] = effect(c)[1] + 1] ELSE effect(d)
    BY <1>4, <1>5
  <2> QED
    BY <2>1
<1>7. effect(c)'[1] = 2
  BY <1>1, <1>2, <1>3
<1>8. [d \in Calls |-> effect(d)]' # [d \in Calls |-> effect(d)]
  <2> HIDE DEF effect
  <2>1. effect(c)' # effect(c)
    BY <1>4, <1>7
  <2> QED
    BY <2>1
<1> HIDE DEF effect
<1>9. Promise!Again(c)
  <2>1. [d \in Calls |-> effect(d)][c][1] \in 1 .. [d \in Calls |-> IF Op(d) = "update" THEN 2 ELSE 1][c] - 1
    BY <1>4
  <2>2. [d \in Calls |-> effect(d)]' = [[d \in Calls |-> effect(d)] EXCEPT ![c][1] = [d \in Calls |-> effect(d)][c][1] + 1]
    BY <1>6
  <2> QED
    BY <2>1, <2>2 DEF Promise!Again, effect
<1> QED
  BY <1>1, <1>8, <1>9 DEF Promise!Next, effect

-------------------------------------------------------------------------------
(* Every step.                                                               *)

Silent == UNCHANGED <<req, outcome>> /\ \A c \in Calls : \A k \in Taking(c) : applied'[c][k] = applied[c][k]

LEMMA SilentStutters == ASSUME UNCHANGED <<req, outcome, applied>> PROVE Silent
BY DEF Silent

LEMMA ServerRefines ==
  ASSUME Settled, NEW c \in Calls, Go(c) \/ Expire(c) \/ Lose(c)
  PROVE  Promise!Next \/ Silent
<1>1. PlaceOf(c) /\ Placed
  BY DEF Settled, Counted, Placed, Place
<1>2. ASSUME UNCHANGED <<req, applied>>, outcome' = [outcome EXCEPT ![c] = "error"], pc[c] # "ret"
      PROVE  Promise!Next
  BY <1>2, CallTold
<1>3. CASE Begin(c)
  BY <1>2, <1>3, SilentStutters DEF Begin, Return, dbVars
<1>4. CASE Try(c) \/ SkipItem(c) \/ Expire(c)
  BY <1>4, SilentStutters DEF Try, SkipItem, Expire, goVars, dbVars
<1>5. CASE Sleep(c)
  <2>1. UNCHANGED <<req, applied>> /\ pc[c] = "sleep"
    BY <1>5 DEF Sleep, dbVars
  <2>2. \/ UNCHANGED outcome
        \/ outcome' = [outcome EXCEPT ![c] = "error"]
    BY <1>5 DEF Sleep, GiveUp, Return
  <2> QED
    BY <1>2, <2>1, <2>2, SilentStutters
<1>6. CASE Receive(c)
  <2>1. UNCHANGED <<req, applied>> /\ pc[c] = "sent"
    BY <1>6 DEF Receive
  <2>2. CASE UNCHANGED outcome
    BY <2>1, <2>2, SilentStutters
  <2>3. CASE /\ outcome' = [outcome EXCEPT ![c] = "ok"] /\ Op(c) \in {"update", "get"} /\ ans[c] = "ok"
    <3>1. CASE Op(c) = "get"
      <4>1. Taking(c) = {}
        BY <1>1, <3>1, TakingType
      <4> QED
        BY <2>1, <2>3, <3>1, <4>1, CallTold
    <3>2. CASE Op(c) = "update"
      <4>1. Taking(c) = {1} /\ DOMAIN Items(c) = {1}
        <5>1. Items(c)[1].mtype # "other"
          BY <1>1, <2>1, <3>2 DEF PlaceOf
        <5>2. req \in [Calls -> Input]
          BY <1>1 DEF Placed, TypeOK
        <5> QED
          BY <1>1, <3>2, <5>1, <5>2, TakingType, InputType
      <4>4. Known(c) = DOMAIN Items(c)
        BY <3>2, <4>1 DEF Taking
      <4>2. applied[c][1] >= 1 /\ applied[c][1] \in Nat
        BY <1>1, <2>3, <3>2, SentType DEF Settled, Counted, UpdateOf
      <4>3. applied[c][1] > 0
        BY <4>2
      <4> QED
        BY <2>1, <2>3, <4>1, <4>3, <4>4, CallTold
    <3> QED
      BY <2>3, <3>1, <3>2
  <2> QED
    BY <1>6, <2>2, <2>3 DEF Receive, Succeed, Return
<1>7. CASE BeginTx(c) \/ Commit(c)
  <2>1. UNCHANGED <<req, applied>> /\ pc[c] \in {"begin", "try"}
    BY <1>7 DEF BeginTx, Commit
  <2>2. \/ UNCHANGED outcome
        \/ outcome' = [outcome EXCEPT ![c] = "error"]
    BY <1>7 DEF BeginTx, Commit, Return
  <2> QED
    BY <1>2, <2>1, <2>2, SilentStutters
<1>8. CASE Committed(c)
  <2>1. UNCHANGED <<req, applied>> /\ pc[c] = "committing" /\ Op(c) = "batch"
    BY <1>1, <1>8 DEF Committed, dbVars, PlaceOf
  <2>2. CASE outcome' = [outcome EXCEPT ![c] = "error"]
    BY <1>2, <2>1, <2>2
  <2>3. CASE outcome' = [outcome EXCEPT ![c] = "ok"] /\ ans[c] = "ok" /\ c \notin errs
    <3>1. BatchOf(c)
      BY <2>1 DEF Settled, Batched
    <3>2. \A k \in DOMAIN Items(c) : applied[c][k] = 1
      BY <2>1, <2>3, <3>1 DEF BatchOf, NoError
    <3>3. DOMAIN Items(c) \subseteq Slot /\ Known(c) \subseteq DOMAIN Items(c) /\ Taking(c) = Known(c)
      BY <1>1, <2>1, BatchData, TakingType
    <3>4. Known(c) = DOMAIN Items(c)
      BY <3>1, <3>2, <3>3 DEF BatchOf, Once
    <3>5. \A k \in Taking(c) : applied[c][k] > 0
      BY <3>2, <3>3
    <3> QED
      BY <2>1, <2>3, <3>4, <3>5, CallTold
  <2> QED
    BY <1>8, <2>2, <2>3 DEF Committed, Joined, Return
<1>9. CASE PageRows(c)
  <2>1. /\ UNCHANGED <<req, applied>> /\ pc[c] = "rows" /\ Op(c) = "page"
        /\ outcome' = [outcome EXCEPT ![c] = "ok"]
    BY <1>1, <1>9 DEF PageRows, Return, dbVars, PlaceOf
  <2>2. Taking(c) = {}
    BY <1>1, <2>1, TakingType
  <2> QED
    BY <2>1, <2>2, CallTold
<1>10. CASE Lose(c)
  <2>1. UNCHANGED <<req, applied>> /\ pc[c] \in {"sent", "committing"}
    BY <1>10 DEF Lose
  <2>2. \/ UNCHANGED outcome
        \/ outcome' = [outcome EXCEPT ![c] = "error"]
    BY <1>10 DEF Lose, Return
  <2> QED
    BY <1>2, <2>1, <2>2, SilentStutters
<1> QED
  BY <1>3, <1>4, <1>5, <1>6, <1>7, <1>8, <1>9, <1>10 DEF Go

LEMMA RunRefines ==
  ASSUME Settled, Settled', NEW c \in Calls, NEW i \in 0 .. Tries - 1, DbRun(c, i)
  PROVE  Promise!Next \/ Silent
<1>1. UNCHANGED <<req, outcome>> /\ <<c, i>> \in flight /\ PlaceOf(c) /\ Placed
  BY DEF DbRun, goVars, Settled, Counted, Placed, Place
<1>2. CASE applied' = applied
  BY <1>1, <1>2, SilentStutters
<1>3. CASE Op(c) = "update" /\ applied' = [applied EXCEPT ![c][1] = @ + 1]
  <2>1. Taking(c) = {1}
    BY <1>1, <1>3, TakingType DEF PlaceOf
  <2>2. applied \in [Calls -> [Slot -> Nat]] /\ 1 \in Slot
    BY <1>1, <2>1, CountType, TakingType
  <2>3. applied'[c][1] = applied[c][1] + 1 /\ \A d \in Calls \ {c} : applied'[d] = applied[d]
    BY <1>3, <2>2
  <2>4. applied'[c][1] <= 2
    <3>1. Op(c)' = "update"
      BY <1>1, <1>3 DEF Op
    <3> QED
      BY <3>1 DEF Settled, UpdatedAtMostTwice
  <2>5. CASE applied[c][1] = 0
    <3>1. outcome[c] # "ok"
      BY <1>3, <2>5 DEF Settled, Counted, UpdateOf
    <3> QED
      BY <1>1, <2>1, <2>3, <2>5, <3>1, CallTakesEffect
  <2>6. CASE applied[c][1] = 1
    BY <1>1, <1>3, <2>1, <2>6, CallAgain
  <2> QED
    BY <2>2, <2>3, <2>4, <2>5, <2>6
<1> QED
  BY <1>2, <1>3 DEF DbRun

LEMMA CommitRefines ==
  ASSUME Settled, NEW c \in Calls, DbCommit(c) PROVE Promise!Next \/ Silent
<1>1. /\ UNCHANGED <<req, outcome>> /\ tx[c] \in {"open", "aborted"} /\ Placed
      /\ applied' = [applied EXCEPT ![c] = [k \in Slot |-> @[k] + pend[c][k]]]
  BY DEF DbCommit, goVars, Settled, Counted, Slot
<1>2. Op(c) = "batch" /\ BatchOf(c)
  BY <1>1 DEF Settled, Batched, Placed, Place, PlaceOf
<1>3. Taking(c) = Known(c) /\ Taking(c) \subseteq Slot
  BY <1>1, <1>2, TakingType
<1>4. \A k \in Slot : applied[c][k] = 0 /\ pend[c][k] \in {0, 1}
  BY <1>1, <1>2 DEF BatchOf, Once
<1>5. /\ \A k \in Slot : applied'[c][k] = pend[c][k]
      /\ \A d \in Calls \ {c} : applied'[d] = applied[d]
  BY <1>1, <1>4, CountType
<1> DEFINE P == {k \in Known(c) : pend[c][k] = 1}
<1>6. CASE P = {}
  <2>1. \A k \in Taking(c) : applied'[c][k] = applied[c][k]
    BY <1>3, <1>4, <1>5, <1>6
  <2> QED
    BY <1>1, <1>5, <2>1 DEF Silent
<1>7. CASE P # {}
  <2>1. \A j \in Taking(c), k \in P : j < k => j \in P
    BY <1>2, <1>3, <1>4 DEF BatchOf, Prefixed
  <2>2. \A k \in Taking(c) : applied[c][k] = 0 /\ applied'[c][k] = IF k \in P THEN 1 ELSE 0
    BY <1>3, <1>4, <1>5
  <2>3. outcome[c] # "ok" /\ P \in SUBSET Taking(c)
    BY <1>1, <1>2, <1>3 DEF BatchOf, Told
  <2> HIDE DEF P
  <2> QED
    BY <1>1, <1>5, <1>7, <2>1, <2>2, <2>3, CallTakesEffect
<1> QED
  BY <1>6, <1>7

LEMMA NextRefines ==
  ASSUME Settled, Settled', [Next]_vars PROVE Promise!Next \/ Silent
<1>1. ASSUME NEW c \in Calls, StepOf(c) PROVE Promise!Next \/ Silent
  <2>1. CASE DbStatement(c) \/ DbUndo(c)
    BY <2>1, SilentStutters DEF DbStatement, DbUndo, goVars
  <2> QED
    BY <1>1, <2>1, ServerRefines, RunRefines, CommitRefines DEF StepOf, Database
<1>2. CASE Kill
  BY <1>2, SilentStutters DEF Kill
<1>3. CASE UNCHANGED vars
  BY <1>3, SilentStutters DEF vars, goVars, dbVars
<1> QED
  BY <1>1, <1>2, <1>3 DEF Next, StepOf

(* The storage in PostgreSQL is a MetricStore, for any calls: what of a call  *)
(* is committed is a first part of it, an update twice at most and a batch    *)
(* once; one that returned nil was committed whole; and a retry, a lost       *)
(* answer, a late statement or a kill never shows the caller more.            *)
THEOREM Refinement == Spec => StoreSpec
<1>1. Init => Promise!Init
  <2> SUFFICES ASSUME Init PROVE Promise!Init
    OBVIOUS
  <2>1. Placed /\ outcome = [c \in Calls |-> "none"]
    BY InitPlaced DEF Init
  <2>2. \A c \in Calls : Taking(c) \in SUBSET (Nat \ {0}) /\ Taking(c) \subseteq Slot
    BY <2>1, TakingType
  <2>3. \A c \in Calls : \A k \in Taking(c) : applied[c][k] = 0
    BY <2>2 DEF Init, Nothing, Slot
  <2> QED
    BY <2>1, <2>2, <2>3 DEF Promise!Init, Promise!Kind
<1> DEFINE calls == [c \in Calls |->
               [items    |-> Taking(c),
                times    |-> IF Op(c) = "update" THEN 2 ELSE 1,
                complete |-> Known(c) = DOMAIN Items(c) \/ Op(c) \in {"get", "page"}]]
<1>2. Settled /\ Settled' /\ [Next]_vars => [Promise!Next]_<<calls, Promise!storeVars>>
  <2> SUFFICES ASSUME Settled, Settled', [Next]_vars, ~Promise!Next
               PROVE  calls' = calls /\ Promise!storeVars' = Promise!storeVars
    OBVIOUS
  <2>1. Silent
    BY NextRefines
  <2>2. \A c \in Calls : /\ Taking(c)' = Taking(c) /\ Known(c)' = Known(c)
                         /\ Items(c)' = Items(c) /\ Op(c)' = Op(c)
    BY <2>1 DEF Silent, Taking, Known, Items, Op
  <2> QED
    BY <2>1, <2>2 DEF Silent, Promise!storeVars
<1> QED
  BY <1>1, <1>2, SettledInvariant, PTL DEF Spec, StoreSpec, Promise!Spec
==============================================================================
