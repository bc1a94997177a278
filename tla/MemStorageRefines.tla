-------------------------- MODULE MemStorageRefines --------------------------
(***************************************************************************)
(* The storage in memory keeps what MetricStore promises, for any requests, *)
(* names and inputs: every step of MemStorage is one of MetricStore or       *)
(* leaves what it speaks of alone.                                         *)
(***************************************************************************)
EXTENDS MemStorageProofs

Updates == {"url", "json", "batch"}
Reads   == {"getURL", "getJSON", "page"}

(* What has taken effect is what was stored of the items up to the one that   *)
(* r works on; of those, the ones that have not have made the request fail.   *)
EffectsOf(r) ==
  /\ rpc[r] = "done" <=> status[r] # "none"
  /\ \A k \in Nat \ {0} : <<r, k>> \in made => k \in Known(r) /\ k \in Done(r)
  /\ rpc[r] # "done" =>
       \A k \in DOMAIN req[r].items :
         k < idx[r] \/ (k = idx[r] /\ rpc[r] = "reload") =>
           IF k \in Known(r) THEN <<r, k>> \in made ELSE failed[r]
  /\ rpc[r] \in {"lookup", "load", "store", "reload", "reject"} => req[r].route \in Updates
  /\ rpc[r] \in {"find", "page"} => req[r].route \in Reads
  /\ rpc[r] = "reject" => Cur(r).mtype = "other"
  /\ status[r] = "refused" => \A k \in Known(r) : <<r, k>> \notin made

Effects == \A r \in Reqs : EffectsOf(r)

Kept == Shape /\ Effects

LEMMA InitKept == Init => Kept
<1> SUFFICES ASSUME Init, NEW r \in Reqs PROVE EffectsOf(r)
  BY InitShape DEF Kept, Effects
<1>1. rpc[r] = "new" /\ status[r] = "none" /\ made = {} /\ idx[r] = 1
  BY DEF Init
<1>2. \A k \in DOMAIN req[r].items : ~(k < idx[r])
  BY <1>1, InitShape, InputType DEF Shape
<1> QED
  BY <1>1, <1>2 DEF EffectsOf

(* A request that does not move keeps what it has.                            *)
LEMMA EffectsFrame ==
  ASSUME Kept, NEW r \in Reqs, req' = req, rpc'[r] = rpc[r], idx'[r] = idx[r],
         failed'[r] = failed[r], status'[r] = status[r],
         \A k \in Nat \ {0} : <<r, k>> \in made' <=> <<r, k>> \in made
  PROVE  EffectsOf(r)'
<1>1. EffectsOf(r)
  BY DEF Kept, Effects
<1>2. DOMAIN req[r].items \subseteq Nat \ {0} /\ Known(r) \subseteq DOMAIN req[r].items
  BY InputType DEF Kept, Shape, Known
<1>3. Done(r)' = Done(r) /\ Known(r)' = Known(r) /\ Cur(r)' = Cur(r)
  BY DEF Done, Known, Cur
<1> QED
  BY <1>1, <1>2, <1>3 DEF EffectsOf

(* Nor does one that is answered, or ends with the process.                   *)
LEMMA EffectsEnd ==
  ASSUME Kept, NEW r \in Reqs, req' = req, idx'[r] = idx[r], made' = made,
         rpc'[r] = "done", status'[r] # "none",
         status'[r] = "refused" => \A k \in Known(r) : <<r, k>> \notin made
  PROVE  EffectsOf(r)'
<1>1. \A k \in Nat \ {0} : <<r, k>> \in made => k \in Known(r) /\ k \in Done(r)
  BY DEF Kept, Effects, EffectsOf
<1>2. Done(r) \subseteq Done(r)' /\ Known(r)' = Known(r)
  BY DEF Done, Known
<1> QED
  BY <1>1, <1>2 DEF EffectsOf

(* The types of what it works on, by where it is.                             *)
LEMMA AtKnown ==
  ASSUME Kept, NEW r \in Reqs
  PROVE  /\ idx[r] \in Nat \ {0}
         /\ DOMAIN req[r].items = 1..Len(req[r].items)
         /\ Len(req[r].items) \in Nat
         /\ Known(r) \subseteq DOMAIN req[r].items
         /\ rpc[r] \in {"lookup", "load", "store", "reload"} => idx[r] \in Known(r)
         /\ rpc[r] = "reject" => idx[r] \in DOMAIN req[r].items \ Known(r)
         /\ req[r].route # "batch" => Len(req[r].items) = 1
<1>1. /\ idx[r] \in Nat \ {0} /\ Len(req[r].items) \in Nat
      /\ DOMAIN req[r].items = 1..Len(req[r].items)
  BY InputType DEF Kept, Shape, TypeOK
<1>2. Known(r) \subseteq DOMAIN req[r].items
  BY DEF Known
<1>3. AtItemOf(r) /\ EffectsOf(r)
  BY DEF Kept, Shape, AtItem, Effects
<1>4. rpc[r] \in {"lookup", "load", "store", "reload"} => idx[r] \in Known(r)
  BY <1>3 DEF AtItemOf, EffectsOf, Known, Cur, Updates
<1>5. rpc[r] = "reject" => idx[r] \in DOMAIN req[r].items \ Known(r)
  BY <1>3 DEF AtItemOf, EffectsOf, Known, Cur
<1>6. req[r].route # "batch" => Len(req[r].items) = 1
  BY StorageAssumption DEF StorageAssumption, Kept, Shape, TypeOK, Sendable
<1> QED
  BY <1>1, <1>2, <1>4, <1>5, <1>6

-------------------------------------------------------------------------------
(* What a step is to MetricStore, by what it changes.                        *)

(* An answer: "ok" once all of the metrics are stored, "refused" while none    *)
(* is, and anything else at any time.                                        *)
LEMMA Told ==
  ASSUME Kept, NEW r \in Reqs, NEW s \in Outcome, s # "none", status[r] = "none",
         status' = [status EXCEPT ![r] = s], UNCHANGED <<req, made>>,
         s = "ok" => req[r].route \in Reads \/ \A k \in DOMAIN req[r].items :
                                                k \in Known(r) /\ <<r, k>> \in made,
         s = "refused" => \A k \in Known(r) : <<r, k>> \notin made
  PROVE  Promise!Next
<1> DEFINE what == IF s \in {"ok", "refused"} THEN s ELSE "error"
           answer(q) == IF status[q] \in {"none", "ok", "refused"} THEN status[q] ELSE "error"
<1>1. status \in [Reqs -> Outcome]
  BY DEF Kept, Shape, TypeOK
<1>2. \A q \in Reqs : Known(q)' = Known(q)
  BY DEF Known
<1>3. [q \in Reqs |-> answer(q)'] = [[q \in Reqs |-> answer(q)] EXCEPT ![r] = what]
  BY <1>1
<1>4. answer(r) = "none" /\ what # "none"
  OBVIOUS
<1>5. what = "ok" => /\ Known(r) = DOMAIN req[r].items \/ req[r].route \in Reads
                     /\ \A k \in Known(r) : <<r, k>> \in made
  BY AtKnown DEF Known, Reads
<1> DEFINE effect(q) == [k \in Known(q) |-> IF <<q, k>> \in made THEN 1 ELSE 0]
<1>6. [q \in Reqs |-> effect(q)]' = [q \in Reqs |-> effect(q)]
  BY <1>2
<1>7. \A k \in Known(r) : effect(r)[k] > 0 <=> <<r, k>> \in made
  OBVIOUS
<1>8. \A k \in Known(r) : effect(r)[k] = 0 <=> <<r, k>> \notin made
  OBVIOUS
<1>9. what = "refused" => s = "refused"
  OBVIOUS
<1> HIDE DEF what, effect, answer
<1>10. Promise!Tell(r, what)
  BY <1>3, <1>4, <1>5, <1>6, <1>7, <1>8, <1>9 DEF Promise!Tell, Reads, effect, answer
<1>11. [q \in Reqs |-> answer(q)'] # [q \in Reqs |-> answer(q)]
  BY <1>4, <1>3
<1>12. what \in {"ok", "refused", "error"}
  BY DEF what
<1> QED
  BY <1>2, <1>10, <1>11, <1>12 DEF Promise!Next, answer

(* A store: the metric it is of had not taken effect, the known ones before it *)
(* had, so that what has is a first part of them.                             *)
LEMMA StoreTakesEffect ==
  ASSUME Kept, NEW r \in Reqs, Store(r) PROVE Promise!Next
<1> DEFINE effect(q) == [k \in Known(q) |-> IF <<q, k>> \in made THEN 1 ELSE 0]
           n == idx[r]
<1>1. /\ rpc[r] = "store" /\ UNCHANGED <<req, status>>
      /\ made' = made \union {<<r, n>>}
  BY DEF Store
<1>2. n \in Known(r) /\ Known(r) \subseteq Nat \ {0}
  BY <1>1, AtKnown
<1>3. <<r, n>> \notin made
  <2>1. n \notin Done(r)
    BY <1>1, <1>2 DEF Done
  <2> QED
    BY <1>2, <2>1 DEF Kept, Effects, EffectsOf
<1>4. \A k \in Known(r) : k < n => <<r, k>> \in made
  BY <1>1, <1>2, AtKnown DEF Kept, Effects, EffectsOf
<1>5. \A q \in Reqs : Known(q)' = Known(q)
  BY <1>1 DEF Known
<1> DEFINE P == {j \in Known(r) : j <= n}
<1>6. effect(r)' = [j \in Known(r) |-> IF j \in P /\ effect(r)[j] = 0 THEN 1 ELSE effect(r)[j]]
  <2>1. ASSUME NEW j \in Known(r)
        PROVE  effect(r)'[j] = IF j \in P /\ effect(r)[j] = 0 THEN 1 ELSE effect(r)[j]
    BY <1>1, <1>2, <1>3, <1>4, <1>5
  <2> QED
    BY <1>5, <2>1
<1>7. ASSUME NEW q \in Reqs \ {r} PROVE effect(q)' = effect(q)
  BY <1>1, <1>5
<1>8. [q \in Reqs |-> effect(q)]' =
        [[q \in Reqs |-> effect(q)] EXCEPT ![r] =
           [j \in Known(r) |-> IF j \in P /\ @[j] = 0 THEN 1 ELSE @[j]]]
  BY <1>6, <1>7
<1>9. effect(r)[n] = 0 /\ effect(r)'[n] = 1
  BY <1>1, <1>2, <1>3, <1>5
<1>10. status[r] = "none"
  BY <1>1 DEF Kept, Effects, EffectsOf
<1>11. [q \in Reqs |-> effect(q)]' # [q \in Reqs |-> effect(q)]
  <2> HIDE DEF effect
  <2>1. effect(r)' # effect(r)
    BY <1>9
  <2> QED
    BY <2>1
<1>12. n \in P /\ effect(r)[n] = 0
  BY <1>2, <1>9
<1>13. P \in SUBSET Known(r) /\ Promise!FirstPart(Known(r), P)
  BY <1>2 DEF Promise!FirstPart
<1> HIDE DEF effect, P
<1>14. Promise!TakeEffect(r)
  BY <1>1, <1>8, <1>10, <1>12, <1>13 DEF Promise!TakeEffect, effect
<1> QED
  BY <1>1, <1>5, <1>11, <1>14 DEF Promise!Next, effect

(* The process ends: what the requests in flight were is not answered.        *)
LEMMA DieIsCrash ==
  ASSUME Kept, NEW how \in Phase, Die(how), UNCHANGED <<req, made>>
  PROVE  Promise!Next \/ UNCHANGED status
<1> DEFINE answer(q) == IF status[q] \in {"none", "ok", "refused"} THEN status[q] ELSE "error"
<1>1. \A q \in Reqs : Known(q)' = Known(q)
  BY DEF Known
<1>2. \A q \in InFlight : status[q] = "none"
  BY DEF InFlight, Kept, Effects, EffectsOf
<1>3. \A q \in Reqs : status'[q] = IF q \in InFlight THEN "lost" ELSE status[q]
  BY DEF Die
<1>4. InFlight \in SUBSET Reqs
  BY DEF InFlight
<1>5. [q \in Reqs |-> answer(q)'] =
        [q \in Reqs |-> IF q \in InFlight /\ answer(q) = "none" THEN "error" ELSE answer(q)]
  BY <1>2, <1>3
<1>6. CASE InFlight = {}
  BY <1>6 DEF Die, Kept, Shape, TypeOK
<1>7. CASE InFlight # {}
  <2>1. PICK q \in Reqs : answer(q) = "none" /\ answer(q)' = "error"
    BY <1>2, <1>3, <1>4, <1>7
  <2>2. [p \in Reqs |-> answer(p)'] # [p \in Reqs |-> answer(p)]
    BY <2>1
  <2> HIDE DEF answer
  <2>3. Promise!Crash
    BY <1>1, <1>4, <1>5 DEF Promise!Crash, answer
  <2> QED
    BY <1>1, <2>2, <2>3 DEF Promise!Next, answer
<1> QED
  BY <1>6, <1>7

-------------------------------------------------------------------------------
(* The steps of a request.                                                   *)

LEMMA Finishes ==
  ASSUME Kept, NEW r \in Reqs, NEW s \in Outcome, s # "none", Finish(r, s),
         rpc[r] # "done", UNCHANGED <<req, made>>,
         s = "ok" => req[r].route \in Reads \/ \A k \in DOMAIN req[r].items :
                                                k \in Known(r) /\ <<r, k>> \in made,
         s = "refused" => \A k \in Known(r) : <<r, k>> \notin made
  PROVE  EffectsOf(r)' /\ Promise!Next
<1>1. status[r] = "none"
  BY DEF Kept, Effects, EffectsOf
<1>2. status' = [status EXCEPT ![r] = s]
  BY DEF Finish
<1>3. idx'[r] = idx[r] /\ rpc'[r] = "done" /\ status'[r] = s
  BY DEF Finish, Kept, Shape, TypeOK
<1> QED
  BY <1>1, <1>2, <1>3, Told, EffectsEnd

LEMMA GotoKeeps ==
  ASSUME Kept, NEW r \in Reqs, NEW pc \in PC \ {"reload", "reject", "done"},
         rpc[r] \notin {"reload", "done"},
         rpc'[r] = pc, UNCHANGED <<req, idx, status, made, failed>>,
         pc \in {"lookup", "load", "store"} => req[r].route \in Updates,
         pc \in {"find", "page"} => req[r].route \in Reads
  PROVE  EffectsOf(r)'
<1>1. EffectsOf(r)
  BY DEF Kept, Effects
<1>2. Known(r)' = Known(r)
  BY DEF Known
<1>3. Done(r) \subseteq Done(r)'
  BY DEF Done
<1>4. Cur(r)' = Cur(r) /\ idx'[r] = idx[r] /\ status'[r] = status[r] /\ failed'[r] = failed[r]
  BY DEF Cur
<1>5. rpc'[r] \in {"lookup", "load", "store", "reload", "reject"} => req[r].route \in Updates
  OBVIOUS
<1> QED
  BY <1>1, <1>2, <1>3, <1>4, <1>5 DEF EffectsOf

(* The next item of a batch: the one it worked on is stored, or has failed.   *)
LEMMA NextItemKeeps ==
  ASSUME Kept, NEW r \in Reqs, rpc[r] \in {"reload", "reject"},
         idx[r] < Len(req[r].items), idx'[r] = idx[r] + 1,
         rpc'[r] = FirstStep(req[r].items[idx[r] + 1]),
         UNCHANGED <<req, status, made>>,
         failed[r] => failed'[r], rpc[r] = "reject" => failed'[r]
  PROVE  EffectsOf(r)'
<1>1. EffectsOf(r) /\ req[r].route \in Updates /\ status[r] = "none"
  BY DEF Kept, Effects, EffectsOf
<1>2. /\ idx[r] \in Nat \ {0}
      /\ idx'[r] \in DOMAIN req[r].items
      /\ DOMAIN req[r].items \subseteq Nat
  BY AtKnown
<1>3. AtItemOf(r)' /\ rpc'[r] \in {"lookup", "store", "reject"}
  BY <1>2, FirstStepFits DEF Kept, Shape
<1>4. Known(r)' = Known(r) /\ Done(r) \subseteq Done(r)'
  BY <1>2 DEF Known, Done
<1>5. ASSUME NEW k \in DOMAIN req[r].items, k < idx[r] + 1
      PROVE  IF k \in Known(r) THEN <<r, k>> \in made ELSE failed'[r]
  <2>1. CASE k < idx[r]
    BY <1>1, <1>2, <2>1 DEF EffectsOf
  <2>2. CASE k = idx[r] /\ rpc[r] = "reload"
    BY <1>1, <1>2, <2>2 DEF EffectsOf
  <2>3. CASE k = idx[r] /\ rpc[r] = "reject"
    BY <2>3, AtKnown
  <2> QED
    BY <1>2, <1>5, <2>1, <2>2, <2>3
<1>6. rpc'[r] = "reject" => Cur(r)'.mtype = "other"
  <2>1. Cur(r)' = req[r].items[idx[r] + 1]
    BY DEF Cur
  <2>2. req[r].items[idx[r] + 1] \in Item
    BY <1>2, InputType DEF Kept, Shape
  <2> QED
    BY <2>1, <2>2 DEF FirstStep, Item
<1> QED
  BY <1>1, <1>2, <1>3, <1>4, <1>5, <1>6 DEF EffectsOf

(* A request that reads back its last item, and for which nothing failed, has *)
(* had all of its items stored.                                               *)
LEMMA AllStored ==
  ASSUME Kept, NEW r \in Reqs, rpc[r] = "reload", idx[r] = Len(req[r].items),
         req[r].route # "batch" \/ ~failed[r]
  PROVE  \A k \in DOMAIN req[r].items : k \in Known(r) /\ <<r, k>> \in made
<1> SUFFICES ASSUME NEW k \in DOMAIN req[r].items PROVE k \in Known(r) /\ <<r, k>> \in made
  OBVIOUS
<1>1. k \in Nat /\ k <= idx[r] /\ idx[r] \in Known(r) /\ idx[r] \in Nat
  BY AtKnown
<1>2. k = idx[r] \/ ~failed[r]
  BY <1>1, AtKnown
<1> QED
  BY <1>1, <1>2 DEF Kept, Effects, EffectsOf

LEMMA ReloadKeeps ==
  ASSUME Kept, NEW r \in Reqs, Reload(r)
  PROVE  EffectsOf(r)' /\ (Promise!Next \/ UNCHANGED <<status, made>>)
<1> DEFINE e == db[Cur(r).id]
           bad == failed[r] \/ (req[r].route = "batch" /\ IsNaN(e))
           s == Answer(r, e, bad)
<1>1. /\ rpc[r] = "reload" /\ failed' = [failed EXCEPT ![r] = bad]
      /\ NextItem(r, s) /\ UNCHANGED <<req, made>>
  BY DEF Reload, historyVars
<1>2. failed[r] => failed'[r]
  BY <1>1 DEF Kept, Shape, TypeOK
<1>3. s \in {"ok", "error", "panic"}
  BY DEF Answer
<1>4. s = "ok" => req[r].route # "batch" \/ ~failed[r]
  BY DEF Answer
<1> HIDE DEF s
<1>5. CASE idx[r] = Len(req[r].items) /\ Finish(r, s)
  <2>1. s \in Outcome /\ s # "none" /\ s # "refused" /\ rpc[r] # "done"
    BY <1>1, <1>3 DEF Outcome
  <2>2. s = "ok" => \A k \in DOMAIN req[r].items : k \in Known(r) /\ <<r, k>> \in made
    BY <1>1, <1>4, <1>5, AllStored
  <2> QED
    BY <1>1, <1>5, <2>1, <2>2, Finishes
<1>6. CASE /\ idx[r] < Len(req[r].items)
           /\ idx' = [idx EXCEPT ![r] = @ + 1]
           /\ rpc' = [rpc EXCEPT ![r] = FirstStep(req[r].items[idx[r] + 1])]
           /\ UNCHANGED <<base, left, status>>
  <2>1. idx'[r] = idx[r] + 1 /\ rpc'[r] = FirstStep(req[r].items[idx[r] + 1])
    BY <1>6 DEF Kept, Shape, TypeOK
  <2> QED
    BY <1>1, <1>2, <1>6, <2>1, NextItemKeeps
<1> QED
  BY <1>1, <1>5, <1>6 DEF NextItem

LEMMA RejectKeeps ==
  ASSUME Kept, NEW r \in Reqs, Reject(r)
  PROVE  EffectsOf(r)' /\ (Promise!Next \/ UNCHANGED <<status, made>>)
<1> DEFINE s == IF req[r].route = "json" THEN "refused" ELSE "error"
<1>1. /\ rpc[r] = "reject" /\ failed' = [failed EXCEPT ![r] = TRUE]
      /\ NextItem(r, s) /\ UNCHANGED <<req, made>>
  BY DEF Reject, historyVars
<1>2. failed'[r]
  BY <1>1 DEF Kept, Shape, TypeOK
<1>3. s = "refused" => Known(r) = {}
  BY <1>1, AtKnown
<1>4. s \in {"refused", "error"}
  OBVIOUS
<1> HIDE DEF s
<1>5. CASE idx[r] = Len(req[r].items) /\ Finish(r, s)
  <2>1. s \in Outcome /\ s # "none" /\ s # "ok" /\ rpc[r] # "done"
    BY <1>1, <1>4 DEF Outcome
  <2> QED
    BY <1>1, <1>3, <1>5, <2>1, Finishes
<1>6. CASE /\ idx[r] < Len(req[r].items)
           /\ idx' = [idx EXCEPT ![r] = @ + 1]
           /\ rpc' = [rpc EXCEPT ![r] = FirstStep(req[r].items[idx[r] + 1])]
           /\ UNCHANGED <<base, left, status>>
  <2>1. idx'[r] = idx[r] + 1 /\ rpc'[r] = FirstStep(req[r].items[idx[r] + 1])
    BY <1>6 DEF Kept, Shape, TypeOK
  <2> QED
    BY <1>1, <1>2, <1>6, <2>1, NextItemKeeps
<1> QED
  BY <1>1, <1>5, <1>6 DEF NextItem

LEMMA ArriveKeeps ==
  ASSUME Kept, NEW r \in Reqs, Arrive(r)
  PROVE  EffectsOf(r)' /\ (Promise!Next \/ UNCHANGED <<status, made>>)
<1> DEFINE q == req[r]
<1>1. /\ rpc[r] = "new" /\ UNCHANGED <<req, made, failed>>
      /\ idx[r] = 1 /\ q \in Request /\ rpc \in [Reqs -> PC]
  BY InputType DEF Arrive, historyVars, Kept, Shape, AtItem, AtItemOf, TypeOK
<1>2. \A k \in Known(r) : <<r, k>> \notin made
  <2>1. Known(r) \subseteq Nat \ {0}
    BY AtKnown
  <2>2. Done(r) = {}
    BY <1>1 DEF Done
  <2> QED
    BY <2>1, <2>2 DEF Kept, Effects, EffectsOf
<1>3. CASE Finish(r, "refused")
  BY <1>1, <1>2, <1>3, Finishes DEF Outcome
<1>4. CASE q.items = <<>> /\ Finish(r, "ok")
  <2>1. DOMAIN q.items = {}
    BY <1>4
  <2> QED
    BY <1>1, <1>2, <1>4, <2>1, Finishes DEF Outcome
<1>5. CASE q.items # <<>> /\ q.route \in Updates /\ Goto(r, FirstStep(q.items[1]))
  <2>1. /\ rpc'[r] = FirstStep(q.items[1]) /\ UNCHANGED <<idx, status>>
    BY <1>1, <1>5 DEF Goto
  <2>2. 1 \in DOMAIN q.items /\ q.items[1] \in Item /\ Cur(r)' = q.items[1]
    BY <1>1, <1>5, <2>1, InputType DEF Kept, Shape, Cur
  <2>3. CASE q.items[1].mtype = "other"
    <3>1. rpc'[r] = "reject" /\ Cur(r)'.mtype = "other"
      BY <2>1, <2>2, <2>3 DEF FirstStep
    <3>2. EffectsOf(r) /\ DOMAIN q.items \subseteq Nat \ {0}
      BY AtKnown DEF Kept, Effects
    <3>3. Known(r)' = Known(r) /\ Done(r) \subseteq Done(r)'
      BY <1>1, <2>1 DEF Known, Done
    <3> QED
      BY <1>1, <1>5, <2>1, <3>1, <3>2, <3>3 DEF EffectsOf
  <2>4. CASE q.items[1].mtype # "other"
    <3>1. FirstStep(q.items[1]) \in {"lookup", "store"}
      BY <2>2, <2>4 DEF FirstStep, Item
    <3> QED
      BY <1>1, <1>5, <2>1, <3>1, GotoKeeps DEF PC
  <2> QED
    BY <2>1, <2>3, <2>4, <1>1
<1>6. CASE q.route \in {"getURL", "getJSON"} /\ Goto(r, "find")
  <2>1. rpc'[r] = "find" /\ UNCHANGED <<idx, status>>
    BY <1>1, <1>6 DEF Goto
  <2> QED
    BY <1>1, <1>6, <2>1, GotoKeeps DEF PC, Reads
<1>7. CASE q.route = "page" /\ rpc' = [rpc EXCEPT ![r] = "page"] /\ UNCHANGED <<idx, status>>
  BY <1>1, <1>7, GotoKeeps DEF PC, Reads
<1> QED
  BY <1>3, <1>4, <1>5, <1>6, <1>7 DEF Arrive, Updates

LEMMA HandleKeeps ==
  ASSUME Kept, NEW r \in Reqs, Handle(r)
  PROVE  EffectsOf(r)' /\ (Promise!Next \/ UNCHANGED <<status, made>>)
<1>1. rpc \in [Reqs -> PC] /\ req' = req /\ EffectsOf(r)
  BY RequestFrame DEF Kept, Shape, TypeOK, Effects
<1>2. ASSUME NEW s \in Outcome \ {"none", "ok", "refused"}, Finish(r, s), made' = made,
             rpc[r] # "done"
      PROVE  EffectsOf(r)' /\ Promise!Next
  BY <1>1, <1>2, Finishes
<1>3. CASE Lookup(r)
  <2>1. /\ rpc[r] = "lookup" /\ UNCHANGED <<made, failed>>
        /\ req[r].route \in Updates
    BY <1>1, <1>3 DEF Lookup, historyVars, EffectsOf
  <2>2. CASE Finish(r, "panic")
    BY <1>2, <2>1, <2>2 DEF Outcome
  <2>3. ASSUME NEW pc \in {"load", "store"}, Goto(r, pc) PROVE EffectsOf(r)' /\ UNCHANGED status
    <3>1. rpc'[r] = pc /\ UNCHANGED <<idx, status>>
      BY <1>1, <2>3 DEF Goto
    <3> QED
      BY <1>1, <2>1, <3>1, GotoKeeps DEF PC
  <2> QED
    BY <1>3, <2>1, <2>2, <2>3 DEF Lookup
<1>4. CASE Load(r)
  <2>1. /\ rpc[r] = "load" /\ UNCHANGED <<made, failed>>
        /\ req[r].route \in Updates
    BY <1>1, <1>4 DEF Load, historyVars, EffectsOf
  <2>2. CASE Finish(r, "panic")
    BY <1>2, <2>1, <2>2 DEF Outcome
  <2>3. CASE rpc' = [rpc EXCEPT ![r] = "store"] /\ UNCHANGED <<idx, left, status>>
    <3>1. rpc'[r] = "store"
      BY <1>1, <2>3
    <3> QED
      BY <1>1, <2>1, <2>3, <3>1, GotoKeeps DEF PC
  <2> QED
    BY <1>4, <2>2, <2>3 DEF Load
<1>5. CASE Store(r)
  <2>1. /\ rpc[r] = "store" /\ rpc'[r] = "reload" /\ UNCHANGED <<idx, failed, status>>
        /\ made' = made \union {<<r, idx[r]>>}
    BY <1>1, <1>5 DEF Store
  <2>2. idx[r] \in Known(r) /\ Known(r)' = Known(r) /\ idx[r] \in Nat \ {0}
    BY <1>1, <2>1, AtKnown DEF Known
  <2>3. Done(r)' = Done(r) \union {idx[r]}
    BY <2>1, <2>2 DEF Done
  <2>4. EffectsOf(r)'
    BY <1>1, <2>1, <2>2, <2>3 DEF EffectsOf
  <2> QED
    BY <1>5, <2>4, StoreTakesEffect
<1>6. CASE Reload(r)
  BY <1>6, ReloadKeeps
<1>7. CASE Reject(r)
  BY <1>7, RejectKeeps
<1>8. CASE Find(r)
  <2>1. PICK s \in {"notfound", "error", "ok"} : Finish(r, s)
    BY <1>8 DEF Find
  <2>2. rpc[r] = "find" /\ made' = made /\ req[r].route \in Reads
    BY <1>1, <1>8 DEF Find, historyVars, EffectsOf
  <2>3. s \in Outcome /\ s # "none" /\ s # "refused"
    BY DEF Outcome
  <2> QED
    BY <1>1, <2>1, <2>2, <2>3, Finishes
<1>9. CASE PageKey(r)
  <2>1. /\ rpc[r] = "page" /\ UNCHANGED <<made, failed>> /\ req[r].route \in Reads
    BY <1>1, <1>9 DEF PageKey, historyVars, EffectsOf
  <2>2. ASSUME NEW s \in {"ok", "panic"}, Finish(r, s) PROVE EffectsOf(r)' /\ Promise!Next
    BY <1>1, <2>1, <2>2, Finishes DEF Outcome
  <2>3. CASE UNCHANGED <<rpc, idx, base, status>>
    BY <1>1, <2>1, <2>3, GotoKeeps DEF PC
  <2> QED
    BY <1>9, <2>1, <2>2, <2>3 DEF PageKey
<1> QED
  BY <1>3, <1>4, <1>5, <1>6, <1>7, <1>8, <1>9 DEF Handle

-------------------------------------------------------------------------------
(* Every step.                                                               *)

LEMMA RequestKeeps ==
  ASSUME Kept, NEW r \in Reqs, Arrive(r) \/ Handle(r)
  PROVE  Effects' /\ (Promise!Next \/ UNCHANGED <<status, made>>)
<1>1. EffectsOf(r)' /\ (Promise!Next \/ UNCHANGED <<status, made>>)
  BY ArriveKeeps, HandleKeeps
<1>2. req' = req /\ \A q \in Reqs \ {r} : rpc'[q] = rpc[q] /\ idx'[q] = idx[q]
  BY RequestFrame DEF Kept
<1>3. \A q \in Reqs \ {r} : failed'[q] = failed[q] /\ status'[q] = status[q]
  BY DEF Arrive, Handle, Lookup, Load, Store, Reload, Reject, Find, PageKey, NextItem,
         Finish, Goto, Kept, Shape, TypeOK
<1>4. made' \in {made, made \union {<<r, idx[r]>>}}
  BY DEF Arrive, Handle, Lookup, Load, Store, Reload, Reject, Find, PageKey, historyVars
<1>5. ASSUME NEW q \in Reqs \ {r} PROVE EffectsOf(q)'
  <2>1. \A k \in Nat \ {0} : <<q, k>> \in made' <=> <<q, k>> \in made
    BY <1>4
  <2> QED
    BY <1>2, <1>3, <2>1, EffectsFrame
<1> QED
  BY <1>1, <1>5 DEF Effects

LEMMA NextKept ==
  ASSUME Kept, [Next]_vars
  PROVE  Kept' /\ (Promise!Next \/ UNCHANGED <<req, status, made>>)
<1>1. Shape' /\ req' = req
  BY NextShape, DoneGrows DEF Kept
<1>2. ASSUME NEW r \in Reqs, Arrive(r) \/ Handle(r)
      PROVE  Effects' /\ (Promise!Next \/ UNCHANGED <<status, made>>)
  BY <1>2, RequestKeeps
<1>3. ASSUME UNCHANGED <<rpc, idx, failed, status, made>> PROVE Kept'
  <2>1. ASSUME NEW q \in Reqs PROVE EffectsOf(q)'
    BY <1>1, <1>3, EffectsFrame
  <2> QED
    BY <1>1, <1>3, <2>1 DEF Effects, Kept
<1>4. CASE DrainTimeout \/ MapFault \/ Kill \/ Exit
  <2>1. PICK how \in {"failed", "fault", "killed", "saved", "unsaved"} : Die(how)
    BY <1>4 DEF DrainTimeout, MapFault, Kill, Exit
  <2>2. UNCHANGED <<idx, failed, made>>
    BY <1>4 DEF DrainTimeout, MapFault, Kill, Exit, historyVars
  <2>3. ASSUME NEW r \in Reqs PROVE EffectsOf(r)'
    <3>1. CASE r \in InFlight
      <4>1. rpc'[r] = "done" /\ status'[r] = "lost"
        BY <2>1, <3>1 DEF Die
      <4> QED
        BY <1>1, <2>2, <4>1, EffectsEnd
    <3>2. CASE r \notin InFlight
      <4>1. rpc'[r] = rpc[r] /\ status'[r] = status[r]
        BY <2>1, <3>2 DEF Die
      <4> QED
        BY <1>1, <2>2, <4>1, EffectsFrame
    <3> QED
      BY <3>1, <3>2
  <2>4. Promise!Next \/ UNCHANGED status
    BY <1>1, <2>1, <2>2, DieIsCrash DEF Phase
  <2> QED
    BY <1>1, <2>2, <2>3, <2>4 DEF Kept, Effects
<1>5. CASE \/ UNCHANGED vars \/ BackupService \/ Signal \/ Drained \/ Start
           \/ \E s \in Savers : Save(s)
  BY <1>3, <1>5, <1>1 DEF vars, BackupService, Signal, Drained, Start, Save, Create, Marshal,
     WriteFile, requestVars, historyVars, Kept
<1> QED
  BY <1>1, <1>2, <1>4, <1>5 DEF Next, Kept

THEOREM KeptInvariant == Spec => []Kept
<1> QED
  BY InitKept, NextKept, PTL DEF Spec

(* The storage in memory is a MetricStore, for any requests and names: what   *)
(* of a call is stored is a first part of it, each metric once; one that was  *)
(* answered "ok" was stored whole, one that was refused not at all; and a     *)
(* store, a panic or the end of the process never shows the caller more.      *)
THEOREM Refinement == Spec => StoreSpec
<1>1. Init => Promise!Init
  <2> SUFFICES ASSUME Init PROVE Promise!Init
    OBVIOUS
  <2>1. Shape /\ made = {} /\ status = [r \in Reqs |-> "none"]
    BY InitShape DEF Init
  <2>2. ASSUME NEW r \in Reqs PROVE Known(r) \in SUBSET (Nat \ {0})
    <3>1. Kept
      BY InitKept
    <3>2. DOMAIN req[r].items \subseteq Nat \ {0} /\ Known(r) \subseteq DOMAIN req[r].items
      BY <3>1, AtKnown
    <3> QED
      BY <3>2
  <2> QED
    BY <2>1, <2>2 DEF Promise!Init, Promise!Kind
<1> DEFINE calls == [r \in Reqs |->
               [items    |-> Known(r),
                times    |-> 1,
                complete |-> Known(r) = DOMAIN req[r].items \/ req[r].route \in {"getURL", "getJSON", "page"}]]
<1>2. Kept /\ [Next]_vars => [Promise!Next]_<<calls, Promise!storeVars>>
  <2> SUFFICES ASSUME Kept, [Next]_vars, ~Promise!Next
               PROVE  calls' = calls /\ Promise!storeVars' = Promise!storeVars
    OBVIOUS
  <2>1. UNCHANGED <<req, status, made>>
    BY NextKept
  <2> QED
    BY <2>1 DEF Known, Promise!storeVars
<1>3. Kept /\ [Next]_vars => Kept'
  BY NextKept
<1> QED
  BY <1>1, <1>2, KeptInvariant, PTL DEF Spec, StoreSpec, Promise!Spec

-------------------------------------------------------------------------------
(* Whatever the map, the file, a save or a base holds has been stored.        *)

AllMade(d) == \A i \in IDs : d[i].from \subseteq made

Sourced ==
  /\ AllMade(db)
  /\ AllMade(file.db)
  /\ \A s \in Savers : AllMade(buf[s])
  /\ \A r \in Reqs : base[r] \subseteq made

LEMMA InitSourced == Init => Sourced
BY DEF Init, Sourced, AllMade, EmptyDB, Absent

LEMMA MadeGrows == ASSUME Shape, [Next]_vars PROVE made \subseteq made'
BY DEF Next, vars, Arrive, Handle, Lookup, Load, Store, Reload, Reject, Find, PageKey, Save,
       Create, Marshal, WriteFile, BackupService, Signal, Drained, DrainTimeout, MapFault, Kill,
       Exit, Start, historyVars

LEMMA NextSourced == ASSUME Shape, Sourced, [Next]_vars PROVE Sourced'
<1>1. made \subseteq made'
  BY MadeGrows
<1>2. AllMade(EmptyDB)'
  BY DEF AllMade, EmptyDB, Absent
<1>3. ASSUME NEW d, AllMade(d) PROVE \A i \in IDs : d[i].from \subseteq made'
  BY <1>1, <1>3 DEF AllMade
<1>4. AllMade(db)'
  <2>1. CASE db' \in {db, EmptyDB, file.db}
    BY <1>2, <1>3, <2>1 DEF Sourced, AllMade
  <2>2. ASSUME NEW r \in Reqs, Store(r) PROVE AllMade(db)'
    <3>1. /\ Cur(r).id \in IDs /\ db' = [db EXCEPT ![Cur(r).id] = NewEntry(r)]
          /\ made' = made \union {<<r, idx[r]>>}
      BY <2>2, NewEntryType DEF Store
    <3>2. NewEntry(r).from \subseteq made'
      BY <3>1 DEF NewEntry, Sourced
    <3>3. ASSUME NEW i \in IDs PROVE db'[i].from \subseteq made'
      <4>1. db'[i] = NewEntry(r) \/ db'[i] = db[i]
        BY <3>1 DEF Shape, TypeOK
      <4> QED
        BY <1>1, <3>2, <4>1 DEF Sourced, AllMade
    <3> QED
      BY <3>3 DEF AllMade
  <2> QED
    BY <2>1, <2>2, MapComesFrom
<1>5. AllMade(file.db)'
  BY <1>2, <1>3, FileComesFrom DEF Sourced, AllMade
<1>6. ASSUME NEW s \in Savers PROVE AllMade(buf[s])'
  <2>1. ASSUME NEW i \in IDs, buf'[s] = [buf[s] EXCEPT ![i] = db[i]] PROVE AllMade(buf[s])'
    BY <1>1, <2>1 DEF Sourced, AllMade, Shape, TypeOK
  <2> QED
    BY <1>2, <1>3, <2>1, SaveComesFrom DEF Sourced, AllMade
<1>7. ASSUME NEW r \in Reqs PROVE base'[r] \subseteq made'
  <2>1. CASE base'[r] = {} \/ base'[r] = base[r]
    BY <1>1, <2>1 DEF Sourced
  <2>2. CASE Load(r) /\ rpc'[r] = "store"
    <3>1. base'[r] = db[Cur(r).id].from
      BY <2>2 DEF Load, Finish, Shape, TypeOK
    <3>2. Cur(r).id \in IDs
      BY <2>2, InputType DEF Load, Shape, AtItem, AtItemOf, Cur, Item
    <3> QED
      BY <1>1, <3>1, <3>2 DEF Sourced, AllMade
  <2>3. ASSUME NEW q \in Reqs, Arrive(q) \/ Handle(q), ~(Load(q) /\ rpc'[q] = "store")
        PROVE  base'[r] \in {{}, base[r]}
    BY <2>3 DEF Arrive, Handle, Lookup, Load, Store, Reload, Reject, Find, PageKey,
                NextItem, Finish, Goto, Shape, TypeOK
  <2>4. ASSUME NEW q \in Reqs \ {r}, Load(q) PROVE base'[r] = base[r]
    BY <2>4, RequestFrame DEF Handle
  <2> QED
    BY <2>1, <2>2, <2>3, <2>4, SystemFrame
<1> QED
  BY <1>4, <1>5, <1>6, <1>7 DEF Sourced

(* What a refused request asked for is nowhere: not in the map, not in the    *)
(* file, not in a save, at any later time and after any restart.              *)
THEOREM RefusedLeavesNoTraceInvariant == Spec => []RefusedLeavesNoTrace
<1>1. Sourced /\ [Next]_vars /\ Shape => Sourced'
  BY NextSourced
<1>2. Sourced /\ Kept => RefusedLeavesNoTrace
  <2> SUFFICES ASSUME Sourced, Kept, NEW r \in Reqs, status[r] = "refused"
               PROVE  \A d : AllMade(d) => NoWriteOf(r, d)
    BY DEF Sourced, RefusedLeavesNoTrace
  <2>1. ASSUME NEW w \in made PROVE w[1] # r
    <3>1. PICK q \in Reqs, k \in Nat \ {0} : w = <<q, k>>
      BY DEF Kept, Shape, TypeOK, Write
    <3> QED
      BY <2>1, <3>1 DEF Kept, Effects, EffectsOf
  <2> QED
    BY <2>1 DEF AllMade, NoWriteOf
<1> QED
  BY <1>1, <1>2, InitSourced, ShapeInvariant, KeptInvariant, PTL DEF Spec
==============================================================================
