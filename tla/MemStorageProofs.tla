--------------------------- MODULE MemStorageProofs ---------------------------
(***************************************************************************)
(* Theorems about MemStorage, for any requests, names and inputs.          *)
(***************************************************************************)
EXTENDS MemStorage, TLAPS

(* Where a goroutine is says what it works on: it is within the items of its *)
(* request, a counter is looked up and loaded, what is stored is a gauge or   *)
(* a counter, and a counter that is stored has a delta.                       *)
AtItemOf(r) ==
  /\ rpc[r] = "new" => idx[r] = 1
  /\ rpc[r] \in {"lookup", "load", "store", "reload", "reject", "find"} =>
       idx[r] \in DOMAIN req[r].items
  /\ rpc[r] \in {"lookup", "load"} => Cur(r).mtype = "counter"
  /\ rpc[r] \in {"store", "reload"} => Cur(r).mtype \in {"gauge", "counter"}
  /\ rpc[r] = "store" /\ Cur(r).mtype = "counter" => Cur(r).arg # "nil"

AtItem == \A r \in Reqs : AtItemOf(r)

Shape == TypeOK /\ AtItem

LEMMA InputType ==
  ASSUME TypeOK, NEW r \in Reqs
  PROVE  /\ req[r] \in Request
         /\ req[r].items \in Seq(Item)
         /\ Len(req[r].items) \in Nat
         /\ DOMAIN req[r].items = 1..Len(req[r].items)
         /\ \A k \in DOMAIN req[r].items : req[r].items[k] \in Item
<1>1. req[r] \in Request
  BY StorageAssumption DEF StorageAssumption, TypeOK
<1>2. req[r].items \in Seq(Item)
  BY <1>1 DEF Request
<1> QED
  BY <1>1, <1>2

LEMMA InitShape == Init => Shape
<1> SUFFICES ASSUME Init PROVE Shape
  OBVIOUS
<1>1. TypeOK
  BY DEF Init, TypeOK, EmptyDB, Absent, Entry, FileContent, Savers, Phase, PC, Outcome, SaverPC
<1>2. AtItem
  BY DEF Init, AtItem, AtItemOf
<1> QED
  BY <1>1, <1>2 DEF Shape

(* A step of a request changes the variables of requests only, and of other   *)
(* requests nothing; a step of a saver changes those of savers and the file.  *)
LEMMA RequestType ==
  ASSUME TypeOK, UNCHANGED <<db, file, phase, starts, req, saverVars, historyVars>>,
         rpc' \in [Reqs -> PC], idx' \in [Reqs -> Nat \ {0}],
         base' \in [Reqs -> SUBSET Write], left' \in [Reqs -> SUBSET IDs],
         failed' \in [Reqs -> BOOLEAN], status' \in [Reqs -> Outcome]
  PROVE  TypeOK'
BY DEF TypeOK, saverVars, historyVars

LEMMA SaverType ==
  ASSUME TypeOK, UNCHANGED <<db, phase, starts, req, requestVars, acc, made, raced>>,
         file' \in FileContent, solo' \in BOOLEAN,
         spc' \in [Savers -> SaverPC], buf' \in [Savers -> [IDs -> Entry]],
         todo' \in [Savers -> SUBSET IDs]
  PROVE  TypeOK'
BY DEF TypeOK, requestVars

LEMMA AtItemFrame ==
  ASSUME AtItem, NEW r \in Reqs, req' = req, AtItemOf(r)',
         \A q \in Reqs \ {r} : rpc'[q] = rpc[q] /\ idx'[q] = idx[q]
  PROVE  AtItem'
BY DEF AtItem, AtItemOf, Cur

(* Finish, Goto and NextItem are what the actions of a request are built      *)
(* from; Die is what the process ends with.                                   *)
LEMMA FinishShape ==
  ASSUME Shape, NEW r \in Reqs, NEW s \in Outcome, Finish(r, s),
         failed' \in [Reqs -> BOOLEAN],
         UNCHANGED <<db, file, phase, starts, req, saverVars, historyVars>>
  PROVE  Shape'
<1>1. /\ rpc' = [rpc EXCEPT ![r] = "done"] /\ rpc \in [Reqs -> PC]
      /\ idx' = idx /\ idx \in [Reqs -> Nat \ {0}]
  BY DEF Finish, Shape, TypeOK
<1>2. TypeOK'
  <2>1. rpc' \in [Reqs -> PC]
    BY <1>1 DEF PC
  <2>2. base' \in [Reqs -> SUBSET Write] /\ left' \in [Reqs -> SUBSET IDs]
    BY DEF Finish, Shape, TypeOK
  <2>3. status' \in [Reqs -> Outcome]
    BY DEF Finish, Shape, TypeOK
  <2> QED
    BY <1>1, <2>1, <2>2, <2>3, RequestType DEF Shape
<1>3. AtItemOf(r)'
  BY <1>1 DEF AtItemOf
<1> QED
  BY <1>1, <1>2, <1>3, AtItemFrame DEF Shape

LEMMA GotoShape ==
  ASSUME Shape, NEW r \in Reqs, NEW pc \in PC, Goto(r, pc), AtItemOf(r)',
         UNCHANGED <<db, file, phase, starts, req, failed, saverVars, historyVars>>
  PROVE  Shape'
<1>1. /\ rpc' = [rpc EXCEPT ![r] = pc] /\ rpc \in [Reqs -> PC]
      /\ UNCHANGED <<idx, base, left, status>>
  BY DEF Goto, Shape, TypeOK
<1>2. rpc' \in [Reqs -> PC]
  BY <1>1
<1>3. TypeOK'
  BY <1>1, <1>2 DEF Shape, TypeOK, saverVars, historyVars
<1> QED
  BY <1>1, <1>3, AtItemFrame DEF Shape

LEMMA DieShape ==
  ASSUME Shape, NEW how \in Phase, Die(how),
         UNCHANGED <<db, file, starts, req, idx, failed, historyVars>>
  PROVE  Shape'
<1>1. /\ phase' \in Phase
      /\ rpc' \in [Reqs -> PC] /\ status' \in [Reqs -> Outcome]
      /\ base' \in [Reqs -> SUBSET Write] /\ left' \in [Reqs -> SUBSET IDs]
  BY DEF Shape, TypeOK, Die, PC, Outcome
<1>2. /\ spc' \in [Savers -> SaverPC] /\ buf' \in [Savers -> [IDs -> Entry]]
      /\ todo' \in [Savers -> SUBSET IDs]
  BY DEF Die, SaverPC, EmptyDB, Absent, Entry
<1>3. TypeOK'
  BY <1>1, <1>2 DEF Shape, TypeOK, historyVars
<1>4. \A r \in Reqs : rpc'[r] = rpc[r] \/ rpc'[r] = "done"
  BY DEF Die
<1>5. AtItem'
  BY <1>4 DEF Shape, AtItem, AtItemOf, Cur
<1> QED
  BY <1>3, <1>5 DEF Shape

(* The first step of an item fits the item.                                   *)
LEMMA FirstStepFits ==
  ASSUME TypeOK, NEW r \in Reqs, req' = req,
         idx'[r] \in DOMAIN req[r].items,
         rpc'[r] = FirstStep(req[r].items[idx'[r]])
  PROVE  AtItemOf(r)' /\ rpc'[r] \in {"lookup", "store", "reject"}
<1>1. Cur(r)' = req[r].items[idx'[r]] /\ Cur(r)' \in Item
  BY InputType DEF Cur
<1>2. rpc'[r] \in {"lookup", "store", "reject"}
  BY DEF FirstStep
<1> QED
  BY <1>1, <1>2 DEF AtItemOf, FirstStep, Item

LEMMA NextItemShape ==
  ASSUME Shape, NEW r \in Reqs, NEW s \in Outcome,
         rpc[r] \in {"reload", "reject"},
         failed' \in [Reqs -> BOOLEAN], NextItem(r, s),
         UNCHANGED <<db, file, phase, starts, req, saverVars, historyVars>>
  PROVE  Shape'
<1>1. CASE Finish(r, s)
  BY <1>1, FinishShape
<1>2. CASE /\ idx[r] < Len(req[r].items)
           /\ idx' = [idx EXCEPT ![r] = @ + 1]
           /\ rpc' = [rpc EXCEPT ![r] = FirstStep(req[r].items[idx[r] + 1])]
           /\ UNCHANGED <<base, left, status>>
  <2>1. /\ idx[r] \in Nat /\ idx[r] + 1 \in DOMAIN req[r].items
        /\ idx \in [Reqs -> Nat \ {0}] /\ rpc \in [Reqs -> PC]
    BY <1>2, InputType DEF Shape, TypeOK
  <2>2. /\ idx'[r] = idx[r] + 1
        /\ rpc'[r] = FirstStep(req[r].items[idx'[r]])
        /\ \A q \in Reqs \ {r} : rpc'[q] = rpc[q] /\ idx'[q] = idx[q]
    BY <1>2, <2>1
  <2>3. AtItemOf(r)' /\ rpc'[r] \in {"lookup", "store", "reject"}
    BY <2>1, <2>2, FirstStepFits DEF Shape
  <2>4. AtItem'
    BY <2>2, <2>3, AtItemFrame DEF Shape
  <2>5. idx' \in [Reqs -> Nat \ {0}]
    BY <1>2, <2>1
  <2>6. rpc' \in [Reqs -> PC]
    BY <1>2, <2>1, <2>2, <2>3 DEF PC
  <2>7. TypeOK'
    BY <1>2, <2>5, <2>6 DEF Shape, TypeOK, saverVars, historyVars
  <2> QED
    BY <2>4, <2>7 DEF Shape
<1> QED
  BY <1>1, <1>2 DEF NextItem

(* A counter is stored only with a delta, and every entry stored is an Entry. *)
LEMMA NewEntryType ==
  ASSUME Shape, NEW r \in Reqs, rpc[r] = "store"
  PROVE  /\ Cur(r).id \in IDs
         /\ NewEntry(r) \in Entry
         /\ <<r, idx[r]>> \in Write
<1>1. Cur(r) \in Item /\ Cur(r).mtype \in {"gauge", "counter"}
  BY InputType DEF Shape, AtItem, AtItemOf, Cur
<1>2. idx[r] \in Nat \ {0} /\ base[r] \in SUBSET Write
  BY DEF Shape, TypeOK
<1>3. <<r, idx[r]>> \in Write
  BY <1>2 DEF Write
<1> QED
  BY <1>1, <1>2, <1>3 DEF NewEntry, Entry, Item

LEMMA ArriveShape == ASSUME Shape, NEW r \in Reqs, Arrive(r) PROVE Shape'
<1> DEFINE q == req[r]
<1>1. UNCHANGED <<db, file, phase, starts, req, failed, saverVars, historyVars>>
  BY DEF Arrive
<1>2. /\ rpc[r] = "new" /\ idx[r] = 1
      /\ failed \in [Reqs -> BOOLEAN] /\ rpc \in [Reqs -> PC]
  BY DEF Arrive, Shape, TypeOK, AtItem, AtItemOf
<1>3. ASSUME NEW s \in {"refused", "ok"}, Finish(r, s) PROVE Shape'
  <2>1. s \in Outcome /\ failed' \in [Reqs -> BOOLEAN]
    BY <1>1, <1>2, <1>3 DEF Outcome
  <2> QED
    BY <1>1, <1>3, <2>1, FinishShape
<1>4. ASSUME q.items # <<>> PROVE 1 \in DOMAIN q.items
  BY <1>4, InputType DEF Shape
<1>5. CASE q.items # <<>> /\ Goto(r, FirstStep(q.items[1]))
  <2>1. idx'[r] = 1 /\ rpc'[r] = FirstStep(req[r].items[idx'[r]])
    BY <1>2, <1>5 DEF Goto
  <2>2. AtItemOf(r)' /\ rpc'[r] \in {"lookup", "store", "reject"}
    BY <1>1, <1>4, <1>5, <2>1, FirstStepFits DEF Shape
  <2>3. FirstStep(q.items[1]) \in PC
    BY DEF FirstStep, PC
  <2> QED
    BY <1>1, <1>5, <2>2, <2>3, GotoShape
<1>6. CASE q.items # <<>> /\ Goto(r, "find")
  <2>1. AtItemOf(r)'
    BY <1>1, <1>2, <1>4, <1>6 DEF AtItemOf, Goto
  <2> QED
    BY <1>1, <1>6, <2>1, GotoShape DEF PC
<1>7. CASE /\ rpc' = [rpc EXCEPT ![r] = "page"]
           /\ left' = [left EXCEPT ![r] = IDs]
           /\ UNCHANGED <<idx, base, status>>
  <2>1. AtItem'
    BY <1>1, <1>2, <1>7, AtItemFrame DEF Shape, AtItemOf
  <2>2. rpc' \in [Reqs -> PC]
    BY <1>2, <1>7 DEF PC
  <2>3. left' \in [Reqs -> SUBSET IDs]
    BY <1>7 DEF Shape, TypeOK
  <2>4. TypeOK'
    BY <1>1, <1>7, <2>2, <2>3 DEF Shape, TypeOK, saverVars, historyVars
  <2> QED
    BY <2>1, <2>4 DEF Shape
<1> QED
  BY <1>3, <1>5, <1>6, <1>7 DEF Arrive

LEMMA HandleShape == ASSUME Shape, NEW r \in Reqs, Handle(r) PROVE Shape'
<1>1. /\ failed \in [Reqs -> BOOLEAN] /\ rpc \in [Reqs -> PC]
      /\ idx \in [Reqs -> Nat \ {0}]
      /\ base \in [Reqs -> SUBSET Write] /\ left \in [Reqs -> SUBSET IDs]
      /\ AtItemOf(r)
  BY DEF Shape, TypeOK, AtItem
<1>2. ASSUME NEW s \in Outcome, Finish(r, s),
             UNCHANGED <<db, file, phase, starts, req, failed, saverVars, historyVars>>
      PROVE  Shape'
  BY <1>1, <1>2, FinishShape
<1>3. CASE Lookup(r)
  <2>1. UNCHANGED <<db, file, phase, starts, req, failed, saverVars, historyVars>>
    BY <1>3 DEF Lookup
  <2>2. CASE Finish(r, "panic")
    BY <1>2, <2>1, <2>2 DEF Outcome
  <2>3. CASE Goto(r, "load")
    <3>1. AtItemOf(r)'
      BY <1>1, <1>3, <2>1, <2>3 DEF Lookup, AtItemOf, Goto, Cur
    <3> QED
      BY <2>1, <2>3, <3>1, GotoShape DEF PC
  <2>4. CASE Cur(r).arg # "nil" /\ Goto(r, "store")
    <3>1. AtItemOf(r)'
      BY <1>1, <1>3, <2>1, <2>4 DEF Lookup, AtItemOf, Goto, Cur
    <3> QED
      BY <2>1, <2>4, <3>1, GotoShape DEF PC
  <2> QED
    BY <1>3, <2>2, <2>3, <2>4 DEF Lookup
<1>4. CASE Load(r)
  <2>1. UNCHANGED <<db, file, phase, starts, req, failed, saverVars, historyVars>>
    BY <1>4 DEF Load
  <2>2. CASE Finish(r, "panic")
    BY <1>2, <2>1, <2>2 DEF Outcome
  <2>3. CASE /\ Cur(r).arg # "nil" /\ rpc' = [rpc EXCEPT ![r] = "store"]
             /\ base' = [base EXCEPT ![r] = db[Cur(r).id].from]
             /\ UNCHANGED <<idx, left, status>>
    <3>1. rpc[r] = "load" /\ idx[r] \in DOMAIN req[r].items
      BY <1>1, <1>4 DEF Load, AtItemOf
    <3>2. Cur(r).id \in IDs
      BY <3>1, InputType DEF Shape, Cur, Item
    <3>3. db[Cur(r).id].from \in SUBSET Write
      BY <3>2 DEF Shape, TypeOK, Entry
    <3>4. base' \in [Reqs -> SUBSET Write] /\ rpc' \in [Reqs -> PC]
      BY <1>1, <2>3, <3>3 DEF PC
    <3>5. TypeOK'
      BY <2>1, <2>3, <3>4 DEF Shape, TypeOK, saverVars, historyVars
    <3>6. AtItemOf(r)'
      BY <1>1, <2>1, <2>3, <3>1 DEF AtItemOf, Cur
    <3>7. AtItem'
      BY <1>1, <2>1, <2>3, <3>6, AtItemFrame DEF Shape
    <3> QED
      BY <3>5, <3>7 DEF Shape
  <2> QED
    BY <1>4, <2>2, <2>3 DEF Load
<1>5. CASE Store(r)
  <2>1. Cur(r).id \in IDs /\ NewEntry(r) \in Entry /\ <<r, idx[r]>> \in Write
    BY <1>5, NewEntryType DEF Store
  <2>2. /\ rpc' = [rpc EXCEPT ![r] = "reload"] /\ base' = [base EXCEPT ![r] = {}]
        /\ UNCHANGED <<file, phase, starts, req, idx, left, failed, status, saverVars, solo>>
        /\ rpc[r] = "store"
    BY <1>5 DEF Store
  <2>3. /\ db' \in [IDs -> Entry] /\ acc' \in [IDs -> SUBSET Write]
        /\ made' \in SUBSET Write /\ raced' \in SUBSET IDs
    BY <1>5, <2>1 DEF Store, Shape, TypeOK
  <2>4. rpc' \in [Reqs -> PC] /\ base' \in [Reqs -> SUBSET Write]
    BY <1>1, <2>2 DEF PC
  <2>5. TypeOK'
    BY <2>2, <2>3, <2>4 DEF Shape, TypeOK, saverVars
  <2>6. AtItemOf(r)'
    BY <1>1, <2>2 DEF AtItemOf, Cur
  <2>7. AtItem'
    BY <1>1, <2>2, <2>6, AtItemFrame DEF Shape
  <2> QED
    BY <2>5, <2>7 DEF Shape
<1>6. CASE Reload(r)
  <2> DEFINE e == db[Cur(r).id]
             bad == failed[r] \/ (req[r].route = "batch" /\ IsNaN(e))
  <2>1. rpc[r] = "reload" /\ failed' = [failed EXCEPT ![r] = bad]
        /\ NextItem(r, Answer(r, e, bad))
        /\ UNCHANGED <<db, file, phase, starts, req, saverVars, historyVars>>
    BY <1>6 DEF Reload
  <2>2. Answer(r, e, bad) \in Outcome
    BY DEF Answer, Outcome
  <2>3. bad \in BOOLEAN
    BY <1>1 DEF IsNaN
  <2>4. failed' \in [Reqs -> BOOLEAN]
    BY <1>1, <2>1, <2>3
  <2> QED
    BY <2>1, <2>2, <2>4, NextItemShape
<1>7. CASE Reject(r)
  <2>1. failed' \in [Reqs -> BOOLEAN]
    BY <1>1, <1>7 DEF Reject
  <2>2. (IF req[r].route = "json" THEN "refused" ELSE "error") \in Outcome
    BY DEF Outcome
  <2> QED
    BY <1>7, <2>1, <2>2, NextItemShape DEF Reject
<1>8. CASE Find(r)
  <2> DEFINE e == db[Cur(r).id]
             s == IF e.mtype = "absent" THEN "notfound"
                  ELSE IF req[r].route = "getJSON" /\ IsNaN(e) THEN "error"
                  ELSE "ok"
  <2>1. Finish(r, s) /\ s \in Outcome
    BY <1>8 DEF Find, Outcome
  <2> QED
    BY <1>2, <1>8, <2>1 DEF Find
<1>9. CASE PageKey(r)
  <2>1. UNCHANGED <<db, file, phase, starts, req, failed, saverVars, historyVars>>
    BY <1>9 DEF PageKey
  <2>2. ASSUME NEW s \in {"ok", "panic"}, Finish(r, s) PROVE Shape'
    BY <1>2, <2>1, <2>2 DEF Outcome
  <2>3. ASSUME NEW i \in left[r], left' = [left EXCEPT ![r] = @ \ {i}],
               UNCHANGED <<rpc, idx, base, status>>
        PROVE  Shape'
    <3>1. left' \in [Reqs -> SUBSET IDs]
      BY <1>1, <2>3
    <3>2. TypeOK'
      BY <2>1, <2>3, <3>1 DEF Shape, TypeOK, saverVars, historyVars
    <3>3. AtItem'
      BY <2>1, <2>3 DEF Shape, AtItem, AtItemOf, Cur
    <3> QED
      BY <3>2, <3>3 DEF Shape
  <2> QED
    BY <1>9, <2>2, <2>3 DEF PageKey
<1> QED
  BY <1>3, <1>4, <1>5, <1>6, <1>7, <1>8, <1>9 DEF Handle

(* What a save leaves in the file is typed like the file.                     *)
LEMMA SaveShape == ASSUME Shape, NEW s \in Savers, Save(s) PROVE Shape'
<1>1. EmptyDB \in [IDs -> Entry]
  BY DEF EmptyDB, Absent, Entry
<1>2. /\ file \in FileContent /\ solo \in BOOLEAN
      /\ db \in [IDs -> Entry]
      /\ spc \in [Savers -> SaverPC] /\ buf \in [Savers -> [IDs -> Entry]]
      /\ todo \in [Savers -> SUBSET IDs]
  BY DEF Shape, TypeOK
<1>3. [kind |-> "empty", db |-> EmptyDB] \in FileContent
  BY <1>1 DEF FileContent
<1>4. [kind |-> "torn", db |-> EmptyDB] \in FileContent
  BY <1>1 DEF FileContent
<1>5. ASSUME NEW stored \in BOOLEAN, NEW err \in BOOLEAN, Return(s, stored, err)
      PROVE  /\ spc' \in [Savers -> SaverPC] /\ buf' \in [Savers -> [IDs -> Entry]]
             /\ todo' \in [Savers -> SUBSET IDs]
  BY <1>1, <1>2, <1>5 DEF Return, SaverPC
<1>6. AtItem'
  <2>1. UNCHANGED <<rpc, idx, req>>
    BY DEF Save, Create, Marshal, WriteFile, requestVars
  <2> QED
    BY <2>1 DEF Shape, AtItem, AtItemOf, Cur
<1>7. CASE Create(s)
  <2>1. file' \in FileContent /\ solo' \in BOOLEAN
    BY <1>2, <1>3, <1>7 DEF Create
  <2>2. CASE Return(s, FALSE, TRUE)
    BY <1>5, <1>6, <1>7, <2>1, <2>2, SaverType DEF Create, Shape
  <2>3. CASE /\ spc' = [spc EXCEPT ![s] = "marshal"]
             /\ todo' = [todo EXCEPT ![s] = IDs]
             /\ UNCHANGED buf
    <3>1. spc' \in [Savers -> SaverPC] /\ todo' \in [Savers -> SUBSET IDs]
      BY <1>2, <2>3 DEF SaverPC
    <3> QED
      BY <1>2, <1>6, <1>7, <2>1, <2>3, <3>1, SaverType DEF Create, Shape
  <2> QED
    BY <1>7, <2>2, <2>3 DEF Create
<1>8. CASE Marshal(s)
  <2>1. UNCHANGED <<file, solo, db, phase, starts, req, requestVars, acc, made, raced>>
    BY <1>8 DEF Marshal, historyVars
  <2>2. CASE spc' = [spc EXCEPT ![s] = "write"] /\ UNCHANGED <<buf, todo>>
    <3>1. spc' \in [Savers -> SaverPC]
      BY <1>2, <2>2 DEF SaverPC
    <3> QED
      BY <1>2, <1>6, <2>1, <2>2, <3>1, SaverType DEF Shape
  <2>3. ASSUME NEW i \in todo[s], buf' = [buf EXCEPT ![s][i] = db[i]],
               todo' = [todo EXCEPT ![s] = @ \ {i}], UNCHANGED spc
        PROVE  Shape'
    <3>1. i \in IDs
      BY <1>2
    <3>2. buf' \in [Savers -> [IDs -> Entry]] /\ todo' \in [Savers -> SUBSET IDs]
      BY <1>2, <2>3, <3>1
    <3> QED
      BY <1>2, <1>6, <2>1, <2>3, <3>2, SaverType DEF Shape
  <2> QED
    BY <1>8, <2>2, <2>3 DEF Marshal
<1>9. CASE WriteFile(s)
  <2>1. Written(s) \subseteq FileContent
    BY <1>1, <1>2 DEF Written, FileContent
  <2>2. file' \in FileContent
    BY <1>2, <1>4, <1>9, <2>1 DEF WriteFile
  <2>3. Return(s, TRUE, FALSE) \/ Return(s, FALSE, FALSE)
    BY <1>9 DEF WriteFile
  <2>4. UNCHANGED <<solo, db, phase, starts, req, requestVars, acc, made, raced>>
    BY <1>9 DEF WriteFile, historyVars
  <2> QED
    BY <1>2, <1>5, <1>6, <2>2, <2>3, <2>4, SaverType DEF Shape
<1> QED
  BY <1>7, <1>8, <1>9 DEF Save

LEMMA StartShape == ASSUME Shape, Start PROVE Shape'
<1>1. NewMemstorage
  BY DEF Start
<1>2. db' \in [IDs -> Entry]
  BY <1>1 DEF NewMemstorage, Recovered, Shape, TypeOK, FileContent, EmptyDB, Absent, Entry
<1>3. file' \in FileContent
  BY <1>1 DEF NewMemstorage, Shape, TypeOK, FileContent, EmptyDB, Absent, Entry
<1>4. acc' \in [IDs -> SUBSET Write]
  BY <1>2 DEF Start, Entry
<1>5. TypeOK'
  BY <1>2, <1>3, <1>4 DEF Start, Shape, TypeOK, Phase, requestVars, saverVars
<1>6. AtItem'
  BY DEF Start, Shape, AtItem, AtItemOf, Cur, requestVars
<1> QED
  BY <1>5, <1>6 DEF Shape

LEMMA NextShape == ASSUME Shape, [Next]_vars PROVE Shape'
<1>1. CASE UNCHANGED vars
  BY <1>1 DEF Shape, TypeOK, AtItem, AtItemOf, Cur, vars, requestVars, saverVars, historyVars
<1>2. ASSUME NEW r \in Reqs, Arrive(r) \/ Handle(r) PROVE Shape'
  BY <1>2, ArriveShape, HandleShape
<1>3. ASSUME NEW s \in Savers, Save(s) PROVE Shape'
  BY <1>3, SaveShape
<1>4. CASE BackupService \/ Signal \/ Drained
  <2>1. spc' \in [Savers -> SaverPC] /\ phase' \in Phase
    BY <1>4 DEF BackupService, Signal, Drained, Shape, TypeOK, Savers, SaverPC, Phase, saverVars
  <2>2. UNCHANGED <<db, file, starts, req, requestVars, buf, todo, historyVars>>
    BY <1>4 DEF BackupService, Signal, Drained, saverVars
  <2>3. TypeOK'
    BY <2>1, <2>2 DEF Shape, TypeOK, requestVars, historyVars
  <2>4. AtItem'
    BY <2>2 DEF Shape, AtItem, AtItemOf, Cur, requestVars
  <2> QED
    BY <2>3, <2>4 DEF Shape
<1>5. CASE DrainTimeout \/ MapFault \/ Kill \/ Exit
  <2>1. PICK how \in {"failed", "fault", "killed", "saved", "unsaved"} : Die(how)
    BY <1>5 DEF DrainTimeout, MapFault, Kill, Exit
  <2>2. how \in Phase
    BY DEF Phase
  <2> QED
    BY <1>5, <2>1, <2>2, DieShape DEF DrainTimeout, MapFault, Kill, Exit
<1>6. CASE Start
  BY <1>6, StartShape
<1> QED
  BY <1>1, <1>2, <1>3, <1>4, <1>5, <1>6 DEF Next

(* Every variable has its type throughout, and with it a goroutine never      *)
(* works on an item its request does not have.                                *)
THEOREM ShapeInvariant == Spec => []Shape
<1> QED
  BY InitShape, NextShape, PTL DEF Spec

THEOREM TypeInvariant == Spec => []TypeOK
<1>1. Shape => TypeOK
  BY DEF Shape
<1> QED
  BY <1>1, ShapeInvariant, PTL

-------------------------------------------------------------------------------
(* Where values come from.                                                   *)

(* Only a goroutine about to store a counter holds a base, and all of it was  *)
(* counted for the name it is about to store.                                 *)
BaseTraced ==
  \A r \in Reqs : \A w \in base[r] :
    rpc[r] = "store" /\ Cur(r).mtype = "counter" /\ MadeFor(w, Cur(r).id, "counter")

Origins == Shape /\ Provenance /\ BaseTraced

(* What a step of one request leaves to the others, and how far it gets.      *)
LEMMA RequestFrame ==
  ASSUME Shape, NEW r \in Reqs, Arrive(r) \/ Handle(r)
  PROVE  /\ UNCHANGED <<file, phase, starts, req, saverVars, solo>>
         /\ \A q \in Reqs \ {r} : /\ rpc'[q] = rpc[q] /\ idx'[q] = idx[q]
                                  /\ base'[q] = base[q]
         /\ rpc[r] # "done"
         /\ \/ idx'[r] = idx[r]
            \/ rpc[r] \in {"reload", "reject"} /\ idx'[r] = idx[r] + 1
         /\ rpc[r] = "reload" /\ idx'[r] = idx[r] => rpc'[r] = "done"
<1> USE DEF Shape, TypeOK, Finish, Goto, saverVars, historyVars
<1>1. CASE Arrive(r)
  BY <1>1 DEF Arrive
<1>2. CASE Lookup(r)
  BY <1>2 DEF Lookup
<1>3. CASE Load(r)
  BY <1>3 DEF Load
<1>4. CASE Store(r)
  BY <1>4 DEF Store
<1>5. CASE Reload(r)
  BY <1>5 DEF Reload, NextItem
<1>6. CASE Reject(r)
  BY <1>6 DEF Reject, NextItem
<1>7. CASE Find(r)
  BY <1>7 DEF Find
<1>8. CASE PageKey(r)
  BY <1>8 DEF PageKey
<1> QED
  BY <1>1, <1>2, <1>3, <1>4, <1>5, <1>6, <1>7, <1>8 DEF Handle

(* The other steps move no request, unless the process ends under it.         *)
LEMMA SystemFrame ==
  ASSUME Shape, [Next]_vars, ~\E r \in Reqs : Arrive(r) \/ Handle(r)
  PROVE  /\ UNCHANGED <<req, idx>>
         /\ \A r \in Reqs :
              \/ rpc'[r] = rpc[r] /\ base'[r] = base[r]
              \/ rpc'[r] \in {rpc[r], "done"} \intersect {"new", "done"} /\ base'[r] = {}
<1> USE DEF Shape, TypeOK, requestVars, saverVars, historyVars
<1>1. CASE UNCHANGED vars
  BY <1>1 DEF vars
<1>2. CASE BackupService \/ Signal \/ Drained \/ Start
  BY <1>2 DEF BackupService, Signal, Drained, Start
<1>3. CASE \E s \in Savers : Save(s)
  BY <1>3 DEF Save, Create, Marshal, WriteFile
<1>4. CASE DrainTimeout \/ MapFault \/ Kill \/ Exit
  <2>1. /\ UNCHANGED <<req, idx>>
        /\ \A r \in Reqs : /\ rpc'[r] = IF r \in InFlight THEN "done" ELSE rpc[r]
                          /\ base'[r] = {}
    BY <1>4 DEF DrainTimeout, MapFault, Kill, Exit, Die
  <2>2. \A r \in Reqs : r \notin InFlight => rpc[r] \in {"new", "done"}
    BY DEF InFlight
  <2> QED
    BY <2>1, <2>2
<1> QED
  BY <1>1, <1>2, <1>3, <1>4 DEF Next

(* A request asks for the same thing for ever, and a write once made stays    *)
(* made.                                                                      *)
LEMMA DoneGrows ==
  ASSUME Shape, [Next]_vars
  PROVE  req' = req /\ \A r \in Reqs : Done(r) \subseteq Done(r)'
<1>1. \A r \in Reqs : idx[r] \in Nat \ {0}
  BY DEF Shape, TypeOK
<1>2. CASE \E r \in Reqs : Arrive(r) \/ Handle(r)
  <2>1. PICK r \in Reqs : Arrive(r) \/ Handle(r)
    BY <1>2
  <2>2. Done(r) \subseteq Done(r)'
    BY <1>1, <2>1, RequestFrame DEF Done
  <2>3. \A q \in Reqs \ {r} : Done(q) \subseteq Done(q)'
    BY <1>1, <2>1, RequestFrame DEF Done
  <2> QED
    BY <2>1, <2>2, <2>3, RequestFrame
<1>3. CASE ~\E r \in Reqs : Arrive(r) \/ Handle(r)
  BY <1>1, <1>3, SystemFrame DEF Done
<1> QED
  BY <1>2, <1>3

LEMMA InitOrigins == Init => Origins
<1> SUFFICES ASSUME Init PROVE Origins
  OBVIOUS
<1>1. Provenance
  BY DEF Init, Provenance, Traced, EmptyDB, Absent
<1>2. BaseTraced
  BY DEF Init, BaseTraced
<1> QED
  BY <1>1, <1>2, InitShape DEF Origins

(* An entry that is neither a gauge nor a counter holds nothing.              *)
LEMMA AbsentIsEmpty ==
  ASSUME Shape, Provenance, NEW i \in IDs, db[i].mtype = "absent"
  PROVE  db[i].from = {}
<1> SUFFICES ASSUME NEW w \in db[i].from PROVE FALSE
  BY DEF Shape, TypeOK, Entry
<1>1. w \in Write
  BY DEF Shape, TypeOK, Entry
<1>2. w[1] \in Reqs /\ MadeFor(w, i, "absent")
  BY <1>1 DEF Provenance, Traced, Write
<1>3. req[w[1]].items[w[2]] \in Item /\ req[w[1]].items[w[2]].mtype = "absent"
  BY <1>2, InputType DEF Shape, MadeFor
<1> QED
  BY <1>3 DEF Item

(* Where what is in the map, in the file and in a save comes from.            *)
LEMMA MapComesFrom ==
  ASSUME [Next]_vars
  PROVE  \/ db' = db \/ db' = EmptyDB \/ db' = file.db
         \/ \E r \in Reqs : Store(r)
BY DEF Next, vars, Arrive, Handle, Lookup, Load, Reload, Reject, Find, PageKey, Save, Create,
       Marshal, WriteFile, BackupService, Signal, Drained, DrainTimeout, MapFault, Kill,
       Exit, Start, NewMemstorage, Recovered

LEMMA FileComesFrom ==
  ASSUME Shape, [Next]_vars
  PROVE  \/ file'.db = file.db \/ file'.db = EmptyDB
         \/ \E s \in Savers : file'.db = buf[s]
<1>1. CASE \E r \in Reqs : Arrive(r) \/ Handle(r)
  BY <1>1, RequestFrame
<1>2. ASSUME NEW s \in Savers, Save(s)
      PROVE  file'.db = file.db \/ file'.db = EmptyDB \/ file'.db = buf[s]
  <2>1. \A f \in Written(s) : f.db = file.db \/ f.db = EmptyDB \/ f.db = buf[s]
    BY DEF Written
  <2>2. CASE Create(s)
    <3>1. file' = [kind |-> "empty", db |-> EmptyDB] \/ file' = file
      BY <2>2 DEF Create
    <3> QED
      BY <3>1
  <2>3. CASE Marshal(s)
    BY <2>3 DEF Marshal
  <2>4. CASE WriteFile(s)
    <3>1. \/ file' \in Written(s) \/ file' = file
          \/ file' = [kind |-> "torn", db |-> EmptyDB]
      BY <2>4 DEF WriteFile
    <3> QED
      BY <2>1, <3>1
  <2> QED
    BY <1>2, <2>2, <2>3, <2>4 DEF Save
<1>3. CASE Start
  BY <1>3 DEF Start, NewMemstorage, Shape, TypeOK, FileContent
<1>4. CASE UNCHANGED vars \/ BackupService \/ Signal \/ Drained \/ DrainTimeout
           \/ MapFault \/ Kill \/ Exit
  BY <1>4 DEF vars, BackupService, Signal, Drained, DrainTimeout, MapFault, Kill, Exit
<1> QED
  BY <1>1, <1>2, <1>3, <1>4 DEF Next, Shape

LEMMA SaveComesFrom ==
  ASSUME Shape, [Next]_vars, NEW s \in Savers
  PROVE  \/ buf'[s] = buf[s] \/ buf'[s] = EmptyDB
         \/ db' = db /\ \E i \in IDs : buf'[s] = [buf[s] EXCEPT ![i] = db[i]]
<1>1. CASE \E r \in Reqs : Arrive(r) \/ Handle(r)
  BY <1>1, RequestFrame DEF saverVars
<1>2. ASSUME NEW t \in Savers, Create(t) \/ WriteFile(t)
      PROVE  buf'[s] = buf[s] \/ buf'[s] = EmptyDB
  BY <1>2 DEF Create, WriteFile, Return, Shape, TypeOK
<1>3. ASSUME NEW t \in Savers, Marshal(t)
      PROVE  \/ buf'[s] = buf[s]
             \/ db' = db /\ \E i \in IDs : buf'[s] = [buf[s] EXCEPT ![i] = db[i]]
  <2>1. db' = db /\ todo[t] \subseteq IDs /\ buf \in [Savers -> [IDs -> Entry]]
    BY <1>3 DEF Marshal, Shape, TypeOK
  <2>2. ASSUME NEW i \in IDs, buf' = [buf EXCEPT ![t][i] = db[i]]
        PROVE  buf'[s] = buf[s] \/ buf'[s] = [buf[s] EXCEPT ![i] = db[i]]
    BY <2>1, <2>2
  <2>3. buf' = buf \/ \E i \in IDs : buf' = [buf EXCEPT ![t][i] = db[i]]
    BY <1>3, <2>1 DEF Marshal
  <2> QED
    BY <2>1, <2>2, <2>3
<1>4. CASE UNCHANGED vars \/ BackupService \/ Signal \/ Drained \/ Start
  BY <1>4 DEF vars, saverVars, BackupService, Signal, Drained, Start
<1>5. CASE DrainTimeout \/ MapFault \/ Kill \/ Exit
  BY <1>5 DEF DrainTimeout, MapFault, Kill, Exit, Die
<1> QED
  BY <1>1, <1>2, <1>3, <1>4, <1>5 DEF Next, Save

(* The map: an entry stored is made of the base, counted for the same name,   *)
(* and of the write that is made with it.                                     *)
LEMMA NextTracesMap ==
  ASSUME Origins, [Next]_vars PROVE Traced(db)'
<1> USE DEF Origins, Provenance
<1>1. req' = req /\ \A r \in Reqs : Done(r) \subseteq Done(r)'
  BY DoneGrows
<1>2. \A i \in IDs : \A w \in db[i].from \union file.db[i].from : w \in Write
  BY DEF Shape, TypeOK, Entry, FileContent
<1>3. \A w \in Write : w[1] \in Reqs
  BY DEF Write
<1>4. CASE db' = db
  BY <1>1, <1>2, <1>3, <1>4 DEF Traced, MadeFor
<1>5. CASE db' = EmptyDB
  BY <1>5 DEF Traced, EmptyDB, Absent
<1>6. CASE db' = file.db
  BY <1>1, <1>2, <1>3, <1>6 DEF Traced, MadeFor
<1>7. ASSUME NEW r \in Reqs, Store(r) PROVE Traced(db)'
  <2> DEFINE i == Cur(r).id
  <2>1. i \in IDs /\ db' = [db EXCEPT ![i] = NewEntry(r)] /\ rpc'[r] = "reload"
        /\ idx' = idx /\ idx[r] \in Nat \ {0} /\ idx[r] \in DOMAIN req[r].items
    BY <1>7, NewEntryType DEF Store, Shape, TypeOK, AtItem, AtItemOf
  <2>2. idx[r] \in Done(r)'
    BY <2>1 DEF Done
  <2>3. ASSUME NEW w \in NewEntry(r).from PROVE MadeFor(w, Cur(r).id, Cur(r).mtype)'
    <3>1. CASE w = <<r, idx[r]>>
      BY <1>1, <2>1, <2>2, <3>1 DEF MadeFor, Cur
    <3>2. CASE w \in base[r]
      <4>1. w \in Write /\ MadeFor(w, Cur(r).id, "counter") /\ Cur(r).mtype = "counter"
        BY <3>2 DEF BaseTraced, Shape, TypeOK
      <4> QED
        BY <1>1, <1>3, <2>1, <4>1 DEF MadeFor, Cur
    <3> QED
      BY <3>1, <3>2 DEF NewEntry
  <2>4. ASSUME NEW j \in IDs, NEW w \in db'[j].from PROVE MadeFor(w, j, db[j].mtype)'
    <3>1. CASE j = i
      <4>1. db'[j] = NewEntry(r) /\ Cur(r)' = Cur(r)
        BY <1>1, <2>1, <3>1 DEF Shape, TypeOK, Cur
      <4> QED
        BY <2>3, <3>1, <4>1 DEF NewEntry, MadeFor
    <3>2. CASE j # i
      <4>1. db'[j] = db[j]
        BY <2>1, <3>2 DEF Shape, TypeOK
      <4> QED
        BY <1>1, <1>2, <1>3, <4>1 DEF Traced, MadeFor
    <3> QED
      BY <3>1, <3>2
  <2> QED
    BY <2>4 DEF Traced
<1> QED
  BY <1>4, <1>5, <1>6, <1>7, MapComesFrom

(* The file: it is the map as a save has read it, or as it was, or nothing.   *)
LEMMA NextTracesFile ==
  ASSUME Origins, [Next]_vars PROVE Traced(file.db)' /\ \A s \in Savers : Traced(buf[s])'
<1> USE DEF Origins, Provenance
<1>1. req' = req /\ \A r \in Reqs : Done(r) \subseteq Done(r)'
  BY DoneGrows
<1>2. /\ \A i \in IDs : \A w \in db[i].from \union file.db[i].from : w \in Write
      /\ \A s \in Savers : \A i \in IDs : \A w \in buf[s][i].from : w \in Write
  BY DEF Shape, TypeOK, Entry, FileContent
<1>3. \A w \in Write : w[1] \in Reqs
  BY DEF Write
<1>4. /\ file'.db = file.db => Traced(file.db)'
      /\ \A s \in Savers : file'.db = buf[s] => Traced(file.db)'
      /\ file'.db = EmptyDB => Traced(file.db)'
  BY <1>1, <1>2, <1>3 DEF Traced, MadeFor, EmptyDB, Absent
<1>5. ASSUME NEW s \in Savers PROVE Traced(buf[s])'
  <2>1. /\ buf'[s] = buf[s] => Traced(buf[s])'
        /\ buf'[s] = EmptyDB => Traced(buf[s])'
    BY <1>1, <1>2, <1>3 DEF Traced, MadeFor, EmptyDB, Absent
  <2>2. ASSUME NEW i \in IDs, db' = db, buf'[s] = [buf[s] EXCEPT ![i] = db[i]]
        PROVE  Traced(buf[s])'
    <3>1. ASSUME NEW j \in IDs, NEW w \in buf'[s][j].from
          PROVE  MadeFor(w, j, buf[s][j].mtype)'
      <4>1. buf[s] \in [IDs -> Entry]
        BY DEF Shape, TypeOK
      <4>2. CASE j = i
        <5>1. buf'[s][j] = db[j]
          BY <2>2, <4>1, <4>2
        <5> QED
          BY <1>1, <1>2, <1>3, <5>1 DEF Traced, MadeFor
      <4>3. CASE j # i
        <5>1. buf'[s][j] = buf[s][j]
          BY <2>2, <4>1, <4>3
        <5> QED
          BY <1>1, <1>2, <1>3, <5>1 DEF Traced, MadeFor
      <4> QED
        BY <4>2, <4>3
    <3> QED
      BY <3>1 DEF Traced
  <2> QED
    BY <2>1, <2>2, SaveComesFrom
<1> QED
  BY <1>4, <1>5, FileComesFrom

(* A base: it is what the map held for that name when it was read.            *)
LEMMA NextTracesBase ==
  ASSUME Origins, [Next]_vars PROVE BaseTraced'
<1> USE DEF Origins
<1>1. req' = req /\ \A r \in Reqs : Done(r) \subseteq Done(r)'
  BY DoneGrows
<1>2. \A r \in Reqs : \A w \in base[r] : w \in Write /\ w[1] \in Reqs
  BY DEF Shape, TypeOK, Write
<1>3. ASSUME NEW r \in Reqs, rpc'[r] = rpc[r], idx'[r] = idx[r], base'[r] = base[r],
             NEW w \in base'[r]
      PROVE  /\ rpc'[r] = "store" /\ Cur(r)'.mtype = "counter"
             /\ MadeFor(w, Cur(r).id, "counter")'
  BY <1>1, <1>2, <1>3 DEF BaseTraced, MadeFor, Cur
<1>4. CASE ~\E r \in Reqs : Arrive(r) \/ Handle(r)
  BY <1>3, <1>4, SystemFrame DEF BaseTraced
<1>5. ASSUME NEW r \in Reqs, Arrive(r) \/ Handle(r) PROVE BaseTraced'
  <2>1. \A q \in Reqs \ {r} : rpc'[q] = rpc[q] /\ idx'[q] = idx[q] /\ base'[q] = base[q]
    BY <1>5, RequestFrame
  <2>2. CASE base'[r] = {}
    BY <1>3, <2>1, <2>2 DEF BaseTraced
  <2>3. CASE Load(r) /\ base'[r] # {}
    <3> DEFINE i == Cur(r).id
    <3>1. /\ i \in IDs /\ Cur(r).mtype = "counter"
          /\ db[i].mtype # "gauge" /\ base'[r] = db[i].from
          /\ rpc'[r] = "store" /\ idx' = idx
      <4>1. rpc[r] = "load" /\ idx[r] \in DOMAIN req[r].items /\ Cur(r).mtype = "counter"
        BY <2>3 DEF Load, Shape, AtItem, AtItemOf
      <4>2. i \in IDs
        BY <4>1, InputType DEF Shape, Cur, Item
      <4>3. r \in DOMAIN base /\ r \in DOMAIN rpc
        BY DEF Shape, TypeOK
      <4> QED
        BY <2>3, <4>1, <4>2, <4>3 DEF Load, Finish
    <3>2. db[i].mtype = "counter"
      BY <2>3, <3>1, AbsentIsEmpty DEF Shape, TypeOK, Entry
    <3>3. ASSUME NEW w \in base'[r] PROVE MadeFor(w, Cur(r).id, "counter")'
      <4>1. w \in db[i].from /\ w[1] \in Reqs
        BY <3>1, <3>3 DEF Shape, TypeOK, Entry, Write
      <4> QED
        BY <1>1, <3>1, <3>2, <4>1 DEF Provenance, Traced, MadeFor, Cur
    <3> QED
      BY <1>1, <1>3, <2>1, <3>1, <3>3 DEF BaseTraced, Cur
  <2>4. base'[r] = {} \/ Load(r)
    <3>1. rpc[r] # "store" => base[r] = {}
      BY DEF BaseTraced
    <3> QED
      BY <1>5, <3>1 DEF Arrive, Handle, Lookup, Store, Reload, Reject, Find, PageKey,
                        Finish, Goto, NextItem, Shape, TypeOK
  <2> QED
    BY <2>2, <2>3, <2>4
<1> QED
  BY <1>4, <1>5

LEMMA NextOrigins == ASSUME Origins, [Next]_vars PROVE Origins'
BY NextShape, NextTracesMap, NextTracesFile, NextTracesBase DEF Origins, Provenance

THEOREM OriginsInvariant == Spec => []Origins
<1> QED
  BY InitOrigins, NextOrigins, PTL DEF Spec

(* Provenance holds of every behaviour of the storage: what is in the map, in *)
(* the file or in a save was written by a request for that name and type.     *)
THEOREM ProvenanceInvariant == Spec => []Provenance
<1>1. Origins => Provenance
  BY DEF Origins
<1> QED
  BY <1>1, OriginsInvariant, PTL

(* No increment is ever added to a base that already holds it.                *)
THEOREM NoDoubleCountInvariant == Spec => []NoDoubleCount
<1>1. Origins => NoDoubleCount
  <2> SUFFICES ASSUME Origins, NEW r \in Reqs, rpc[r] = "store", <<r, idx[r]>> \in base[r]
               PROVE  FALSE
    BY DEF NoDoubleCount
  <2>1. idx[r] \in Done(r)
    BY DEF Origins, BaseTraced, MadeFor
  <2> QED
    BY <2>1 DEF Done, Origins, Shape, TypeOK
<1> QED
  BY <1>1, OriginsInvariant, PTL

-------------------------------------------------------------------------------
(* Counters without a race.                                                  *)

(* Nobody is at work in a process that has ended; and for a name that was not *)
(* raced for, the entry is the history's, and whoever holds a base for it     *)
(* holds just that.                                                           *)
Ended == ~Running => InFlight = {}

Exact ==
  \A i \in IDs \ raced :
    /\ db[i].mtype = "counter" => db[i].from = acc[i]
    /\ db[i].mtype # "counter" => acc[i] = {}
    /\ \A r \in HoldsBase(i) : db[i].mtype # "gauge" /\ base[r] = acc[i]

Counted == Origins /\ Ended /\ Exact

LEMMA InitCounted == Init => Counted
<1> SUFFICES ASSUME Init PROVE Counted
  OBVIOUS
<1>1. Ended
  BY DEF Init, Ended, Running
<1>2. Exact
  BY DEF Init, Exact, EmptyDB, Absent, HoldsBase
<1> QED
  BY <1>1, <1>2, InitOrigins DEF Counted

LEMMA NextEnded == ASSUME Counted, [Next]_vars PROVE Ended'
<1> USE DEF Counted, Ended
<1>1. ASSUME NEW r \in Reqs, Arrive(r) PROVE Ended'
  BY <1>1 DEF Arrive, Running
<1>2. ASSUME NEW r \in Reqs, Handle(r) PROVE Ended'
  <2>1. phase' = phase /\ r \in InFlight
    BY <1>2, RequestFrame DEF Origins, Handle, Lookup, Load, Store, Reload, Reject, Find,
       PageKey, InFlight
  <2> QED
    BY <2>1 DEF Running
<1>3. ASSUME NEW s \in Savers, Save(s) PROVE Ended'
  <2>1. phase' = phase /\ rpc' = rpc
    BY <1>3 DEF Save, Create, Marshal, WriteFile, requestVars
  <2> QED
    BY <2>1 DEF Running, InFlight
<1>4. CASE BackupService \/ UNCHANGED vars
  BY <1>4 DEF BackupService, vars, requestVars, Running, InFlight
<1>5. CASE Signal \/ Drained \/ Start
  BY <1>5 DEF Signal, Drained, Start, Running
<1>6. CASE DrainTimeout \/ MapFault \/ Kill \/ Exit
  <2>1. InFlight' = {}
    BY <1>6 DEF DrainTimeout, MapFault, Kill, Exit, Die, InFlight
  <2> QED
    BY <2>1
<1> QED
  BY <1>1, <1>2, <1>3, <1>4, <1>5, <1>6 DEF Next

(* A name is only raced for when a goroutine stores while another holds a     *)
(* base; a store that finds nobody else holding one adds to what it has read. *)
LEMMA StoreExact ==
  ASSUME Counted, NEW r \in Reqs, Store(r) PROVE Exact'
<1> USE DEF Counted, Origins, Shape
<1> DEFINE w == <<r, idx[r]>>
<1>1. PICK i \in IDs :
      /\ i = Cur(r).id /\ rpc[r] = "store" /\ rpc' = [rpc EXCEPT ![r] = "reload"]
      /\ base' = [base EXCEPT ![r] = {}] /\ UNCHANGED <<req, idx>>
      /\ db' = [db EXCEPT ![i] = NewEntry(r)]
      /\ acc' = [acc EXCEPT ![i] = IF Cur(r).mtype = "gauge" THEN {} ELSE acc[i] \union {w}]
      /\ raced' = IF HoldsBase(i) \ {r} # {} THEN raced \union {i} ELSE raced
  BY NewEntryType DEF Store, requestVars
<1>2. Cur(r).mtype \in {"gauge", "counter"} /\ (Cur(r).mtype = "counter" => Cur(r).arg # "nil")
  BY <1>1 DEF AtItem, AtItemOf
<1>3. ASSUME NEW j \in IDs PROVE HoldsBase(j)' = HoldsBase(j) \ {r}
  BY <1>1 DEF HoldsBase, Cur, TypeOK
<1>4. ASSUME NEW q \in Reqs \ {r} PROVE base'[q] = base[q]
  BY <1>1 DEF TypeOK
<1>5. ASSUME NEW j \in IDs \ {i}, j \notin raced'
      PROVE  /\ db'[j].mtype = "counter" => db'[j].from = acc'[j]
             /\ db'[j].mtype # "counter" => acc'[j] = {}
             /\ \A q \in HoldsBase(j)' : db'[j].mtype # "gauge" /\ base'[q] = acc'[j]
  <2>1. db'[j] = db[j] /\ acc'[j] = acc[j] /\ j \notin raced
    BY <1>1, <1>5 DEF TypeOK
  <2>2. \A q \in HoldsBase(j)' : q \in HoldsBase(j) /\ q \in Reqs \ {r}
    BY <1>3 DEF HoldsBase
  <2> QED
    BY <1>4, <2>1, <2>2 DEF Exact
<1>6. ASSUME i \notin raced'
      PROVE  /\ db'[i].mtype = "counter" => db'[i].from = acc'[i]
             /\ db'[i].mtype # "counter" => acc'[i] = {}
             /\ HoldsBase(i)' = {}
  <2>1. HoldsBase(i) \ {r} = {} /\ i \notin raced
    BY <1>1, <1>6
  <2>2. db'[i] = NewEntry(r)
    BY <1>1 DEF TypeOK
  <2>3. acc'[i] = IF Cur(r).mtype = "gauge" THEN {} ELSE acc[i] \union {w}
    BY <1>1 DEF TypeOK
  <2>4. CASE Cur(r).mtype = "gauge"
    BY <1>1, <1>3, <2>1, <2>2, <2>3, <2>4 DEF NewEntry
  <2>5. CASE Cur(r).mtype = "counter"
    <3>1. r \in HoldsBase(i)
      BY <1>1, <2>5 DEF HoldsBase
    <3>2. base[r] = acc[i]
      BY <1>1, <2>1, <3>1 DEF Exact
    <3>3. NewEntry(r) = [mtype |-> "counter", from |-> acc[i] \union {w}]
      BY <1>2, <2>5, <3>2 DEF NewEntry
    <3>4. acc'[i] = acc[i] \union {w} /\ HoldsBase(i)' = {}
      BY <1>3, <2>1, <2>3, <2>5
    <3> QED
      BY <2>2, <3>3, <3>4
  <2> QED
    BY <1>2, <2>4, <2>5
<1> QED
  BY <1>1, <1>5, <1>6 DEF Exact

(* A request that begins to hold a base holds what the counter has.           *)
LEMMA HandleExact ==
  ASSUME Counted, NEW r \in Reqs, Arrive(r) \/ Handle(r), ~Store(r) PROVE Exact'
<1> USE DEF Counted, Origins, Shape
<1>1. UNCHANGED <<db, acc, made, raced>>
  BY DEF Arrive, Handle, Lookup, Load, Reload, Reject, Find, PageKey, historyVars
<1>2. /\ \A q \in Reqs \ {r} : rpc'[q] = rpc[q] /\ base'[q] = base[q] /\ Cur(q)' = Cur(q)
      /\ req' = req
  BY RequestFrame DEF Cur
<1>3. rpc[r] # "store" /\ base[r] = {}
  BY DEF Arrive, Handle, Lookup, Load, Reload, Reject, Find, PageKey, BaseTraced
<1>4. ASSUME NEW i \in IDs \ raced, rpc'[r] = "store", Cur(r)'.mtype = "counter",
             Cur(r)'.id = i
      PROVE  db[i].mtype # "gauge" /\ base'[r] = acc[i]
  <2>1. CASE Arrive(r)
    BY <1>4, <2>1 DEF Arrive, Goto, Finish, FirstStep, Cur, AtItem, AtItemOf, TypeOK
  <2>2. CASE Lookup(r)
    <3>1. Cur(r)' = Cur(r) /\ base' = base /\ db[Cur(r).id].mtype = "absent"
      BY <1>2, <1>4, <2>2 DEF Lookup, Goto, Finish, Cur, TypeOK
    <3> QED
      BY <1>3, <1>4, <3>1 DEF Exact
  <2>3. CASE Load(r)
    <3>1. Cur(r)' = Cur(r) /\ base'[r] = db[i].from /\ db[i].mtype # "gauge"
      BY <1>2, <1>4, <2>3 DEF Load, Finish, Cur, TypeOK
    <3>2. db[i].mtype \in {"absent", "counter"}
      BY <3>1 DEF TypeOK, Entry
    <3> QED
      BY <3>1, <3>2, AbsentIsEmpty DEF Exact
  <2>4. CASE Reload(r) \/ Reject(r)
    <3>1. rpc'[r] = "done" \/ rpc'[r] = FirstStep(Cur(r)')
      BY <1>2, <2>4 DEF Reload, Reject, NextItem, Finish, Cur, TypeOK
    <3> QED
      BY <1>4, <3>1 DEF FirstStep
  <2>5. CASE Find(r) \/ PageKey(r)
    BY <1>4, <2>5 DEF Find, PageKey, Finish, TypeOK
  <2> QED
    BY <2>1, <2>2, <2>3, <2>4, <2>5 DEF Handle
<1>5. ASSUME NEW i \in IDs \ raced, NEW q \in HoldsBase(i)'
      PROVE  db[i].mtype # "gauge" /\ base'[q] = acc[i]
  <2>1. CASE q = r
    BY <1>4, <1>5, <2>1 DEF HoldsBase
  <2>2. CASE q # r
    BY <1>2, <1>5, <2>2 DEF HoldsBase, Exact
  <2> QED
    BY <2>1, <2>2
<1> QED
  BY <1>1, <1>5 DEF Exact

LEMMA NextExact == ASSUME Counted, [Next]_vars PROVE Exact'
<1> USE DEF Counted, Origins
<1>1. ASSUME NEW r \in Reqs, Arrive(r) \/ Handle(r) PROVE Exact'
  BY <1>1, StoreExact, HandleExact
<1>2. CASE Start
  <2>1. rpc' = rpc /\ InFlight = {}
    BY <1>2 DEF Start, Ended, requestVars
  <2>2. \A i \in IDs : HoldsBase(i)' = {}
    BY <2>1 DEF HoldsBase, InFlight
  <2>3. \A i \in IDs : acc'[i] = IF db'[i].mtype = "counter" THEN db'[i].from ELSE {}
    BY <1>2 DEF Start
  <2> QED
    BY <2>2, <2>3 DEF Exact
<1>3. CASE ~Start /\ ~\E r \in Reqs : Arrive(r) \/ Handle(r)
  <2>1. UNCHANGED <<db, acc, raced, req, idx>>
    BY <1>3, SystemFrame DEF Next, vars, historyVars, Save, Create, Marshal, WriteFile,
       BackupService, Signal, Drained, DrainTimeout, MapFault, Kill, Exit
  <2>2. ASSUME NEW i \in IDs, NEW r \in HoldsBase(i)'
        PROVE  r \in HoldsBase(i) /\ base'[r] = base[r]
    <3>1. r \in Reqs /\ rpc'[r] = "store"
      BY <2>2 DEF HoldsBase
    <3>2. rpc'[r] = rpc[r] /\ base'[r] = base[r]
      BY <1>3, <3>1, SystemFrame
    <3> QED
      BY <2>1, <2>2, <3>1, <3>2 DEF HoldsBase, Cur
  <2> QED
    BY <2>1, <2>2 DEF Exact
<1> QED
  BY <1>1, <1>2, <1>3

THEOREM CountedInvariant == Spec => []Counted
<1>1. Counted /\ [Next]_vars => Counted'
  BY NextOrigins, NextEnded, NextExact DEF Counted
<1> QED
  BY <1>1, InitCounted, PTL DEF Spec

(* A counter that no two requests raced for holds every increment there was.  *)
THEOREM ExactUnlessRacedInvariant == Spec => []ExactUnlessRaced
<1>1. Counted => ExactUnlessRaced
  BY DEF Counted, Exact, ExactUnlessRaced
<1> QED
  BY <1>1, CountedInvariant, PTL

-------------------------------------------------------------------------------
(* The save at shutdown.                                                     *)

(* main saves while the process is in its last phase, which only begins with  *)
(* no request in flight, so that the map stands still: what main has read of  *)
(* it stays true.  As long as it is the only one at work on the file, it      *)
(* writes that into an empty one.                                             *)
MainAt(pcs) == spc["main"] \in pcs

Closing ==
  /\ ~Running => \A s \in Savers : spc[s] = "idle"
  /\ phase = "saving" => InFlight = {} /\ MainAt({"create", "marshal", "write", "stored", "unstored"})
  /\ ~MainAt({"idle"}) => phase = "saving"
  /\ MainAt({"marshal"}) => \A i \in IDs \ todo["main"] : buf["main"][i] = db[i]
  /\ MainAt({"write"}) => buf["main"] = db
  /\ solo /\ MainAt({"marshal", "write"}) =>
       file.kind = "empty" /\ spc["backup"] \notin {"marshal", "write"}
  /\ solo /\ MainAt({"stored"}) =>
       (~HasNaN => Saved) /\ spc["backup"] \notin {"marshal", "write"}
  /\ phase = "saved" /\ solo /\ ~HasNaN => Saved

Closed == Shape /\ Ended /\ Closing

LEMMA InitClosed == Init => Closed
<1> SUFFICES ASSUME Init PROVE Ended /\ Closing
  BY InitShape DEF Closed
<1>1. phase = "up" /\ \A s \in Savers : spc[s] = "idle"
  BY DEF Init
<1> QED
  BY <1>1 DEF Ended, Closing, Running, MainAt, Savers

(* What is saved depends on the map, the file and what is asked for.          *)
LEMMA ClosingFrame ==
  ASSUME Closing, UNCHANGED <<db, file, phase, req, spc, buf, todo, solo>>,
         InFlight = {} => InFlight' = {}
  PROVE  Closing'
<1>1. HasNaN' = HasNaN /\ Saved' = Saved
  BY DEF HasNaN, IsNaN, Saved
<1> QED
  BY <1>1 DEF Closing, Running, MainAt

LEMMA RequestCloses ==
  ASSUME Closed, NEW r \in Reqs, Arrive(r) \/ Handle(r) PROVE Closing'
<1> USE DEF Closed
<1>1. UNCHANGED <<file, phase, req, spc, buf, todo, solo>>
  BY RequestFrame DEF saverVars
<1>2. phase \in {"up", "draining"}
  <2>1. CASE Arrive(r)
    BY <2>1 DEF Arrive
  <2>2. CASE Handle(r)
    <3>1. r \in InFlight
      BY <2>2 DEF Handle, Lookup, Load, Store, Reload, Reject, Find, PageKey, InFlight
    <3> QED
      BY <3>1 DEF Ended, Running, Closing
  <2> QED
    BY <2>1, <2>2
<1>3. spc["main"] = "idle"
  BY <1>2 DEF Closing, MainAt, Shape, TypeOK
<1> QED
  BY <1>1, <1>2, <1>3 DEF Closing, Running, MainAt

LEMMA SaveCloses ==
  ASSUME Closed, NEW s \in Savers, Save(s) PROVE Closing'
<1> USE DEF Closed
<1>1. /\ UNCHANGED <<db, phase, req, rpc>> /\ InFlight' = InFlight
      /\ HasNaN' = HasNaN /\ spc[s] # "idle" /\ Running
      /\ spc \in [Savers -> SaverPC] /\ todo \in [Savers -> SUBSET IDs]
      /\ buf \in [Savers -> [IDs -> Entry]] /\ db \in [IDs -> Entry]
      /\ file \in FileContent /\ {"main", "backup"} = Savers
  <2>1. UNCHANGED <<db, phase, req, rpc>> /\ spc[s] # "idle"
    BY DEF Save, Create, Marshal, WriteFile, requestVars
  <2>2. InFlight' = InFlight /\ HasNaN' = HasNaN
    BY <2>1 DEF InFlight, HasNaN, IsNaN
  <2>3. Running
    BY <2>1 DEF Closing
  <2> QED
    BY <2>1, <2>2, <2>3 DEF Shape, TypeOK, Savers
<1>2. CASE s = "backup"
  <2>1. spc'["main"] = spc["main"] /\ todo'["main"] = todo["main"] /\ buf'["main"] = buf["main"]
    BY <1>1, <1>2 DEF Save, Create, Marshal, WriteFile, Return
  <2>2. CASE Create(s)
    <3>1. solo' = (solo /\ phase # "saving")
      BY <1>2, <2>2 DEF Create
    <3> QED
      BY <1>1, <2>1, <3>1 DEF Closing, MainAt, Running
  <2>3. CASE Marshal(s) \/ WriteFile(s)
    <3>1. spc["backup"] \in {"marshal", "write"} /\ solo' = solo
      BY <1>2, <2>3 DEF Marshal, WriteFile, historyVars
    <3> QED
      BY <1>1, <2>1, <3>1 DEF Closing, MainAt, Running
  <2> QED
    BY <2>2, <2>3 DEF Save
<1>3. CASE s = "main"
  <2>1. phase = "saving" /\ spc'["backup"] = spc["backup"]
    BY <1>1, <1>3 DEF Closing, MainAt, Save, Create, Marshal, WriteFile, Return
  <2>2. CASE Create(s)
    <3>1. solo' = (spc["backup"] \notin {"marshal", "write"})
      BY <1>3, <2>2 DEF Create
    <3>2. CASE Return(s, FALSE, TRUE)
      <4> spc' = [spc EXCEPT !["main"] = "unstored"]
        BY <1>3, <3>2 DEF Return
      <4>1. spc'["main"] = "unstored"
        BY <1>1
      <4> QED
        BY <1>1, <2>1, <4>1 DEF Closing, MainAt, Running
    <3>3. CASE /\ file' = [kind |-> "empty", db |-> EmptyDB]
               /\ spc' = [spc EXCEPT ![s] = "marshal"]
               /\ todo' = [todo EXCEPT ![s] = IDs]
      <4>1. spc'["main"] = "marshal" /\ todo'["main"] = IDs /\ file'.kind = "empty"
        BY <1>1, <1>3, <3>3
      <4> QED
        BY <1>1, <2>1, <3>1, <4>1 DEF Closing, MainAt, Running
    <3> QED
      BY <2>2, <3>2, <3>3 DEF Create
  <2>3. CASE Marshal(s)
    <3>1. UNCHANGED <<file, solo>> /\ spc["main"] = "marshal"
      BY <1>3, <2>3 DEF Marshal, historyVars
    <3>2. CASE /\ todo[s] = {} /\ spc' = [spc EXCEPT ![s] = "write"] /\ UNCHANGED <<buf, todo>>
      <4>1. spc'["main"] = "write"
        BY <1>1, <1>3, <3>2
      <4>2. buf'["main"] = db
        BY <1>1, <1>3, <3>1, <3>2 DEF Closing, MainAt
      <4> QED
        BY <1>1, <2>1, <3>1, <4>1, <4>2 DEF Closing, MainAt, Running
    <3>3. ASSUME NEW i \in todo[s], buf' = [buf EXCEPT ![s][i] = db[i]],
                 todo' = [todo EXCEPT ![s] = @ \ {i}], UNCHANGED spc
          PROVE  Closing'
      <4>1. todo'["main"] = todo["main"] \ {i} /\ buf'["main"] = [buf["main"] EXCEPT ![i] = db[i]]
        BY <1>1, <1>3, <3>3
      <4>2. \A j \in IDs \ todo'["main"] : buf'["main"][j] = db[j]
        BY <1>1, <3>1, <4>1 DEF Closing, MainAt
      <4> QED
        BY <1>1, <2>1, <3>1, <3>3, <4>2 DEF Closing, MainAt, Running
    <3> QED
      BY <2>3, <3>2, <3>3 DEF Marshal
  <2>4. CASE WriteFile(s)
    <3>1. solo' = solo /\ spc["main"] = "write" /\ buf["main"] = db
      BY <1>3, <2>4 DEF WriteFile, historyVars, Closing, MainAt
    <3>2. CASE Return(s, FALSE, FALSE)
      <4> spc' = [spc EXCEPT !["main"] = "unstored"]
        BY <1>3, <3>2 DEF Return
      <4>1. spc'["main"] = "unstored"
        BY <1>1
      <4> QED
        BY <1>1, <2>1, <4>1 DEF Closing, MainAt, Running
    <3>3. CASE file' \in Written(s) /\ Return(s, TRUE, FALSE)
      <4> spc' = [spc EXCEPT !["main"] = "stored"]
        BY <1>3, <3>3 DEF Return
      <4>1. spc'["main"] = "stored"
        BY <1>1
      <4>2. solo /\ ~HasNaN => Saved'
        <5>1. SUFFICES ASSUME solo, ~HasNaN PROVE Saved'
          OBVIOUS
        <5>2. file.kind = "empty"
          BY <3>1, <5>1 DEF Closing, MainAt
        <5>3. Written(s) = {[kind |-> "json", db |-> db]}
          BY <1>3, <3>1, <5>1, <5>2 DEF Written, HasNaN
        <5> QED
          BY <1>1, <3>3, <5>3 DEF Saved
      <4>3. solo => spc["backup"] \notin {"marshal", "write"}
        BY <3>1 DEF Closing, MainAt
      <4> QED
        BY <1>1, <2>1, <3>1, <4>1, <4>2, <4>3 DEF Closing, MainAt, Running
    <3> QED
      BY <2>4, <3>2, <3>3 DEF WriteFile
  <2> QED
    BY <2>2, <2>3, <2>4 DEF Save
<1> QED
  BY <1>1, <1>2, <1>3

(* The process ends as it is told to by what main has done, or by a fault.    *)
LEMMA DieCloses ==
  ASSUME Closed, NEW how \in {"failed", "fault", "killed", "saved", "unsaved"}, Die(how),
         UNCHANGED <<db, file, req, solo>>, how = "saved" => MainAt({"stored"})
  PROVE  Closing'
<1>1. phase' = how /\ \A s \in Savers : spc'[s] = "idle"
  BY DEF Die
<1>2. HasNaN' = HasNaN /\ Saved' = Saved
  BY DEF HasNaN, IsNaN, Saved
<1>3. spc'["main"] = "idle"
  BY <1>1 DEF Savers
<1> QED
  BY <1>1, <1>2, <1>3 DEF Closed, Closing, MainAt, Running

LEMMA NextClosed == ASSUME Closed, [Next]_vars PROVE Closed'
<1> SUFFICES Closing' /\ Ended'
  BY NextShape DEF Closed
<1>1. Closing /\ Ended
  BY DEF Closed
<1>2. ASSUME NEW r \in Reqs, Arrive(r) \/ Handle(r) PROVE Closing' /\ Ended'
  <2>1. Closing'
    BY <1>2, RequestCloses
  <2>2. r \in InFlight \/ Arrive(r)
    BY <1>2 DEF Handle, Lookup, Load, Store, Reload, Reject, Find, PageKey, InFlight
  <2>3. Running'
    BY <1>2, <2>2, RequestFrame DEF Closed, Ended, Arrive, Running
  <2> QED
    BY <2>1, <2>3 DEF Ended
<1>3. ASSUME NEW s \in Savers, Save(s) PROVE Closing' /\ Ended'
  <2>1. rpc' = rpc /\ phase' = phase
    BY <1>3 DEF Save, Create, Marshal, WriteFile, requestVars
  <2> QED
    BY <1>3, <2>1, SaveCloses DEF Ended, Running, InFlight, Closed
<1>4. CASE UNCHANGED vars \/ Signal
  <2>1. /\ UNCHANGED <<db, file, req, rpc, spc, buf, todo, solo>>
        /\ phase' = phase \/ (phase = "up" /\ phase' = "draining")
    <3>1. CASE UNCHANGED vars
      BY <3>1 DEF vars, requestVars, saverVars, historyVars
    <3>2. CASE Signal
      BY <3>2 DEF Signal, requestVars, saverVars, historyVars
    <3> QED
      BY <1>4, <3>1, <3>2
  <2>2. InFlight' = InFlight /\ HasNaN' = HasNaN /\ Saved' = Saved
    BY <2>1 DEF InFlight, HasNaN, IsNaN, Saved
  <2> QED
    BY <1>1, <2>1, <2>2 DEF Closing, Ended, Running, MainAt
<1>5. CASE BackupService
  <2>1. /\ UNCHANGED <<db, file, phase, req, rpc, buf, todo, solo>> /\ Running
        /\ spc' = [spc EXCEPT !["backup"] = "create"] /\ spc["backup"] = "idle"
    BY <1>5 DEF BackupService, requestVars, historyVars
  <2>2. spc'["main"] = spc["main"] /\ spc'["backup"] = "create"
    BY <2>1 DEF Closed, Shape, TypeOK, Savers
  <2>3. InFlight' = InFlight /\ HasNaN' = HasNaN /\ Saved' = Saved
    BY <2>1 DEF InFlight, HasNaN, IsNaN, Saved
  <2> QED
    BY <1>1, <2>1, <2>2, <2>3 DEF Closing, Ended, Running, MainAt
<1>6. CASE Drained
  <2>1. /\ UNCHANGED <<rpc, solo>> /\ phase' = "saving" /\ InFlight = {}
        /\ spc' = [spc EXCEPT !["main"] = "create"]
    BY <1>6 DEF Drained, requestVars, historyVars
  <2>2. spc'["main"] = "create" /\ InFlight' = {}
    BY <2>1 DEF Closed, Shape, TypeOK, Savers, InFlight
  <2> QED
    BY <2>1, <2>2 DEF Closing, Ended, Running, MainAt
<1>7. CASE Start
  <2>1. phase' = "up" /\ rpc' = rpc /\ ~Running /\ spc' = spc
    BY <1>7 DEF Start, requestVars, saverVars
  <2>2. \A s \in Savers : spc'[s] = "idle"
    BY <2>1 DEF Closed, Closing
  <2> QED
    BY <2>1, <2>2 DEF Closing, Ended, Running, MainAt, Savers
<1>8. CASE DrainTimeout \/ MapFault \/ Kill \/ Exit
  <2>1. PICK how \in {"failed", "fault", "killed", "saved", "unsaved"} :
          Die(how) /\ (how = "saved" => MainAt({"stored"}))
    BY <1>8 DEF DrainTimeout, MapFault, Kill, Exit, MainAt
  <2>2. UNCHANGED <<db, file, req, solo>>
    BY <1>8 DEF DrainTimeout, MapFault, Kill, Exit, historyVars
  <2>3. InFlight' = {}
    BY <2>1 DEF Die, InFlight
  <2> QED
    BY <2>1, <2>2, <2>3, DieCloses DEF Ended
<1> QED
  BY <1>2, <1>3, <1>4, <1>5, <1>6, <1>7, <1>8 DEF Next

(* A process that exits after a save that reported success, with no NaN in    *)
(* the map and the backup goroutine not at the file, leaves all of the map    *)
(* in the file.                                                               *)
THEOREM ShutdownSavesInvariant == Spec => []ShutdownSaves
<1>1. Closed => ShutdownSaves
  BY DEF Closed, Closing, ShutdownSaves
<1> QED
  BY <1>1, InitClosed, NextClosed, PTL DEF Spec

-------------------------------------------------------------------------------
(* Panics.                                                                   *)

(* An entry e of the name i is that of a write in M, and without a number     *)
(* only if the write is of a gauge and had none; R is what was requested.     *)
JustIn(e, i, M, R) ==
  e.mtype # "absent" =>
    \E w \in M : /\ R[w[1]].items[w[2]].id = i
                 /\ R[w[1]].items[w[2]].mtype = e.mtype
                 /\ e.from = {} => e.mtype = "gauge" /\ R[w[1]].items[w[2]].arg = "nil"

Justified(d) == \A i \in IDs : JustIn(d[i], i, made, req)

(* The entry a handler has found, or has stored, is there when it reads it    *)
(* again: no step removes one.                                                *)
Met == \A r \in Reqs : rpc[r] \in {"load", "reload"} => db[Cur(r).id].mtype # "absent"

Panicked ==
  /\ Justified(db)
  /\ Justified(file.db)
  /\ \A s \in Savers : Justified(buf[s])
  /\ Met
  /\ PanicsExplained

LEMMA InitPanicked == Init => Panicked
BY DEF Init, Panicked, Justified, JustIn, Met, PanicsExplained, EmptyDB, Absent

LEMMA JustGrows ==
  ASSUME NEW e, NEW i, NEW M, NEW N, NEW R, M \subseteq N, JustIn(e, i, M, R)
  PROVE  JustIn(e, i, N, R)
BY DEF JustIn

LEMMA WritesStay == ASSUME Shape, [Next]_vars PROVE made \subseteq made' /\ req' = req
<1>1. made \subseteq made'
  BY DEF Next, vars, Arrive, Handle, Lookup, Load, Store, Reload, Reject, Find, PageKey, Save,
         Create, Marshal, WriteFile, BackupService, Signal, Drained, DrainTimeout, MapFault,
         Kill, Exit, Start, historyVars
<1> QED
  BY <1>1, DoneGrows

(* What a handler stores is its own item.                                     *)
LEMMA StoreJust ==
  ASSUME Shape, NEW r \in Reqs, Store(r)
  PROVE  /\ Cur(r).id \in IDs
         /\ db' = [db EXCEPT ![Cur(r).id] = NewEntry(r)]
         /\ NewEntry(r).mtype \in {"gauge", "counter"}
         /\ JustIn(NewEntry(r), Cur(r).id, made', req')
<1>1. /\ Cur(r).id \in IDs /\ db' = [db EXCEPT ![Cur(r).id] = NewEntry(r)]
      /\ <<r, idx[r]>> \in made' /\ req' = req
  BY NewEntryType DEF Store
<1>2. /\ Cur(r) \in Item /\ Cur(r).mtype \in {"gauge", "counter"}
      /\ Cur(r).mtype = "counter" => Cur(r).arg # "nil"
  BY InputType DEF Store, Shape, AtItem, AtItemOf, Cur
<1>3. NewEntry(r).mtype = Cur(r).mtype
  BY DEF NewEntry
<1>4. NewEntry(r).from = {} => Cur(r).arg = "nil"
  BY DEF NewEntry
<1>5. req[<<r, idx[r]>>[1]].items[<<r, idx[r]>>[2]] = Cur(r)
  BY DEF Cur
<1> QED
  BY <1>1, <1>2, <1>3, <1>4, <1>5 DEF JustIn

LEMMA NextJustified ==
  ASSUME Shape, Panicked, [Next]_vars
  PROVE  Justified(db)' /\ Justified(file.db)' /\ \A s \in Savers : Justified(buf[s])'
<1>1. made \subseteq made' /\ req' = req
  BY WritesStay
<1>2. ASSUME NEW i \in IDs PROVE JustIn(EmptyDB[i], i, made', req')
  BY DEF JustIn, EmptyDB, Absent
<1>3. ASSUME NEW i \in IDs
      PROVE  /\ JustIn(db[i], i, made', req') /\ JustIn(file.db[i], i, made', req')
             /\ \A s \in Savers : JustIn(buf[s][i], i, made', req')
  BY <1>1, JustGrows DEF Panicked, Justified
<1>4. Justified(db)'
  <2>1. CASE db' \in {db, EmptyDB, file.db}
    BY <1>2, <1>3, <2>1 DEF Justified
  <2>2. ASSUME NEW r \in Reqs, Store(r), NEW i \in IDs PROVE JustIn(db'[i], i, made', req')
    <3>1. i = Cur(r).id => db'[i] = NewEntry(r)
      BY <2>2, StoreJust DEF Shape, TypeOK
    <3>2. i # Cur(r).id => db'[i] = db[i]
      BY <2>2, StoreJust DEF Shape, TypeOK
    <3> QED
      BY <1>3, <2>2, <3>1, <3>2, StoreJust
  <2> QED
    BY <2>1, <2>2, MapComesFrom DEF Justified
<1>5. Justified(file.db)'
  BY <1>2, <1>3, FileComesFrom DEF Justified
<1>6. ASSUME NEW s \in Savers PROVE Justified(buf[s])'
  <2>1. ASSUME NEW i \in IDs, buf'[s] = [buf[s] EXCEPT ![i] = db[i]], NEW j \in IDs
        PROVE  JustIn(buf'[s][j], j, made', req')
    <3>1. buf'[s][j] = db[j] \/ buf'[s][j] = buf[s][j]
      BY <2>1 DEF Shape, TypeOK
    <3> QED
      BY <1>3, <3>1
  <2> QED
    BY <1>2, <1>3, <2>1, SaveComesFrom DEF Justified
<1> QED
  BY <1>4, <1>5, <1>6

(* As long as the process lives, an entry that is there stays.                *)
LEMMA EntriesStay ==
  ASSUME Shape, NEW r \in Reqs, Arrive(r) \/ Handle(r), NEW i \in IDs, db[i].mtype # "absent"
  PROVE  db'[i].mtype # "absent"
<1>1. CASE Store(r)
  <2>1. db'[i] = NewEntry(r) \/ db'[i] = db[i]
    BY <1>1, StoreJust DEF Shape, TypeOK
  <2> QED
    BY <1>1, <2>1, StoreJust
<1>2. CASE ~Store(r)
  <2>1. db' = db
    BY <1>2 DEF Arrive, Handle, Lookup, Load, Reload, Reject, Find, PageKey
  <2> QED
    BY <2>1
<1> QED
  BY <1>1, <1>2

LEMMA NextMet == ASSUME Shape, Ended, Panicked, [Next]_vars PROVE Met'
<1>1. req' = req
  BY WritesStay
<1>2. ASSUME NEW r \in Reqs, Arrive(r) \/ Handle(r) PROVE Met'
  <2>1. ASSUME NEW q \in Reqs, q # r, rpc'[q] \in {"load", "reload"}
        PROVE  db'[Cur(q)'.id].mtype # "absent"
    <3>1. rpc[q] = rpc'[q] /\ Cur(q)' = Cur(q)
      BY <1>1, <1>2, <2>1, RequestFrame DEF Cur
    <3>2. Cur(q).id \in IDs
      BY <2>1, <3>1, InputType DEF Shape, AtItem, AtItemOf, Cur, Item
    <3> QED
      BY <1>2, <2>1, <3>1, <3>2, EntriesStay DEF Panicked, Met
  <2>2. ASSUME rpc'[r] \in {"load", "reload"} PROVE db'[Cur(r)'.id].mtype # "absent"
    <3>1. CASE Store(r)
      <4>1. Cur(r)' = Cur(r) /\ db'[Cur(r).id] = NewEntry(r)
        BY <1>1, <3>1, StoreJust DEF Store, Cur, Shape, TypeOK
      <4> QED
        BY <3>1, <4>1, StoreJust
    <3>2. CASE Lookup(r)
      <4>1. Cur(r)' = Cur(r) /\ db' = db /\ db[Cur(r).id].mtype # "absent"
        BY <1>1, <2>2, <3>2 DEF Lookup, Goto, Finish, Cur, Shape, TypeOK
      <4> QED
        BY <4>1
    <3>3. CASE ~Store(r) /\ ~Lookup(r)
      <4>1. \A item : FirstStep(item) \in {"store", "lookup", "reject"}
        BY DEF FirstStep
      <4>2. rpc \in [Reqs -> PC]
        BY DEF Shape, TypeOK
      <4>3. CASE Arrive(r)
        BY <2>2, <4>1, <4>2, <4>3 DEF Arrive, Finish, Goto
      <4>4. CASE Load(r) \/ Find(r) \/ PageKey(r)
        BY <2>2, <4>2, <4>4 DEF Load, Find, PageKey, Finish
      <4>5. ASSUME NEW a, NextItem(r, a) PROVE rpc'[r] \notin {"load", "reload"}
        BY <4>1, <4>2, <4>5 DEF NextItem, Finish
      <4>6. CASE Reload(r) \/ Reject(r)
        BY <2>2, <4>5, <4>6 DEF Reload, Reject
      <4> QED
        BY <1>2, <3>3, <4>3, <4>4, <4>6 DEF Handle
    <3> QED
      BY <3>1, <3>2, <3>3
  <2> QED
    BY <2>1, <2>2 DEF Met
<1>3. CASE ~\E r \in Reqs : Arrive(r) \/ Handle(r)
  <2>1. ASSUME NEW r \in Reqs, rpc'[r] \in {"load", "reload"}
        PROVE  rpc[r] = rpc'[r] /\ Cur(r)' = Cur(r)
    BY <1>1, <1>3, <2>1, SystemFrame DEF Cur
  <2>2. CASE db' = db
    BY <2>1, <2>2 DEF Panicked, Met
  <2>3. CASE Start
    <3>1. \A r \in Reqs : rpc'[r] \notin {"load", "reload"}
      BY <2>3 DEF Start, requestVars, Ended, InFlight
    <3> QED
      BY <3>1 DEF Met
  <2>4. db' = db \/ Start
    BY <1>3 DEF Next, vars, Save, Create, Marshal, WriteFile, BackupService, Signal, Drained,
                DrainTimeout, MapFault, Kill, Exit
  <2> QED
    BY <2>2, <2>3, <2>4
<1> QED
  BY <1>2, <1>3

LEMMA ExplainedGrows ==
  ASSUME NEW r \in Reqs, PanicExplained(r), made \subseteq made', req' = req
  PROVE  PanicExplained(r)'
BY DEF PanicExplained, MadeItem, NoNumber

(* An entry that has no delta though a counter is asked for, or no value      *)
(* though a gauge is, explains the panic of who meets it.                     *)
LEMMA EntryExplains ==
  ASSUME Shape, Panicked, NEW r \in Reqs, NEW k \in DOMAIN req[r].items, NEW i \in IDs,
         db[i].mtype # "absent",
         \/ db[i].from = {}
         \/ /\ i = req[r].items[k].id
            /\ {db[i].mtype, req[r].items[k].mtype} = {"gauge", "counter"}
  PROVE  PanicExplained(r)
<1>1. PICK w \in made :
        /\ MadeItem(w).id = i /\ MadeItem(w).mtype = db[i].mtype
        /\ db[i].from = {} => db[i].mtype = "gauge" /\ NoNumber(MadeItem(w))
  BY DEF Panicked, Justified, JustIn, MadeItem, NoNumber
<1> QED
  BY <1>1 DEF PanicExplained

LEMMA NextExplained == ASSUME Shape, Panicked, [Next]_vars PROVE PanicsExplained'
<1>1. made \subseteq made' /\ req' = req
  BY WritesStay
<1>2. ASSUME NEW r \in Reqs, status'[r] = "panic", status[r] = "panic" PROVE PanicExplained(r)'
  BY <1>1, <1>2, ExplainedGrows DEF Panicked, PanicsExplained
<1>3. ASSUME NEW r \in Reqs, Handle(r), status'[r] = "panic", status[r] # "panic"
      PROVE  PanicExplained(r)
  <2> DEFINE i == Cur(r).id
  <2>1. ASSUME rpc[r] \in {"lookup", "load", "reload"}
        PROVE  /\ idx[r] \in DOMAIN req[r].items /\ Cur(r) = req[r].items[idx[r]]
               /\ i \in IDs /\ Cur(r).mtype \in {"gauge", "counter"}
    BY <2>1, InputType DEF Shape, AtItem, AtItemOf, Cur, Item
  <2>2. CASE Lookup(r)
    <3>1. Cur(r).arg = "nil" /\ rpc[r] = "lookup"
      BY <1>3, <2>2 DEF Lookup, Goto
    <3> QED
      BY <2>1, <3>1 DEF PanicExplained, NoNumber
  <2>3. CASE Load(r)
    <3>1. rpc[r] = "load" /\ (db[i].mtype # "counter" \/ Cur(r).arg = "nil")
      BY <1>3, <2>3 DEF Load
    <3>2. Cur(r).mtype = "counter" /\ db[i].mtype # "absent" /\ db[i] \in Entry
      BY <2>1, <3>1 DEF Shape, TypeOK, AtItem, AtItemOf, Panicked, Met
    <3>3. CASE Cur(r).arg = "nil"
      BY <2>1, <3>1, <3>3 DEF PanicExplained, NoNumber
    <3>4. CASE db[i].mtype = "gauge"
      BY <2>1, <3>1, <3>2, <3>4, EntryExplains
    <3> QED
      BY <3>1, <3>2, <3>3, <3>4 DEF Entry
  <2>4. CASE Reload(r)
    <3>1. rpc[r] = "reload" /\ db[i].mtype # "absent" /\ db[i] \in Entry
      BY <2>1, <2>4 DEF Reload, Shape, TypeOK, Panicked, Met
    <3>2. PICK bad : NextItem(r, Answer(r, db[i], bad))
      BY <2>4 DEF Reload
    <3>3. Answer(r, db[i], bad) = "panic"
      BY <1>3, <3>2 DEF NextItem, Finish, Shape, TypeOK
    <3>4. db[i].mtype # Cur(r).mtype \/ db[i].from = {}
      BY <3>3 DEF Answer
    <3>5. CASE db[i].from = {}
      BY <2>1, <3>1, <3>5, EntryExplains
    <3>6. CASE db[i].mtype # Cur(r).mtype
      <4>1. {db[i].mtype, Cur(r).mtype} = {"gauge", "counter"}
        BY <2>1, <3>1, <3>6 DEF Entry
      <4> QED
        BY <2>1, <3>1, <4>1, EntryExplains
    <3> QED
      BY <3>4, <3>5, <3>6
  <2>5. CASE PageKey(r)
    <3>1. PICK j \in left[r] : db[j].mtype = "gauge" /\ db[j].from = {}
      BY <1>3, <2>5 DEF PageKey, Finish, Shape, TypeOK
    <3>2. j \in IDs
      BY <3>1 DEF Shape, TypeOK
    <3>3. PICK w \in made : MadeItem(w).mtype = "gauge" /\ NoNumber(MadeItem(w))
      BY <3>1, <3>2 DEF Panicked, Justified, JustIn, MadeItem, NoNumber
    <3> QED
      BY <3>3 DEF PanicExplained
  <2>6. CASE Store(r)
    BY <1>3, <2>6 DEF Store
  <2>7. CASE Reject(r)
    BY <1>3, <2>7 DEF Reject, NextItem, Finish, Shape, TypeOK
  <2>8. CASE Find(r)
    BY <1>3, <2>8 DEF Find, Finish, Shape, TypeOK
  <2> QED
    BY <1>3, <2>2, <2>3, <2>4, <2>5, <2>6, <2>7, <2>8 DEF Handle
<1>4. ASSUME NEW r \in Reqs, status'[r] = "panic", status[r] # "panic" PROVE Handle(r)
  <2>1. \A q \in Reqs \ {r} : Arrive(q) \/ Handle(q) => status'[r] = status[r]
    BY DEF Arrive, Handle, Lookup, Load, Store, Reload, Reject, Find, PageKey, NextItem, Finish,
           Goto, Shape, TypeOK
  <2>2. ~Arrive(r)
    BY <1>4 DEF Arrive, Finish, Goto, Shape, TypeOK
  <2>3. ~\E s \in Savers : Save(s)
    BY <1>4 DEF Save, Create, Marshal, WriteFile, requestVars
  <2>4. ~(UNCHANGED vars \/ BackupService \/ Signal \/ Drained \/ Start)
    BY <1>4 DEF vars, BackupService, Signal, Drained, Start, requestVars
  <2>5. ~(DrainTimeout \/ MapFault \/ Kill \/ Exit)
    BY <1>4 DEF DrainTimeout, MapFault, Kill, Exit, Die
  <2> QED
    BY <1>4, <2>1, <2>2, <2>3, <2>4, <2>5 DEF Next
<1> QED
  BY <1>1, <1>2, <1>3, <1>4, ExplainedGrows DEF PanicsExplained

(* A handler panics only over a number that was left out or over a name that  *)
(* was sent with both types: everybody else gets an answer.                   *)
THEOREM PanicsExplainedInvariant == Spec => []PanicsExplained
<1>1. Counted => Shape /\ Ended
  BY DEF Counted, Origins
<1>2. Shape /\ Ended /\ Panicked /\ [Next]_vars => Panicked'
  BY NextJustified, NextMet, NextExplained DEF Panicked
<1>3. Panicked => PanicsExplained
  BY DEF Panicked
<1> QED
  BY <1>1, <1>2, <1>3, InitPanicked, CountedInvariant, PTL DEF Spec
==============================================================================
