-------------------------- MODULE PooledUpdateProofs --------------------------
(***************************************************************************)
(* What the pooled handlers promise for any requests, names, numbers and   *)
(* sizes: a request that shares its object with no other gives the storage *)
(* what it was sent, and a pool stays as small as the load ever was.       *)
(***************************************************************************)
EXTENDS PooledUpdate, FiniteSetTheorems, SequenceTheorems, TLAPS

-------------------------------------------------------------------------------
(* Types.                                                                    *)

(* The handlers at work are finitely many, whatever Reqs is.                 *)
FiniteLoad == \A p \in Pools : IsFiniteSet(Pooled(p))

(* What the storage has got of a request, and the places it has read again,   *)
(* are as many as the items the handler has passed.                           *)
Counts(kind, place, i, g, b) ==
  /\ place \in {"new", "decode", "call"} => g = <<>> /\ b = <<>>
  /\ place = "new" => i = 0
  /\ place \in {"apply", "reload"} => Len(g) = i
  /\ place = "apply" => Len(b) = i /\ (kind = "single" => i = 0)
  /\ place = "reload" => Len(b) + 1 = i
  /\ place = "reply" => Len(b) = Len(g)

Counted == \A r \in Reqs : Counts(req[r].kind, pc[r], idx[r], got[r], back[r])

Shape == TypeOK /\ FiniteLoad /\ Counted

(* What the assumption says of names and numbers.                            *)
LEMMA Data ==
  /\ Nums \subseteq Nat /\ Number \subseteq Nat /\ 0 \in Number /\ Nil \notin Nat
  /\ Gauges \intersect Counters = {} /\ NoId \notin IDs /\ Missing \notin IDs /\ NoId # Missing
  /\ NoId \notin Gauges /\ NoId \notin Counters /\ Missing \notin Nat
  /\ NoCell \notin Cells
BY PoolAssumption DEF PoolAssumption, Number, IDs, NoCell, Cells

LEMMA InputType ==
  ASSUME req \in [Reqs -> Input], NEW r \in Reqs
  PROVE  /\ req[r].kind \in {"single", "batch", "url"}
         /\ Items(r) \in Seq(Item)
         /\ Len(Items(r)) \in 1 .. MaxItems /\ Len(Items(r)) \in Nat
         /\ MaxItems \in Nat \ {0} /\ 1 \in 1 .. MaxItems
         /\ \A k \in 1 .. Len(Items(r)) : k \in 1 .. MaxItems /\ Items(r)[k] \in Item
         /\ req[r].kind # "batch" => Len(Items(r)) = 1
         /\ req[r].kind = "url" =>
              /\ Items(r)[1].id \in IDs
              /\ NumberOf(Items(r)[1].id, Items(r)[1]) \in Nums
<1>1. req[r] \in Input /\ req[r] \in Request
  BY PoolAssumption DEF PoolAssumption
<1>2. /\ Len(Items(r)) \in 1 .. MaxItems /\ MaxItems \in Nat \ {0}
      /\ req[r].kind # "batch" => Len(Items(r)) = 1
      /\ req[r].kind = "url" =>
           Items(r)[1].id # Missing /\ NumberOf(Items(r)[1].id, Items(r)[1]) # Missing
  BY <1>1, PoolAssumption DEF PoolAssumption, Items
<1>3. req[r].kind \in {"single", "batch", "url"} /\ Items(r) \in Seq(Item)
  BY <1>1 DEF Request, Items
<1>4. \A k \in 1 .. Len(Items(r)) : Items(r)[k] \in Item
  BY <1>3
<1>5. Len(Items(r)) \in Nat /\ \A k \in 1 .. Len(Items(r)) : k \in 1 .. MaxItems
  BY <1>2
<1>6. ASSUME req[r].kind = "url"
      PROVE  /\ Items(r)[1].id \in IDs
             /\ NumberOf(Items(r)[1].id, Items(r)[1]) \in Nums
  <2>1. Items(r)[1] \in Item
    BY <1>2, <1>4, <1>6
  <2>2. QED  BY <1>2, <1>6, <2>1 DEF Item, NumberOf
<1>7. QED
  BY <1>2, <1>3, <1>4, <1>5, <1>6

Slot == [id : IDs \union {NoId}, delta : Number \union {Nil}, value : Number \union {Nil}]

(* What is in a slot after an item has been decoded into it.                  *)
LEMMA WrittenIs ==
  ASSUME NEW s \in Slot, NEW item \in Item
  PROVE  /\ Written(s, item) \in Slot
         /\ Written(s, item).id = IF item.id = Missing THEN s.id ELSE item.id
         /\ Written(s, item).delta = IF item.delta = Missing THEN s.delta ELSE item.delta
         /\ Written(s, item).value = IF item.value = Missing THEN s.value ELSE item.value
<1> DEFINE i == IF item.id = Missing THEN s.id ELSE item.id
           d == IF item.delta = Missing THEN s.delta ELSE item.delta
           v == IF item.value = Missing THEN s.value ELSE item.value
<1>1. i \in IDs \union {NoId} /\ d \in Number \union {Nil} /\ v \in Number \union {Nil}
  BY DEF Slot, Number, Item
<1>2. Written(s, item) = [id |-> i, delta |-> d, value |-> v]
  BY DEF Written
<1>3. QED  BY <1>1, <1>2 DEF Slot

LEMMA ResetType ==
  ASSUME NEW kind, NEW slots \in [1 .. MaxItems -> Slot], 1 \in 1 .. MaxItems
  PROVE  Reset(kind, slots) \in [1 .. MaxItems -> Slot]
BY DEF Reset, Zeroed, Slot, Number

(* What the storage is given of an item.                                      *)
Given == [id : IDs \union {NoId}, num : Number \union {Nil}]

LEMMA InitShape == Init => Shape
<1> SUFFICES ASSUME Init PROVE Shape
  OBVIOUS
<1> USE PoolAssumption DEF PoolAssumption
<1>1. slot \in [Reqs -> [1 .. MaxItems -> Slot]]
  BY DEF Init, Empty, Slot
<1>2. TypeOK
  <2>1. /\ <<>> \in Seq(Reqs) /\ <<>> \in Seq(Number \union {Nil}) /\ <<>> \in Seq(Given)
        /\ <<>> \in Seq(Cells \union {NoCell})
        /\ 0 \in 0 .. MaxItems /\ MaxItems \in 0 .. MaxItems
    BY EmptySeq
  <2>2. /\ queue \in [Pools -> Seq(Reqs)] /\ got \in [Reqs -> Seq(Given)]
        /\ reply \in [Reqs -> Seq(Number \union {Nil})]
        /\ back \in [Reqs -> Seq(Cells \union {NoCell})] /\ passed \subseteq Cells
        /\ idx \in [Reqs -> 0 .. MaxItems] /\ taken \in [Reqs -> 0 .. MaxItems]
        /\ len \in [Reqs -> 0 .. MaxItems]
    BY <2>1 DEF Init
  <2>3. /\ req \in [Reqs -> Input] /\ pc \in [Reqs -> {"new", "done"} \union Holding]
        /\ obj \in [Reqs -> Reqs] /\ user \in [Reqs -> Reqs]
        /\ sum \in [Counters -> Nat] /\ cell \in [Gauges -> Cells \union {NoCell}]
        /\ failed \in [Reqs -> BOOLEAN]
        /\ status \in [Reqs -> {"none", "answered", "refused", "lost"}]
        /\ setBy \in [Gauges -> Cells \union {NoCell}]
        /\ shared \in SUBSET Reqs /\ peak \in [Pools -> Nat]
    BY DEF Init, Holding
  <2>4. QED  BY <1>1, <2>2, <2>3 DEF TypeOK, Slot, Given
<1>3. FiniteLoad
  <2>1. \A p \in Pools : Pooled(p) = {}
    BY DEF Init, Pooled, Holding
  <2>2. QED  BY <2>1, FS_EmptySet DEF FiniteLoad
<1>4. Counted
  BY DEF Init, Counted, Counts
<1>5. QED  BY <1>2, <1>3, <1>4 DEF Shape

(* A step that takes no handler to work leaves the load finite.               *)
LEMMA LoadStays ==
  ASSUME FiniteLoad, UNCHANGED req, pc \in [Reqs -> {"new", "done"} \union Holding], NEW r \in Reqs,
         NEW place, pc' = [pc EXCEPT ![r] = place], place \in Holding => pc[r] \in Holding
  PROVE  FiniteLoad' /\ \A p \in Pools : Pooled(p)' \subseteq Pooled(p)
<1>1. \A p \in Pools : Pooled(p)' \subseteq Pooled(p)
  BY DEF Pooled
<1>2. QED  BY <1>1, FS_Subset DEF FiniteLoad

LEMMA HoldShape ==
  ASSUME TypeOK, FiniteLoad, NEW r \in Reqs, pc[r] = "new", req[r].kind \in Pools, NEW o \in Reqs, Hold(r, o),
         queue' \in [Pools -> Seq(Reqs)]
  PROVE  /\ TypeOK' /\ FiniteLoad'
         /\ Pooled(req[r].kind)' = Pooled(req[r].kind) \union {r}
         /\ \A p \in Pools \ {req[r].kind} : Pooled(p)' = Pooled(p)
         /\ Cardinality(Pooled(req[r].kind)) \in Nat
         /\ Cardinality(Pooled(req[r].kind)') = Cardinality(Pooled(req[r].kind)) + 1
<1> DEFINE p == req[r].kind
<1>1. pc' = [pc EXCEPT ![r] = "decode"] /\ UNCHANGED req
  BY DEF Hold
<1>2. r \notin Pooled(p) /\ pc \in [Reqs -> {"new", "done"} \union Holding]
  BY DEF Pooled, Holding, TypeOK
<1>3. Pooled(p)' = Pooled(p) \union {r}
  BY <1>1, <1>2 DEF Pooled, Holding
<1>4. \A q \in Pools \ {p} : Pooled(q)' = Pooled(q)
  BY <1>1, <1>2 DEF Pooled, Holding
<1>5. IsFiniteSet(Pooled(p)) /\ Cardinality(Pooled(p)) \in Nat
  BY FS_CardinalityType DEF FiniteLoad
<1>6. IsFiniteSet(Pooled(p) \union {r})
      /\ Cardinality(Pooled(p) \union {r}) = Cardinality(Pooled(p)) + 1
  BY <1>2, <1>5, FS_AddElement
<1>7. FiniteLoad'
  <2>1. ASSUME NEW q \in Pools
        PROVE  IsFiniteSet(Pooled(q)')
    <3>1. CASE q = p
      BY <1>1, <1>3, <1>6, <3>1
    <3>2. CASE q # p
      BY <1>4, <3>2 DEF FiniteLoad
    <3>3. QED  BY <3>1, <3>2
  <2>2. QED  BY <2>1 DEF FiniteLoad
<1>8. shared' \in SUBSET Reqs
  BY DEF Hold, Holders, TypeOK
<1>9. peak' \in [Pools -> Nat]
  <2>1. peak \in [Pools -> Nat]
    BY DEF TypeOK
  <2>2. peak' = [peak EXCEPT ![p] = IF Cardinality(Pooled(p)) + 1 > @
                                    THEN Cardinality(Pooled(p)) + 1 ELSE @]
    BY DEF Hold
  <2>3. QED  BY <1>5, <2>1, <2>2
<1>10. pc' \in [Reqs -> {"new", "done"} \union Holding] /\ obj' \in [Reqs -> Reqs]
       /\ user' \in [Reqs -> Reqs]
  BY <1>2 DEF Hold, TypeOK, Holding
<1>11. TypeOK'
  BY <1>8, <1>9, <1>10 DEF Hold, TypeOK, objectVars, storageVars, answerVars, Holding
<1>12. QED
  BY <1>3, <1>4, <1>5, <1>6, <1>7, <1>11

(* A handler's own variables are written by that handler only.                *)
LEMMA OthersLeft ==
  ASSUME TypeOK, NEW q \in Reqs, Handle(q)
  PROVE  /\ UNCHANGED req /\ shared \subseteq shared' /\ passed \subseteq passed'
         /\ \A r \in Reqs \ {q} :
              /\ pc'[r] = pc[r] /\ idx'[r] = idx[r] /\ taken'[r] = taken[r]
              /\ got'[r] = got[r] /\ obj'[r] = obj[r] /\ back'[r] = back[r]
              /\ reply'[r] = reply[r] /\ status'[r] = status[r]
<1>0. /\ pc \in [Reqs -> {"new", "done"} \union Holding]
      /\ obj \in [Reqs -> Reqs] /\ idx \in [Reqs -> 0 .. MaxItems]
      /\ taken \in [Reqs -> 0 .. MaxItems] /\ got \in [Reqs -> Seq(Given)]
      /\ back \in [Reqs -> Seq(Cells \union {NoCell})]
      /\ status \in [Reqs -> {"none", "answered", "refused", "lost"}]
      /\ reply \in [Reqs -> Seq(Number \union {Nil})]
  BY DEF TypeOK, Given
<1>1. CASE Get(q)
  <2>1. \E o : Hold(q, o)
    BY <1>1 DEF Get
  <2>2. QED  BY <1>0, <2>1 DEF Hold, storageVars, answerVars
<1>2. CASE Decode(q)
  BY <1>0, <1>2 DEF Decode, poolVars, storageVars, answerVars
<1>3. CASE Decoded(q)
  BY <1>0, <1>3 DEF Decoded, poolVars, storageVars, answerVars
<1>4. CASE Refuse(q)
  BY <1>0, <1>4 DEF Refuse, poolVars, storageVars
<1>5. CASE Call(q)
  BY <1>0, <1>5 DEF Call, poolVars, storageVars, answerVars
<1>6. ASSUME NEW k, StoreItem(q, k)
      PROVE  /\ \A r \in Reqs \ {q} : got'[r] = got[r] /\ back'[r] = back[r]
             /\ passed \subseteq passed'
  BY <1>0, <1>6 DEF StoreItem
<1>7. CASE UpdateMetric(q)
  <2>1. /\ \A r \in Reqs \ {q} : got'[r] = got[r] /\ back'[r] = back[r]
        /\ passed \subseteq passed'
    BY <1>6, <1>7 DEF UpdateMetric, storageVars
  <2>2. \A r \in Reqs \ {q} : pc'[r] = pc[r] /\ idx'[r] = idx[r] /\ status'[r] = status[r]
    BY <1>0, <1>7 DEF UpdateMetric
  <2>3. QED  BY <1>0, <1>7, <2>1, <2>2 DEF UpdateMetric, poolVars
<1>8. CASE UpdateBatchItem(q)
  <2>1. /\ \A r \in Reqs \ {q} : got'[r] = got[r] /\ back'[r] = back[r]
        /\ passed \subseteq passed'
    <3>1. CASE \E k : StoreItem(q, k)
      BY <1>6, <3>1
    <3>2. CASE /\ UNCHANGED passed
               /\ got' = [got EXCEPT ![q] = Append(@, [id |-> NoId, num |-> Nil])]
               /\ back' = [back EXCEPT ![q] = Append(@, NoCell)]
      BY <1>0, <3>2
    <3>3. CASE UNCHANGED storageVars
      BY <3>3 DEF storageVars
    <3>4. QED  BY <1>8, <3>1, <3>2, <3>3 DEF UpdateBatchItem
  <2>2. \A r \in Reqs \ {q} : pc'[r] = pc[r] /\ idx'[r] = idx[r] /\ status'[r] = status[r]
    BY <1>0, <1>8 DEF UpdateBatchItem
  <2>3. QED  BY <1>0, <1>8, <2>1, <2>2 DEF UpdateBatchItem, poolVars
<1>9. CASE Reload(q)
  BY <1>0, <1>9 DEF Reload, poolVars, answerVars
<1>10. CASE UpdatedBatch(q)
  BY <1>0, <1>10 DEF UpdatedBatch, poolVars, storageVars
<1>11. CASE UrlUpdate(q)
  BY <1>0, <1>11 DEF UrlUpdate, UrlUpdateIn, poolVars
<1>12. CASE Reply(q)
  BY <1>0, <1>12 DEF Reply, poolVars, storageVars
<1>13. CASE Put(q)
  BY <1>0, <1>13 DEF Put, storageVars, answerVars
<1>14. QED
  BY <1>1, <1>2, <1>3, <1>4, <1>5, <1>7, <1>8, <1>9, <1>10, <1>11, <1>12, <1>13 DEF Handle

LEMMA StepCounted ==
  ASSUME TypeOK, Counted, NEW q \in Reqs, Handle(q)
  PROVE  Counted'
<1> DEFINE Same(r) == Counts(req[r].kind, pc'[r], idx'[r], got'[r], back'[r])
<1>0. /\ pc \in [Reqs -> {"new", "done"} \union Holding] /\ idx \in [Reqs -> 0 .. MaxItems]
      /\ got \in [Reqs -> Seq(Given)] /\ back \in [Reqs -> Seq(Cells \union {NoCell})]
      /\ got[q] \in Seq(Given) /\ back[q] \in Seq(Cells \union {NoCell})
      /\ Len(got[q]) \in Nat /\ Len(back[q]) \in Nat
      /\ Counts(req[q].kind, pc[q], idx[q], got[q], back[q])
  <2>1. /\ pc \in [Reqs -> {"new", "done"} \union Holding] /\ idx \in [Reqs -> 0 .. MaxItems]
        /\ got \in [Reqs -> Seq(Given)] /\ back \in [Reqs -> Seq(Cells \union {NoCell})]
    BY DEF TypeOK, Given
  <2>2. got[q] \in Seq(Given) /\ back[q] \in Seq(Cells \union {NoCell})
    BY <2>1
  <2>3. Len(got[q]) \in Nat /\ Len(back[q]) \in Nat
    BY <2>2
  <2>4. Counts(req[q].kind, pc[q], idx[q], got[q], back[q])
    BY DEF Counted
  <2>5. QED  BY <2>1, <2>2, <2>3, <2>4
<1>1. ASSUME NEW x
      PROVE  /\ Len(Append(got[q], x)) = Len(got[q]) + 1
             /\ Len(Append(back[q], x)) = Len(back[q]) + 1
  BY <1>0
<1>2. ASSUME NEW k, StoreItem(q, k)
      PROVE  Len(got'[q]) = Len(got[q]) + 1 /\ back' = back
  BY <1>0, <1>1, <1>2 DEF StoreItem
<1>3. Same(q)
  <2>1. CASE Get(q)
    <3>1. pc[q] = "new" /\ pc'[q] = "decode" /\ got' = got /\ back' = back
      BY <1>0, <2>1 DEF Get, Hold, storageVars
    <3>2. QED  BY <1>0, <3>1 DEF Counts
  <2>2. CASE Decode(q)
    <3>1. pc[q] = "decode" /\ pc' = pc /\ got' = got /\ back' = back
      BY <2>2 DEF Decode, storageVars
    <3>2. QED  BY <1>0, <3>1 DEF Counts
  <2>3. CASE Decoded(q)
    <3>1. pc[q] = "decode" /\ pc'[q] = "call" /\ got' = got /\ back' = back
      BY <1>0, <2>3 DEF Decoded, storageVars
    <3>2. QED  BY <1>0, <3>1 DEF Counts
  <2>4. CASE Call(q)
    <3>1. pc[q] = "call" /\ pc'[q] = "apply" /\ got' = got /\ back' = back /\ idx'[q] = 0
      BY <1>0, <2>4 DEF Call, storageVars
    <3>2. QED  BY <1>0, <3>1 DEF Counts
  <2>5. CASE UpdateMetric(q)
    <3>1. pc[q] = "apply" /\ idx[q] = 0 /\ Len(got[q]) = 0 /\ Len(back[q]) = 0
      BY <1>0, <2>5 DEF UpdateMetric, Counts
    <3>2. \/ StoreItem(q, 1) /\ idx'[q] = 1 /\ pc'[q] = "reload"
          \/ pc'[q] = "put"
      BY <1>0, <2>5 DEF UpdateMetric
    <3>3. CASE StoreItem(q, 1) /\ idx'[q] = 1 /\ pc'[q] = "reload"
      <4>1. Len(got'[q]) = 1 /\ Len(back'[q]) = 0
        BY <1>2, <3>1, <3>3
      <4>2. QED  BY <3>3, <4>1 DEF Counts
    <3>4. QED  BY <3>2, <3>3 DEF Counts
  <2>6. CASE UpdateBatchItem(q)
    <3>1. pc[q] = "apply" /\ idx[q] = Len(got[q]) /\ idx[q] = Len(back[q]) /\ req[q].kind = "batch"
      BY <1>0, <2>6 DEF UpdateBatchItem, Counts
    <3>2. \/ StoreItem(q, idx[q] + 1) /\ idx'[q] = idx[q] + 1 /\ pc'[q] = "reload"
          \/ /\ got'[q] = Append(got[q], [id |-> NoId, num |-> Nil])
             /\ back'[q] = Append(back[q], NoCell)
             /\ pc' = pc /\ idx'[q] = idx[q] + 1
          \/ pc'[q] = "put"
      BY <1>0, <2>6 DEF UpdateBatchItem
    <3>3. QED  BY <1>0, <1>1, <1>2, <3>1, <3>2 DEF Counts
  <2>7. CASE Reload(q)
    <3>1. /\ pc[q] = "reload" /\ got' = got /\ idx' = idx
          /\ pc'[q] = IF req[q].kind = "single" THEN "reply" ELSE "apply"
          /\ \E x : back'[q] = Append(back[q], x)
      BY <1>0, <2>7 DEF Reload
    <3>2. QED  BY <1>0, <1>1, <3>1 DEF Counts
  <2>8. CASE UpdatedBatch(q)
    <3>1. /\ pc[q] = "apply" /\ got' = got /\ back' = back
          /\ pc'[q] \in {"put", "reply"}
      BY <1>0, <2>8 DEF UpdatedBatch, storageVars
    <3>2. QED  BY <1>0, <3>1 DEF Counts
  <2>9. CASE Refuse(q) \/ UrlUpdate(q) \/ Reply(q) \/ Put(q)
    <3>1. pc'[q] \in {"put", "done"}
      BY <1>0, <2>9 DEF Refuse, UrlUpdate, UrlUpdateIn, Reply, Put
    <3>2. QED  BY <3>1 DEF Counts
  <2>10. QED
    BY <2>1, <2>2, <2>3, <2>4, <2>5, <2>6, <2>7, <2>8, <2>9 DEF Handle
<1>4. ASSUME NEW r \in Reqs \ {q}
      PROVE  Same(r)
  BY OthersLeft DEF Counted
<1>5. QED  BY <1>3, <1>4, OthersLeft DEF Counted

(* The places of the items whose gauge has been set anew.                     *)
LEMMA PassedType ==
  ASSUME TypeOK, Counted, NEW r \in Reqs, NEW g
  PROVE  PassedBy(r, g) \subseteq Cells
<1>1. ASSUME NEW q \in Reqs, pc[q] = "reload"
      PROVE  <<q, Len(got[q])>> \in Cells
  <2>1. idx[q] \in 0 .. MaxItems /\ MaxItems \in Nat /\ got[q] \in Seq(Given)
        /\ back[q] \in Seq(Cells \union {NoCell})
    BY PoolAssumption DEF TypeOK, PoolAssumption, Given
  <2>2. Len(got[q]) = idx[q] /\ Len(back[q]) + 1 = idx[q]
    BY <1>1 DEF Counted, Counts
  <2>3. Len(got[q]) \in 1 .. MaxItems
    <3>1. Len(back[q]) \in Nat
      BY <2>1
    <3>2. QED  BY <2>1, <2>2, <3>1
  <2>4. QED  BY <2>3 DEF Cells
<1>2. QED  BY <1>1 DEF PassedBy

(* What is stored of an item is of the type of the storage.                   *)
LEMMA StoreType ==
  ASSUME TypeOK, Counted, NEW r \in Reqs, NEW k \in 1 .. MaxItems, StoreItem(r, k),
         slot[obj[r]][k].id # NoId,
         slot[obj[r]][k].id \in Counters => slot[obj[r]][k].delta # Nil
  PROVE  /\ sum' \in [Counters -> Nat]
         /\ cell' \in [Gauges -> Cells \union {NoCell}]
         /\ got' \in [Reqs -> Seq(Given)]
         /\ setBy' \in [Gauges -> Cells \union {NoCell}]
         /\ passed' \subseteq Cells
<1> DEFINE s == slot[obj[r]][k]
<1>0. /\ slot \in [Reqs -> [1 .. MaxItems -> Slot]] /\ obj[r] \in Reqs
      /\ got \in [Reqs -> Seq(Given)] /\ sum \in [Counters -> Nat]
      /\ cell \in [Gauges -> Cells \union {NoCell}]
      /\ setBy \in [Gauges -> Cells \union {NoCell}] /\ passed \subseteq Cells
  BY DEF TypeOK, Slot, Given
<1>1. /\ s.value \in Number \union {Nil} /\ s.delta \in Number \union {Nil}
      /\ s.id \in Gauges \union Counters
  <2>1. s \in Slot
    BY <1>0
  <2>2. QED  BY <2>1 DEF Slot, IDs
<1>2. <<obj[r], k>> \in Cells /\ <<r, k>> \in Cells
  BY <1>0 DEF Cells
<1>3. got' \in [Reqs -> Seq(Given)]
  <2>1. NumberOf(s.id, s) \in Number \union {Nil}
    BY <1>1 DEF NumberOf
  <2>2. [id |-> s.id, num |-> NumberOf(s.id, s)] \in Given
    BY <1>1, <2>1 DEF Given, IDs
  <2>3. got[r] \in Seq(Given)
    BY <1>0
  <2>4. Append(got[r], [id |-> s.id, num |-> NumberOf(s.id, s)]) \in Seq(Given)
    BY <2>2, <2>3, AppendProperties
  <2>5. got' = [got EXCEPT ![r] = Append(got[r], [id |-> s.id, num |-> NumberOf(s.id, s)])]
    BY DEF StoreItem
  <2>6. QED  BY <1>0, <2>4, <2>5
<1>4. CASE s.id \in Gauges
  <2>1. /\ cell' = [cell EXCEPT ![s.id] = IF s.value = Nil THEN NoCell ELSE <<obj[r], k>>]
        /\ setBy' = [setBy EXCEPT ![s.id] = <<r, k>>]
        /\ passed' = passed \union PassedBy(r, s.id) /\ sum' = sum
    BY <1>4 DEF StoreItem
  <2>2. passed' \subseteq Cells
    BY <1>0, <2>1, PassedType
  <2>3. QED  BY <1>0, <1>2, <1>3, <2>1, <2>2
<1>5. CASE s.id \notin Gauges
  <2>1. s.id \in Counters /\ s.delta \in Nat
    BY <1>1, <1>5, Data
  <2>2. /\ sum' = [sum EXCEPT ![s.id] = @ + s.delta]
        /\ cell' = cell /\ setBy' = setBy /\ passed' = passed
    BY <1>5 DEF StoreItem
  <2>3. sum[s.id] + s.delta \in Nat
    BY <1>0, <2>1
  <2>4. QED  BY <1>0, <1>3, <2>1, <2>2, <2>3
<1>6. QED  BY <1>4, <1>5

LEMMA StepShape ==
  ASSUME Shape, NEW r \in Reqs, Handle(r)
  PROVE  Shape'
<1>0. /\ TypeOK /\ FiniteLoad /\ Counted /\ Counted'
      /\ pc \in [Reqs -> {"new", "done"} \union Holding]
      /\ slot \in [Reqs -> [1 .. MaxItems -> Slot]]
      /\ obj[r] \in Reqs
      /\ idx[r] \in 0 .. MaxItems /\ taken[r] \in 0 .. MaxItems
  BY StepCounted DEF Shape, TypeOK, Slot
<1>i. /\ req[r].kind \in {"single", "batch", "url"}
      /\ Len(Items(r)) \in 1 .. MaxItems
      /\ MaxItems \in Nat \ {0} /\ 1 \in 1 .. MaxItems
      /\ \A k \in 1 .. Len(Items(r)) :
           k \in 1 .. MaxItems /\ Items(r)[k] \in Item
      /\ req[r].kind = "url" =>
           /\ Items(r)[1].id \in IDs
           /\ NumberOf(Items(r)[1].id, Items(r)[1]) \in Nums
  BY <1>0, InputType DEF TypeOK
<1>1. CASE Get(r)
  <2>1. queue' \in [Pools -> Seq(Reqs)]
    <3>1. CASE queue[req[r].kind] = <<>>
      BY <1>0, <1>1, <3>1 DEF Get, TypeOK
    <3>2. CASE queue[req[r].kind] # <<>>
      <4>1. queue[req[r].kind] \in Seq(Reqs)
        BY <1>0, <1>1 DEF Get, TypeOK
      <4>2. SubSeq(queue[req[r].kind], 1, 1) \in Seq(Reqs)
        BY <3>2, <4>1
      <4>3. QED  BY <1>0, <1>1, <3>2, <4>2 DEF Get, TypeOK
    <3>3. QED  BY <3>1, <3>2
  <2>2. \E o \in Reqs : Hold(r, o)
    <3>1. queue[req[r].kind] # <<>> => Head(queue[req[r].kind]) \in Reqs
      BY <1>0, <1>1, HeadTailProperties DEF Get, TypeOK
    <3>2. QED  BY <1>1, <3>1 DEF Get
  <2>3. QED  BY <1>0, <1>1, <2>1, <2>2, HoldShape DEF Get, Shape
<1>2. CASE Decode(r)
  <2>1. idx[r] + 1 \in 1 .. Len(Items(r)) /\ idx[r] + 1 \in 1 .. MaxItems
    BY <1>0, <1>2, <1>i DEF Decode
  <2>2. slot' \in [Reqs -> [1 .. MaxItems -> Slot]]
    BY <1>0, <1>2, <1>i, <2>1, WrittenIs DEF Decode
  <2>3. len' \in [Reqs -> 0 .. MaxItems] /\ idx' \in [Reqs -> 0 .. MaxItems]
    <3>1. len \in [Reqs -> 0 .. MaxItems] /\ idx \in [Reqs -> 0 .. MaxItems]
      BY <1>0 DEF TypeOK
    <3>2. /\ len' = [len EXCEPT ![obj[r]] = Larger(@, idx[r] + 1)]
          /\ idx' = [idx EXCEPT ![r] = idx[r] + 1]
      BY <1>2 DEF Decode
    <3>3. idx[r] + 1 \in 0 .. MaxItems
      BY <1>i, <2>1
    <3>4. Larger(len[obj[r]], idx[r] + 1) \in 0 .. MaxItems
      BY <1>0, <3>1, <3>3 DEF Larger
    <3>5. QED  BY <3>1, <3>2, <3>3, <3>4
  <2>4. TypeOK'
    BY <1>0, <1>2, <2>2, <2>3
       DEF Decode, TypeOK, Slot, poolVars, storageVars, answerVars, Holding
  <2>5. FiniteLoad'
    BY <1>0, <1>2 DEF Decode, FiniteLoad, Pooled
  <2>6. QED  BY <1>0, <2>4, <2>5 DEF Shape
<1>3. CASE Decoded(r)
  <2>1. FiniteLoad'
    BY <1>0, <1>3, LoadStays DEF Decoded, Holding
  <2>2. TypeOK'
    BY <1>0, <1>3, <1>i DEF Decoded, TypeOK, poolVars, storageVars, answerVars, Holding
  <2>3. QED  BY <1>0, <2>1, <2>2 DEF Shape
<1>4. CASE Refuse(r)
  <2>1. FiniteLoad'
    BY <1>0, <1>4, LoadStays DEF Refuse, Holding
  <2>2. TypeOK'
    BY <1>0, <1>4 DEF Refuse, TypeOK, poolVars, objectVars, storageVars, Holding
  <2>3. QED  BY <1>0, <2>1, <2>2 DEF Shape
<1>5. CASE Call(r)
  <2>1. FiniteLoad'
    BY <1>0, <1>5, LoadStays DEF Call, Holding
  <2>2. TypeOK'
    <3>1. /\ len[obj[r]] \in 0 .. MaxItems /\ 1 \in 0 .. MaxItems /\ 0 \in 0 .. MaxItems
          /\ taken \in [Reqs -> 0 .. MaxItems] /\ idx \in [Reqs -> 0 .. MaxItems]
      BY <1>0, <1>i DEF TypeOK
    <3>2. taken' \in [Reqs -> 0 .. MaxItems] /\ idx' \in [Reqs -> 0 .. MaxItems]
      BY <1>5, <3>1 DEF Call
    <3>3. QED
      BY <1>0, <1>5, <3>2 DEF Call, TypeOK, poolVars, objectVars, storageVars, answerVars, Holding
  <2>3. QED  BY <1>0, <2>1, <2>2 DEF Shape
<1>7. CASE UpdateMetric(r)
  <2>1. FiniteLoad'
    BY <1>0, <1>7, LoadStays DEF UpdateMetric, Holding
  <2>2. TypeOK'
    <3>1. CASE StoreItem(r, 1) /\ slot[obj[r]][1].id # NoId
               /\ NumberOf(slot[obj[r]][1].id, slot[obj[r]][1]) # Nil
               /\ idx' = [idx EXCEPT ![r] = 1] /\ pc' = [pc EXCEPT ![r] = "reload"]
               /\ UNCHANGED status
      <4>1. slot[obj[r]][1].id \in Counters => slot[obj[r]][1].delta # Nil
        BY <3>1, Data DEF NumberOf
      <4>2. /\ sum' \in [Counters -> Nat]
            /\ cell' \in [Gauges -> Cells \union {NoCell}]
            /\ got' \in [Reqs -> Seq(Given)]
            /\ setBy' \in [Gauges -> Cells \union {NoCell}]
            /\ passed' \subseteq Cells
        BY <1>0, <1>i, <3>1, <4>1, StoreType
      <4>3. idx' \in [Reqs -> 0 .. MaxItems]
        BY <1>0, <1>i, <3>1 DEF TypeOK
      <4>4. UNCHANGED <<back, failed>>
        BY <3>1 DEF StoreItem
      <4>5. QED
        BY <1>0, <1>7, <3>1, <4>2, <4>3, <4>4
           DEF UpdateMetric, TypeOK, poolVars, objectVars, Holding, Given
    <3>2. CASE pc' = [pc EXCEPT ![r] = "put"] /\ status' = [status EXCEPT ![r] = "refused"]
               /\ UNCHANGED <<idx, storageVars>>
      BY <1>0, <1>7, <3>2 DEF UpdateMetric, TypeOK, poolVars, objectVars, storageVars, Holding
    <3>3. QED  BY <1>7, <3>1, <3>2 DEF UpdateMetric
  <2>3. QED  BY <1>0, <2>1, <2>2 DEF Shape
<1>8. CASE UpdateBatchItem(r)
  <2>0. idx[r] + 1 \in 1 .. MaxItems
    BY <1>0, <1>8, <1>i DEF UpdateBatchItem
  <2>1. FiniteLoad'
    <3>1. CASE UNCHANGED pc
      BY <1>0, <1>8, <3>1 DEF UpdateBatchItem, FiniteLoad, Pooled
    <3>2. CASE \E place \in {"put", "reload"} : pc' = [pc EXCEPT ![r] = place]
      BY <1>0, <1>8, <3>2, LoadStays DEF UpdateBatchItem, Holding
    <3>3. QED  BY <1>8, <3>1, <3>2 DEF UpdateBatchItem
  <2>2. TypeOK'
    <3>1. CASE /\ slot[obj[r]][idx[r] + 1].id \in Gauges
                    \/ (slot[obj[r]][idx[r] + 1].id \in Counters /\ slot[obj[r]][idx[r] + 1].delta # Nil)
               /\ StoreItem(r, idx[r] + 1)
               /\ idx' = [idx EXCEPT ![r] = idx[r] + 1] /\ pc' = [pc EXCEPT ![r] = "reload"]
               /\ UNCHANGED status
      <4>1. /\ slot[obj[r]][idx[r] + 1].id # NoId
            /\ slot[obj[r]][idx[r] + 1].id \in Counters => slot[obj[r]][idx[r] + 1].delta # Nil
        BY <3>1, Data
      <4>2. /\ sum' \in [Counters -> Nat]
            /\ cell' \in [Gauges -> Cells \union {NoCell}]
            /\ got' \in [Reqs -> Seq(Given)]
            /\ setBy' \in [Gauges -> Cells \union {NoCell}]
            /\ passed' \subseteq Cells
        BY <1>0, <2>0, <3>1, <4>1, StoreType
      <4>3. idx' \in [Reqs -> 0 .. MaxItems]
        BY <1>0, <2>0, <3>1 DEF TypeOK
      <4>4. UNCHANGED <<back, failed>>
        BY <3>1 DEF StoreItem
      <4>5. QED
        BY <1>0, <1>8, <3>1, <4>2, <4>3, <4>4
           DEF UpdateBatchItem, TypeOK, poolVars, objectVars, Holding, Given
    <3>2. CASE /\ failed' = [failed EXCEPT ![r] = TRUE]
               /\ got' = [got EXCEPT ![r] = Append(@, [id |-> NoId, num |-> Nil])]
               /\ back' = [back EXCEPT ![r] = Append(@, NoCell)]
               /\ idx' = [idx EXCEPT ![r] = idx[r] + 1]
               /\ UNCHANGED <<pc, status, sum, cell, setBy, passed>>
      <4>1. idx' \in [Reqs -> 0 .. MaxItems]
        <5>1. idx \in [Reqs -> 0 .. MaxItems]
          BY <1>0 DEF TypeOK
        <5>2. QED  BY <2>0, <3>2, <5>1
      <4>2. got' \in [Reqs -> Seq(Given)]
        <5>1. [id |-> NoId, num |-> Nil] \in Given
          BY DEF Given
        <5>2. got \in [Reqs -> Seq(Given)]
          BY <1>0 DEF TypeOK, Given
        <5>3. Append(got[r], [id |-> NoId, num |-> Nil]) \in Seq(Given)
          BY <5>1, <5>2, AppendProperties
        <5>4. QED  BY <3>2, <5>2, <5>3
      <4>3. back' \in [Reqs -> Seq(Cells \union {NoCell})]
        <5>1. back \in [Reqs -> Seq(Cells \union {NoCell})]
          BY <1>0 DEF TypeOK
        <5>2. Append(back[r], NoCell) \in Seq(Cells \union {NoCell})
          BY <5>1, AppendProperties
        <5>3. QED  BY <3>2, <5>1, <5>2
      <4>4. QED
        BY <1>0, <1>8, <3>2, <4>1, <4>2, <4>3
           DEF UpdateBatchItem, TypeOK, poolVars, objectVars, Holding, Given
    <3>3. CASE /\ pc' = [pc EXCEPT ![r] = "put"] /\ status' = [status EXCEPT ![r] = "lost"]
               /\ UNCHANGED <<idx, storageVars>>
      BY <1>0, <1>8, <3>3 DEF UpdateBatchItem, TypeOK, poolVars, objectVars, storageVars, Holding
    <3>4. QED  BY <1>8, <3>1, <3>2, <3>3 DEF UpdateBatchItem
  <2>3. QED  BY <1>0, <2>1, <2>2 DEF Shape
<1>6. CASE Reload(r)
  <2>1. \E place \in {"apply", "reply"} : pc' = [pc EXCEPT ![r] = place]
    BY <1>6 DEF Reload
  <2>2. FiniteLoad'
    BY <1>0, <1>6, <2>1, LoadStays DEF Reload, Holding
  <2>3. back' \in [Reqs -> Seq(Cells \union {NoCell})]
    <3>1. PICK c \in Cells \union {NoCell} : back' = [back EXCEPT ![r] = Append(@, c)]
      <4>1. got[r][Len(got[r])].id \in Gauges => cell[got[r][Len(got[r])].id] \in Cells \union {NoCell}
        BY <1>0 DEF TypeOK
      <4>2. QED  BY <1>6, <4>1 DEF Reload
    <3>2. back \in [Reqs -> Seq(Cells \union {NoCell})]
      BY <1>0 DEF TypeOK
    <3>3. Append(back[r], c) \in Seq(Cells \union {NoCell})
      BY <3>1, <3>2, AppendProperties
    <3>4. QED  BY <3>1, <3>2, <3>3
  <2>4. TypeOK'
    BY <1>0, <1>6, <2>1, <2>3 DEF Reload, TypeOK, poolVars, objectVars, answerVars, Holding
  <2>5. QED  BY <1>0, <2>2, <2>4 DEF Shape
<1>9. CASE UpdatedBatch(r)
  <2>1. \E place \in {"put", "reply"} : pc' = [pc EXCEPT ![r] = place]
    BY <1>9 DEF UpdatedBatch
  <2>2. FiniteLoad'
    BY <1>0, <1>9, <2>1, LoadStays DEF UpdatedBatch, Holding
  <2>3. TypeOK'
    BY <1>0, <1>9, <2>1
       DEF UpdatedBatch, TypeOK, poolVars, objectVars, storageVars, Holding
  <2>4. QED  BY <1>0, <2>2, <2>3 DEF Shape
<1>10. CASE UrlUpdate(r)
  <2> DEFINE item == Items(r)[1]
             num  == NumberOf(item.id, item)
  <2>1. item \in Item /\ item.id \in IDs /\ num \in Nums /\ num \in Number
    BY <1>10, <1>i DEF UrlUpdate, UrlUpdateIn, Number
  <2>2. slot' \in [Reqs -> [1 .. MaxItems -> Slot]]
    BY <1>0, <1>10, <1>i, <2>1, WrittenIs DEF UrlUpdate, UrlUpdateIn
  <2>3. <<r, 1>> \in Cells
    BY <1>i DEF Cells
  <2>4. got' \in [Reqs -> Seq(Given)]
    <3>1. got \in [Reqs -> Seq(Given)]
      BY <1>0 DEF TypeOK, Given
    <3>2. got' = [got EXCEPT ![r] = <<[id |-> item.id, num |-> num]>>]
      BY <1>10 DEF UrlUpdate, UrlUpdateIn
    <3>3. [id |-> item.id, num |-> num] \in Given
      BY <2>1 DEF Given
    <3>4. <<[id |-> item.id, num |-> num]>> \in Seq(Given)
      BY <3>3
    <3>5. QED  BY <3>1, <3>2, <3>4
  <2>5. /\ sum' \in [Counters -> Nat]
        /\ cell' \in [Gauges -> Cells \union {NoCell}]
        /\ setBy' \in [Gauges -> Cells \union {NoCell}]
        /\ passed' \subseteq Cells
    <3>0. /\ sum \in [Counters -> Nat] /\ passed \subseteq Cells
          /\ cell \in [Gauges -> Cells \union {NoCell}]
          /\ setBy \in [Gauges -> Cells \union {NoCell}]
      BY <1>0 DEF TypeOK
    <3>1. CASE item.id \in Gauges
      <4>1. /\ cell' = [cell EXCEPT ![item.id] = <<r, 1>>]
            /\ setBy' = [setBy EXCEPT ![item.id] = <<r, 1>>]
            /\ passed' = passed \union PassedBy(r, item.id)
            /\ UNCHANGED sum
        BY <1>10, <3>1 DEF UrlUpdate, UrlUpdateIn
      <4>2. passed' \subseteq Cells
        BY <1>0, <3>0, <4>1, PassedType
      <4>3. QED  BY <2>3, <3>0, <4>1, <4>2
    <3>2. CASE item.id \notin Gauges
      <4>1. item.id \in Counters /\ num \in Nat
        BY <2>1, <3>2, Data DEF IDs
      <4>2. /\ sum' = [sum EXCEPT ![item.id] = @ + num]
            /\ UNCHANGED <<cell, setBy, passed>>
        BY <1>10, <3>2 DEF UrlUpdate, UrlUpdateIn
      <4>3. sum[item.id] + num \in Nat
        BY <3>0, <4>1
      <4>4. QED  BY <3>0, <4>1, <4>2, <4>3
    <3>3. QED  BY <3>1, <3>2
  <2>6. TypeOK'
    BY <1>0, <1>10, <2>2, <2>4, <2>5 DEF UrlUpdate, UrlUpdateIn, TypeOK, Slot, Given, poolVars, Holding
  <2>7. FiniteLoad'
    BY <1>0, <1>10, LoadStays DEF UrlUpdate, UrlUpdateIn, Holding
  <2>8. QED  BY <1>0, <2>6, <2>7 DEF Shape
<1>11. CASE Reply(r)
  <2>1. FiniteLoad'
    BY <1>0, <1>11, LoadStays DEF Reply, Holding
  <2>2. TypeOK'
    <3>0. back[r] \in Seq(Cells \union {NoCell})
      BY <1>0 DEF TypeOK
    <3>1. ASSUME NEW k \in DOMAIN back[r]
          PROVE  Answer(r)[k] \in Number \union {Nil}
      <4>1. back[r][k] \in Cells \union {NoCell}
        BY <3>0, <3>1
      <4>2. ASSUME NEW c \in Cells
            PROVE  slot[c[1]][c[2]].value \in Number \union {Nil}
        <5>1. c[1] \in Reqs /\ c[2] \in 1 .. MaxItems
          BY <4>2 DEF Cells
        <5>2. slot[c[1]][c[2]] \in Slot
          BY <1>0, <5>1
        <5>3. QED  BY <5>2 DEF Slot
      <4>3. QED  BY <4>1, <4>2 DEF Answer
    <3>2. Answer(r) \in Seq(Number \union {Nil})
      <4>1. DOMAIN back[r] = 1 .. Len(back[r]) /\ Len(back[r]) \in Nat
        BY <3>0
      <4>2. Answer(r) \in [1 .. Len(back[r]) -> Number \union {Nil}]
        BY <3>1, <4>1 DEF Answer
      <4>3. QED  BY <4>1, <4>2
    <3>3. QED
      BY <1>0, <1>11, <3>2 DEF Reply, TypeOK, poolVars, objectVars, storageVars, Holding
  <2>3. QED  BY <1>0, <2>1, <2>2 DEF Shape
<1>12. CASE Put(r)
  <2>1. slot' \in [Reqs -> [1 .. MaxItems -> Slot]]
    BY <1>0, <1>12, <1>i, ResetType DEF Put
  <2>2. queue' \in [Pools -> Seq(Reqs)]
    <3>1. queue' = [queue EXCEPT ![req[r].kind] = Append(@, obj[r])]
      BY <1>12 DEF Put
    <3>2. \A s \in Seq(Reqs) : Append(s, obj[r]) \in Seq(Reqs)
      BY <1>0, AppendProperties
    <3>3. QED  BY <1>0, <3>1, <3>2 DEF TypeOK
  <2>3. len' \in [Reqs -> 0 .. MaxItems]
    BY <1>0, <1>12, <1>i DEF Put, TypeOK
  <2>4. TypeOK'
    BY <1>0, <1>12, <2>1, <2>2, <2>3 DEF Put, TypeOK, Slot, storageVars, answerVars, Holding
  <2>5. FiniteLoad'
    BY <1>0, <1>12, LoadStays DEF Put, Holding
  <2>6. QED  BY <1>0, <2>4, <2>5 DEF Shape
<1>13. QED
  BY <1>1, <1>2, <1>3, <1>4, <1>5, <1>6, <1>7, <1>8, <1>9, <1>10, <1>11, <1>12 DEF Handle

LEMMA ShapeInvariant == Spec => []Shape
<1>1. Shape /\ [Next]_vars => Shape'
  <2>1. Shape /\ Next => Shape'
    BY StepShape DEF Next
  <2>2. Shape /\ UNCHANGED vars => Shape'
    BY DEF vars, poolVars, objectVars, storageVars, answerVars, Shape, TypeOK, FiniteLoad, Pooled,
           Counted, Holding
  <2>3. QED  BY <2>1, <2>2
<1>2. QED  BY InitShape, <1>1, PTL DEF Spec

(* Every variable keeps its type: no handler reaches beyond the slots of its  *)
(* object, and no counter is added what is not a number.                      *)
THEOREM TypeInvariant == Spec => []TypeOK
<1>1. Shape => TypeOK
  BY DEF Shape
<1>2. QED  BY ShapeInvariant, <1>1, PTL

-------------------------------------------------------------------------------
(* The size of a pool.                                                        *)

LEMMA StepPoolBounded ==
  ASSUME Shape, PoolBounded, NEW r \in Reqs, Handle(r)
  PROVE  PoolBounded'
<1>0. /\ pc \in [Reqs -> {"new", "done"} \union Holding] /\ FiniteLoad
      /\ \A p \in Pools : /\ queue[p] \in Seq(Reqs) /\ Len(queue[p]) \in Nat
                          /\ peak[p] \in Nat
                          /\ IsFiniteSet(Pooled(p)) /\ Cardinality(Pooled(p)) \in Nat
  BY FS_CardinalityType DEF Shape, TypeOK, FiniteLoad
<1>1. ASSUME UNCHANGED <<queue, peak>>,
             \A p \in Pools : Pooled(p)' \subseteq Pooled(p)
      PROVE  PoolBounded'
  <2>1. ASSUME NEW p \in Pools
        PROVE  Len(queue'[p]) + Cardinality(Pooled(p)') <= 1 + peak'[p]
    <3>1. Cardinality(Pooled(p)') <= Cardinality(Pooled(p)) /\ IsFiniteSet(Pooled(p)')
      BY <1>0, <1>1, FS_Subset
    <3>2. Cardinality(Pooled(p)') \in Nat
      BY <3>1, FS_CardinalityType
    <3>3. QED  BY <1>0, <1>1, <3>1, <3>2 DEF PoolBounded
  <2>2. QED  BY <2>1 DEF PoolBounded
<1>2. CASE Get(r)
  <2>1. PICK o \in Reqs : Hold(r, o)
    <3>1. queue[req[r].kind] # <<>> => Head(queue[req[r].kind]) \in Reqs
      BY <1>0, <1>2, HeadTailProperties DEF Get
    <3>2. QED  BY <1>2, <3>1 DEF Get
  <2>2. queue' \in [Pools -> Seq(Reqs)]
    BY <1>2, StepShape DEF Handle, Shape, TypeOK
  <2>3. /\ req' = req /\ req[r].kind \in Pools
        /\ Cardinality(Pooled(req[r].kind)') = Cardinality(Pooled(req[r].kind)) + 1
        /\ \A p \in Pools \ {req[r].kind} : Pooled(p)' = Pooled(p)
    BY <1>2, <2>1, <2>2, HoldShape DEF Get, Hold, Shape
  <2>4. /\ peak'[req[r].kind] \in Nat
        /\ peak'[req[r].kind] >= Cardinality(Pooled(req[r].kind)) + 1
        /\ \A p \in Pools \ {req[r].kind} : peak'[p] = peak[p]
    <3>1. /\ req[r].kind \in Pools /\ peak \in [Pools -> Nat]
          /\ Cardinality(Pooled(req[r].kind)) \in Nat
      BY <1>0, <2>3 DEF Shape, TypeOK
    <3>2. peak' = [peak EXCEPT ![req[r].kind] =
                     IF Cardinality(Pooled(req[r].kind)) + 1 > @
                     THEN Cardinality(Pooled(req[r].kind)) + 1 ELSE @]
      BY <2>1 DEF Hold
    <3>3. QED  BY <3>1, <3>2
  <2>5. /\ Len(queue'[req[r].kind]) \in Nat /\ Len(queue'[req[r].kind]) <= 1
        /\ \A p \in Pools \ {req[r].kind} : queue'[p] = queue[p]
    <3>1. CASE queue[req[r].kind] = <<>>
      BY <1>2, <3>1 DEF Get
    <3>2. CASE queue[req[r].kind] # <<>>
      <4>1. Len(SubSeq(queue[req[r].kind], 1, 1)) = 1
        BY <1>0, <2>3, <3>2
      <4>2. queue' = [queue EXCEPT ![req[r].kind] = SubSeq(@, 1, 1)]
        BY <1>2, <3>2 DEF Get
      <4>3. QED  BY <2>3, <4>1, <4>2 DEF Shape, TypeOK
    <3>3. QED  BY <3>1, <3>2
  <2>6. ASSUME NEW p \in Pools
        PROVE  Len(queue'[p]) + Cardinality(Pooled(p)') <= 1 + peak'[p]
    <3>1. CASE p = req[r].kind
      <4>1. Cardinality(Pooled(p)') = Cardinality(Pooled(p)) + 1
        BY <2>3, <3>1
      <4>2. /\ peak'[p] \in Nat /\ peak'[p] >= Cardinality(Pooled(p)) + 1
            /\ Len(queue'[p]) \in Nat /\ Len(queue'[p]) <= 1
        BY <2>4, <2>5, <3>1
      <4>3. QED  BY <1>0, <4>1, <4>2
    <3>2. CASE p # req[r].kind
      BY <2>3, <2>4, <2>5, <3>2 DEF PoolBounded
    <3>3. QED  BY <3>1, <3>2
  <2>7. QED  BY <2>6 DEF PoolBounded
<1>3. CASE Put(r)
  <2>1. req' = req /\ peak' = peak /\ pc[r] = "put" /\ pc' = [pc EXCEPT ![r] = "done"]
        /\ queue' = [queue EXCEPT ![req[r].kind] = Append(@, obj[r])]
    BY <1>3 DEF Put
  <2>2. ASSUME NEW p \in Pools
        PROVE  Len(queue'[p]) + Cardinality(Pooled(p)') <= 1 + peak'[p]
    <3>1. CASE p = req[r].kind
      <4>1. r \in Pooled(p) /\ Pooled(p)' = Pooled(p) \ {r}
        BY <1>0, <2>1, <3>1 DEF Pooled, Holding
      <4>2. Cardinality(Pooled(p)') = Cardinality(Pooled(p)) - 1
        BY <1>0, <4>1, FS_RemoveElement
      <4>3. Len(queue'[p]) = Len(queue[p]) + 1
        BY <1>0, <2>1, <3>1 DEF Shape, TypeOK
      <4>4. QED  BY <1>0, <2>1, <4>2, <4>3 DEF PoolBounded
    <3>2. CASE p # req[r].kind
      <4>1. Pooled(p)' = Pooled(p)
        BY <1>0, <2>1, <3>2 DEF Pooled
      <4>2. QED  BY <2>1, <3>2, <4>1 DEF PoolBounded
    <3>3. QED  BY <3>1, <3>2
  <2>3. QED  BY <2>2 DEF PoolBounded
<1>4. CASE Decode(r)
  <2>1. UNCHANGED <<queue, peak, req, pc>>
    BY <1>4 DEF Decode, poolVars
  <2>2. QED  BY <1>1, <2>1 DEF Pooled
<1>5. CASE UpdateBatchItem(r) \/ Reload(r)
  <2>1. /\ UNCHANGED <<queue, peak, req>> /\ pc[r] \in {"apply", "reload"}
        /\ \/ UNCHANGED pc
           \/ \E place : pc' = [pc EXCEPT ![r] = place]
    BY <1>5 DEF UpdateBatchItem, Reload, poolVars
  <2>2. \A p \in Pools : Pooled(p)' \subseteq Pooled(p)
    BY <1>0, <2>1 DEF Pooled, Holding
  <2>3. QED  BY <1>1, <2>1, <2>2
<1>6. CASE Decoded(r) \/ Refuse(r) \/ Call(r) \/ UpdateMetric(r) \/ UpdatedBatch(r)
           \/ UrlUpdate(r) \/ Reply(r)
  <2>1. /\ UNCHANGED <<queue, peak, req>>
        /\ \E place : /\ pc' = [pc EXCEPT ![r] = place]
                      /\ place \in Holding => pc[r] \in Holding
    BY <1>6 DEF Decoded, Refuse, Call, UpdateMetric, UpdatedBatch, UrlUpdate, UrlUpdateIn, Reply,
                poolVars, Holding
  <2>2. \A p \in Pools : Pooled(p)' \subseteq Pooled(p)
    BY <1>0, <2>1, LoadStays
  <2>3. QED  BY <1>1, <2>1, <2>2
<1>7. QED
  BY <1>2, <1>3, <1>4, <1>5, <1>6 DEF Handle

(* A pool keeps one object more, at most, than have ever been in use at once, *)
(* however many requests come: the queue is cut down at every Get.            *)
THEOREM PoolBoundedInvariant == Spec => []PoolBounded
<1>1. Init => PoolBounded
  <2>1. Init => \A p \in Pools : Pooled(p) = {} /\ queue[p] = <<>> /\ peak[p] = 0
    BY DEF Init, Pooled, Holding
  <2>2. Cardinality({}) = 0
    BY FS_EmptySet
  <2>3. ASSUME Init, NEW p \in Pools
        PROVE  Len(queue[p]) + Cardinality(Pooled(p)) <= 1 + peak[p]
    <3>1. Cardinality(Pooled(p)) = 0 /\ peak[p] = 0
      BY <2>1, <2>2, <2>3
    <3>2. Len(queue[p]) = 0
      BY <2>1, <2>3
    <3>3. QED  BY <3>1, <3>2
  <2>4. QED  BY <2>3 DEF PoolBounded
<1>2. Shape /\ PoolBounded /\ [Next]_vars => PoolBounded'
  <2>1. Shape /\ PoolBounded /\ Next => PoolBounded'
    BY StepPoolBounded DEF Next
  <2>2. PoolBounded /\ UNCHANGED vars => PoolBounded'
    BY DEF vars, poolVars, PoolBounded, Pooled
  <2>3. QED  BY <2>1, <2>2
<1>3. QED  BY <1>1, <1>2, ShapeInvariant, PTL DEF Spec

-------------------------------------------------------------------------------
(* What one step changes.                                                     *)

(* The objects of a pool are those its own requests have made; a request of a *)
(* URL makes none.                                                            *)
Kinds ==
  /\ \A r \in Reqs : pc[r] \in Holding =>
       req[r].kind \in Pools /\ req[obj[r]].kind = req[r].kind
  /\ \A p \in Pools : \A k \in DOMAIN queue[p] : req[queue[p][k]].kind = p

(* Who shares an object is known.                                             *)
Alone ==
  \A r, q \in Reqs :
    r \notin shared /\ pc[r] \in Holding /\ pc[q] \in Holding /\ obj[r] = obj[q] => r = q

(* Who gets an object gets one of the pool it asked.                          *)
LEMMA GotObject ==
  ASSUME Shape, Kinds, NEW q \in Reqs, Get(q)
  PROVE  \E o \in Reqs : Hold(q, o) /\ req[o].kind = req[q].kind
<1>1. CASE queue[req[q].kind] = <<>>
  BY <1>1 DEF Get
<1>2. CASE queue[req[q].kind] # <<>>
  <2>1. Hold(q, Head(queue[req[q].kind])) /\ req[q].kind \in Pools
    BY <1>2 DEF Get
  <2>2. queue[req[q].kind] \in Seq(Reqs)
    BY <2>1 DEF Shape, TypeOK
  <2>3. /\ Head(queue[req[q].kind]) = queue[req[q].kind][1]
        /\ 1 \in DOMAIN queue[req[q].kind] /\ Head(queue[req[q].kind]) \in Reqs
    BY <1>2, <2>2
  <2>4. req[Head(queue[req[q].kind])].kind = req[q].kind
    BY <2>1, <2>3 DEF Kinds
  <2>5. QED  BY <2>1, <2>3, <2>4
<1>3. QED  BY <1>1, <1>2

(* The other steps leave to everybody the object it has.                      *)
LEMMA ObjectsLeft ==
  ASSUME Shape, NEW q \in Reqs, Handle(q), ~Get(q)
  PROVE  /\ UNCHANGED <<obj, user, shared>>
         /\ pc'[q] \in Holding => pc[q] \in Holding
<1>0. pc \in [Reqs -> {"new", "done"} \union Holding]
  BY DEF Shape, TypeOK
<1>1. CASE Decode(q) \/ Decoded(q) \/ Refuse(q) \/ Call(q) \/ UpdatedBatch(q) \/ Reply(q)
           \/ Put(q) \/ Reload(q)
  BY <1>0, <1>1
     DEF Decode, Decoded, Refuse, Call, UpdatedBatch, Reply, Put, Reload, poolVars, Holding
<1>2. CASE UpdateMetric(q) \/ UpdateBatchItem(q) \/ UrlUpdate(q)
  BY <1>0, <1>2 DEF UpdateMetric, UpdateBatchItem, UrlUpdate, UrlUpdateIn, poolVars, Holding
<1>3. QED  BY <1>1, <1>2 DEF Handle

(* The slots of an object are written by the handlers that hold it, and by    *)
(* the one request of a URL that is its own.                                  *)
LEMMA Writers ==
  ASSUME Shape, NEW q \in Reqs, Handle(q), NEW o \in Reqs, slot'[o] # slot[o]
  PROVE  \/ Decode(q) /\ obj[q] = o
         \/ Put(q) /\ obj[q] = o
         \/ UrlUpdate(q) /\ q = o
<1>0. slot \in [Reqs -> [1 .. MaxItems -> Slot]]
  BY DEF Shape, TypeOK, Slot
<1>1. CASE Decode(q)
  BY <1>0, <1>1 DEF Decode
<1>2. CASE Put(q)
  BY <1>0, <1>2 DEF Put
<1>3. CASE UrlUpdate(q)
  BY <1>0, <1>3 DEF UrlUpdate, UrlUpdateIn
<1>4. CASE Get(q) \/ Decoded(q) \/ Refuse(q) \/ Call(q) \/ UpdateMetric(q)
           \/ UpdateBatchItem(q) \/ UpdatedBatch(q) \/ Reply(q) \/ Reload(q)
  BY <1>4 DEF Get, Hold, Decoded, Refuse, Call, UpdateMetric, UpdateBatchItem, UpdatedBatch,
              Reply, Reload, objectVars
<1>5. QED
  BY <1>1, <1>2, <1>3, <1>4 DEF Handle

(* Nobody else writes to the object of a request that is alone with it.       *)
LEMMA AloneKept ==
  ASSUME Shape, Kinds, Alone, NEW q \in Reqs, Handle(q), NEW r \in Reqs \ {q},
         r \notin shared', pc[r] \in Holding
  PROVE  slot'[obj[r]] = slot[obj[r]]
<1>1. obj[r] \in Reqs /\ r \notin shared
  BY OthersLeft DEF Shape, TypeOK
<1>2. ASSUME slot'[obj[r]] # slot[obj[r]]
      PROVE  FALSE
  <2>1. CASE (Decode(q) \/ Put(q)) /\ obj[q] = obj[r]
    <3>1. pc[q] \in Holding
      BY <2>1 DEF Decode, Put, Holding
    <3>2. QED  BY <1>1, <2>1, <3>1 DEF Alone
  <2>2. CASE UrlUpdate(q) /\ q = obj[r]
    BY <2>2 DEF UrlUpdate, UrlUpdateIn, Kinds, Pools
  <2>3. QED  BY <1>1, <1>2, <2>1, <2>2, Writers
<1>3. QED  BY <1>2

(* No request is new again.                                                   *)
LEMMA NewNoMore ==
  ASSUME Shape, NEW q \in Reqs, Handle(q)
  PROVE  pc'[q] # "new"
<1>0. pc \in [Reqs -> {"new", "done"} \union Holding]
  BY DEF Shape, TypeOK
<1>1. CASE Get(q)
  <2>1. \E o : Hold(q, o)
    BY <1>1 DEF Get
  <2>2. QED  BY <1>0, <2>1 DEF Hold
<1>2. CASE Decode(q) \/ Decoded(q) \/ Refuse(q) \/ Call(q) \/ UpdatedBatch(q) \/ Reply(q)
           \/ Put(q) \/ Reload(q)
  BY <1>0, <1>2 DEF Decode, Decoded, Refuse, Call, UpdatedBatch, Reply, Put, Reload
<1>3. CASE UpdateMetric(q) \/ UpdateBatchItem(q) \/ UrlUpdate(q)
  BY <1>0, <1>3 DEF UpdateMetric, UpdateBatchItem, UrlUpdate, UrlUpdateIn
<1>4. QED  BY <1>1, <1>2, <1>3 DEF Handle

(* Who has had an object has had it.                                          *)
LEMMA SentGrows ==
  ASSUME Shape, NEW q \in Reqs, Handle(q), NEW o \in Reqs, NEW k
  PROVE  SentAt(o, k) \subseteq SentAt(o, k)' /\ (pc[q] # "new" => obj'[q] = obj[q])
<1>1. pc[q] # "new" => obj'[q] = obj[q]
  BY ObjectsLeft DEF Get
<1>2. ASSUME NEW r \in Users(o)
      PROVE  r \in Users(o)'
  BY <1>1, <1>2, OthersLeft, NewNoMore DEF Users, Shape
<1>3. \A r \in Reqs : Items(r)' = Items(r)
  BY OthersLeft DEF Items, Shape
<1>4. ASSUME NEW x \in SentAt(o, k)
      PROVE  x \in SentAt(o, k)'
  <2>1. PICK r \in Users(o) : k <= Len(Items(r)) /\ x = Items(r)[k]
    BY <1>4 DEF SentAt
  <2>2. r \in Users(o)' /\ k <= Len(Items(r)') /\ x = Items(r)'[k]
    BY <1>2, <1>3, <2>1 DEF Users
  <2>3. QED  BY <2>2 DEF SentAt
<1>5. QED  BY <1>1, <1>4

-------------------------------------------------------------------------------
(* What the storage gets.                                                     *)

(* A slot has what an item says; it has no number and no name that the item   *)
(* does not say; it has nothing that was not sent for it.                     *)
Fills(s, item) ==
  /\ item.id # Missing => s.id = item.id
  /\ item.delta # Missing => s.delta = item.delta
  /\ item.value # Missing => s.value = item.value

Clear(s, item) ==
  /\ item.id = Missing => s.id = NoId
  /\ item.delta = Missing => s.delta \in {Nil, 0}
  /\ item.value = Missing => s.value \in {Nil, 0}

Blank(s) == s.id = NoId /\ s.delta \in {Nil, 0} /\ s.value \in {Nil, 0}

Stems(s, sent) ==
  /\ s.id \in {NoId} \union {x.id : x \in sent}
  /\ s.delta \in {Nil} \union {x.delta : x \in sent}
  /\ s.value \in {Nil} \union {x.value : x \in sent}

(* What the storage has got for an item is what TakenAsSent says, and zero    *)
(* for the number that a single update does not name.                         *)
AsSent(given, item, kind, sent) ==
  /\ item.id # Missing => given.id = item.id
  /\ item.id = Missing => kind = "batch" /\ given.id \in {NoId} \union {s.id : s \in sent}
  /\ given.id # NoId /\ NumberOf(given.id, item) # Missing => given.num = NumberOf(given.id, item)
  /\ given.id # NoId /\ NumberOf(given.id, item) = Missing /\ kind = "batch" =>
       given.num \in {Nil} \union {NumberOf(given.id, s) : s \in sent}
  /\ kind = "single" /\ NumberOf(given.id, item) = Missing => given.num = 0

LEMMA StoredAsSent ==
  ASSUME NEW s \in Slot, NEW item \in Item, NEW kind \in Pools, NEW sent, Fills(s, item),
         kind = "batch" => Stems(s, sent),
         kind = "single" => Clear(s, item) /\ s.id # NoId /\ NumberOf(s.id, s) # Nil
  PROVE  AsSent([id |-> s.id, num |-> NumberOf(s.id, s)], item, kind, sent)
<1>1. item.id # Missing => s.id = item.id
  BY DEF Fills
<1>2. item.id = Missing => kind = "batch" /\ s.id \in {NoId} \union {x.id : x \in sent}
  BY DEF Clear, Stems, Pools
<1>3. NumberOf(s.id, item) # Missing => NumberOf(s.id, s) = NumberOf(s.id, item)
  BY DEF Fills, NumberOf
<1>4. kind = "batch" => NumberOf(s.id, s) \in {Nil} \union {NumberOf(s.id, x) : x \in sent}
  BY DEF Stems, NumberOf
<1>5. kind = "single" /\ NumberOf(s.id, item) = Missing => NumberOf(s.id, s) = 0
  BY DEF Clear, NumberOf
<1>6. QED  BY <1>1, <1>2, <1>3, <1>4, <1>5 DEF AsSent

LEMMA NothingStored ==
  ASSUME NEW s \in Slot, NEW item \in Item, NEW sent, Fills(s, item), s.id = NoId
  PROVE  AsSent([id |-> NoId, num |-> Nil], item, "batch", sent)
<1>1. item.id = Missing
  BY Data DEF Fills, Item
<1>2. QED  BY <1>1 DEF AsSent

LEMMA AsSentGrows ==
  ASSUME NEW given, NEW item, NEW kind, NEW sent, NEW more, sent \subseteq more,
         AsSent(given, item, kind, sent)
  PROVE  AsSent(given, item, kind, more)
BY DEF AsSent

(* A single update's object that nobody holds is blank, and a batch's slots   *)
(* have what the requests with this object have sent at this place.           *)
Cleared == \A o \in Reqs : req[o].kind = "single" /\ Holders(o) = {} => Blank(slot[o][1])

Stemmed ==
  \A o \in Reqs : req[o].kind = "batch" =>
    \A k \in 1 .. MaxItems : Stems(slot[o][k], SentAt(o, k))

Taken(r) ==
  /\ Len(got[r]) <= Len(Items(r))
  /\ \A k \in DOMAIN got[r] :
       AsSent(got[r][k], Items(r)[k], req[r].kind, SentAt(obj[r], k))

Filled(r, k) == Fills(slot[obj[r]][k], Items(r)[k])

(* A request alone with its object has filled the slots it has decoded, is    *)
(* given their length, and has handed over the items it has passed.           *)
ExactOf(r) ==
  r \notin shared =>
    /\ Taken(r)
    /\ pc[r] = "decode" => idx[r] <= Len(Items(r)) /\ \A k \in 1 .. idx[r] : Filled(r, k)
    /\ pc[r] \in {"call", "apply", "reload", "reply"} =>
         \A k \in 1 .. Len(Items(r)) : Filled(r, k)
    /\ pc[r] = "call" /\ req[r].kind = "batch" => len[obj[r]] = Len(Items(r))
    /\ pc[r] \in {"apply", "reload"} => taken[r] = Len(Items(r))
    /\ pc[r] \in {"decode", "call", "apply"} /\ req[r].kind = "single" =>
         Clear(slot[obj[r]][1], Items(r)[1])

Exact == \A r \in Reqs : ExactOf(r)
Fed   == Kinds /\ Alone /\ Cleared /\ Stemmed /\ Exact

LEMMA InitFed == Init => Fed
<1> SUFFICES ASSUME Init PROVE Fed
  OBVIOUS
<1>1. Kinds /\ Alone
  BY DEF Init, Kinds, Alone, Holding
<1>2. ASSUME NEW r \in Reqs
      PROVE  ExactOf(r)
  <2>1. got[r] = <<>> /\ pc[r] = "new" /\ Len(Items(r)) \in Nat
    BY InputType DEF Init
  <2>2. QED  BY <2>1 DEF ExactOf, Taken
<1>3. ASSUME NEW o \in Reqs, NEW k \in 1 .. MaxItems
      PROVE  Blank(slot[o][k]) /\ Stems(slot[o][k], SentAt(o, k))
  <2>1. slot[o][k] = Empty
    BY <1>3 DEF Init
  <2>2. QED  BY <2>1 DEF Empty, Blank, Stems
<1>4. 1 \in 1 .. MaxItems
  BY PoolAssumption DEF PoolAssumption
<1>5. QED  BY <1>1, <1>2, <1>3, <1>4 DEF Fed, Exact, Cleared, Stemmed

(* No step takes an object away, or adds a handler to one, but Get.           *)
LEMMA HoldersStay ==
  ASSUME Shape, Kinds, Alone, UNCHANGED <<req, obj, shared>>, NEW r \in Reqs,
         \A q \in Reqs : pc'[q] \in Holding => pc[q] \in Holding,
         \/ UNCHANGED queue
         \/ pc[r] \in Holding /\ queue' = [queue EXCEPT ![req[r].kind] = Append(@, obj[r])]
  PROVE  Kinds' /\ Alone'
<1>1. Alone'
  BY DEF Alone
<1>2. ASSUME NEW p \in Pools, NEW k \in DOMAIN queue'[p]
      PROVE  req[queue'[p][k]].kind = p
  <2>1. CASE UNCHANGED queue
    BY <1>2, <2>1 DEF Kinds
  <2>2. CASE pc[r] \in Holding /\ queue' = [queue EXCEPT ![req[r].kind] = Append(@, obj[r])]
    <3>1. queue[p] \in Seq(Reqs) /\ obj[r] \in Reqs /\ queue \in [Pools -> Seq(Reqs)]
      BY DEF Shape, TypeOK
    <3>2. CASE p = req[r].kind
      <4>1. queue'[p] = Append(queue[p], obj[r])
        BY <2>2, <3>1, <3>2
      <4>2. k \in 1 .. Len(queue[p]) + 1
        BY <1>2, <3>1, <4>1
      <4>3. CASE k \in 1 .. Len(queue[p])
        <5>1. queue'[p][k] = queue[p][k] /\ k \in DOMAIN queue[p]
          BY <3>1, <4>1, <4>3
        <5>2. QED  BY <5>1 DEF Kinds
      <4>4. CASE k = Len(queue[p]) + 1
        <5>1. queue'[p][k] = obj[r]
          BY <3>1, <4>1, <4>4
        <5>2. QED  BY <2>2, <3>2, <5>1 DEF Kinds
      <4>5. QED  BY <3>1, <4>2, <4>3, <4>4
    <3>3. CASE p # req[r].kind
      <4>1. queue'[p] = queue[p]
        BY <2>2, <3>1, <3>3
      <4>2. QED  BY <1>2, <4>1 DEF Kinds
    <3>4. QED  BY <3>2, <3>3
  <2>3. QED  BY <2>1, <2>2
<1>3. Kinds'
  BY <1>2 DEF Kinds
<1>4. QED  BY <1>1, <1>3

LEMMA StepHolders ==
  ASSUME Shape, Fed, NEW r \in Reqs, Handle(r)
  PROVE  Kinds' /\ Alone'
<1>0. /\ pc \in [Reqs -> {"new", "done"} \union Holding]
      /\ obj \in [Reqs -> Reqs] /\ Kinds /\ Alone
      /\ \A p \in Pools : queue[p] \in Seq(Reqs)
      /\ queue \in [Pools -> Seq(Reqs)]
  BY DEF Shape, TypeOK, Fed
<1>1. CASE Get(r)
  <2>1. PICK o \in Reqs : /\ Hold(r, o) /\ req[o].kind = req[r].kind
                          /\ \A p \in Pools : \A k \in DOMAIN queue'[p] :
                               k \in DOMAIN queue[p] /\ queue'[p][k] = queue[p][k]
    <3>1. CASE queue[req[r].kind] = <<>>
      BY <1>1, <3>1 DEF Get
    <3>2. CASE queue[req[r].kind] # <<>>
      <4>1. /\ Hold(r, Head(queue[req[r].kind])) /\ req[r].kind \in Pools
            /\ queue' = [queue EXCEPT ![req[r].kind] = SubSeq(@, 1, 1)]
        BY <1>1, <3>2 DEF Get
      <4>2. /\ Head(queue[req[r].kind]) = queue[req[r].kind][1] /\ 1 \in DOMAIN queue[req[r].kind]
            /\ Head(queue[req[r].kind]) \in Reqs
            /\ DOMAIN SubSeq(queue[req[r].kind], 1, 1) = {1}
            /\ SubSeq(queue[req[r].kind], 1, 1)[1] = queue[req[r].kind][1]
        BY <1>0, <3>2, <4>1
      <4>3. req[Head(queue[req[r].kind])].kind = req[r].kind
        BY <1>0, <4>1, <4>2 DEF Kinds
      <4>4. QED  BY <1>0, <4>1, <4>2, <4>3
    <3>3. QED  BY <3>1, <3>2
  <2>2. /\ req' = req /\ pc' = [pc EXCEPT ![r] = "decode"] /\ obj' = [obj EXCEPT ![r] = o]
        /\ shared' = IF Holders(o) = {} THEN shared ELSE shared \union Holders(o) \union {r}
        /\ req[r].kind \in Pools
    BY <1>1, <2>1 DEF Hold, Get
  <2>3. Kinds'
    BY <1>0, <2>1, <2>2 DEF Kinds, Holding
  <2>4. Alone'
    <3>1. SUFFICES ASSUME NEW a \in Reqs, NEW b \in Reqs, a \notin shared', a # b,
                          pc'[a] \in Holding, pc'[b] \in Holding, obj'[a] = obj'[b]
                   PROVE  FALSE
      BY DEF Alone
    <3>2. CASE a # r /\ b # r
      BY <1>0, <2>2, <3>1, <3>2 DEF Alone
    <3>3. CASE a = r
      <4>1. b \in Holders(o)
        BY <1>0, <2>2, <3>1, <3>3 DEF Holders
      <4>2. QED  BY <2>2, <3>1, <3>3, <4>1
    <3>4. CASE b = r
      <4>1. a \in Holders(o)
        BY <1>0, <2>2, <3>1, <3>4 DEF Holders
      <4>2. QED  BY <2>2, <3>1, <4>1
    <3>5. QED  BY <3>2, <3>3, <3>4
  <2>5. QED  BY <2>3, <2>4
<1>2. CASE Put(r)
  BY <1>0, <1>2, HoldersStay DEF Put, Holding
<1>3. CASE Decode(r)
  BY <1>0, <1>3, HoldersStay DEF Decode, poolVars
<1>4. CASE Decoded(r) \/ Refuse(r) \/ Call(r) \/ UpdatedBatch(r) \/ Reply(r) \/ Reload(r)
  BY <1>0, <1>4, HoldersStay DEF Decoded, Refuse, Call, UpdatedBatch, Reply, Reload, poolVars, Holding
<1>5. CASE UpdateMetric(r) \/ UpdateBatchItem(r) \/ UrlUpdate(r)
  BY <1>0, <1>5, HoldersStay
     DEF UpdateMetric, UpdateBatchItem, UrlUpdate, UrlUpdateIn, poolVars, Holding
<1>6. QED
  BY <1>1, <1>2, <1>3, <1>4, <1>5 DEF Handle

LEMMA StepCleared ==
  ASSUME Shape, Fed, NEW q \in Reqs, Handle(q)
  PROVE  Cleared'
<1>0. /\ pc \in [Reqs -> {"new", "done"} \union Holding]
      /\ obj \in [Reqs -> Reqs] /\ slot \in [Reqs -> [1 .. MaxItems -> Slot]]
      /\ 1 \in 1 .. MaxItems /\ UNCHANGED req
  BY InputType, OthersLeft DEF Shape, TypeOK, Slot
<1> SUFFICES ASSUME NEW o \in Reqs, req[o].kind = "single", Holders(o)' = {}
             PROVE  Blank(slot'[o][1])
  BY <1>0 DEF Cleared
<1>1. CASE Put(q) /\ obj[q] = o
  <2>1. req[q].kind = "single"
    BY <1>1 DEF Put, Holding, Fed, Kinds
  <2>2. slot'[o] = Reset("single", slot[o])
    BY <1>0, <1>1, <2>1 DEF Put
  <2>3. slot[o] \in [1 .. MaxItems -> Slot]
    BY <1>0
  <2>4. slot'[o][1] = [ id |-> NoId, delta |-> Zeroed(slot[o][1].delta),
                        value |-> Zeroed(slot[o][1].value) ]
    BY <1>0, <2>2, <2>3 DEF Reset
  <2>5. QED  BY <2>4 DEF Blank, Zeroed
<1>2. CASE ~(Put(q) /\ obj[q] = o)
  <2>1. Holders(o) = {}
    <3>1. ASSUME NEW r \in Holders(o)
          PROVE  FALSE
      <4>1. r \in Reqs /\ pc[r] \in Holding /\ obj[r] = o
        BY <3>1 DEF Holders
      <4>2. r = q
        BY <4>1, OthersLeft DEF Holders, Shape
      <4>3. CASE Put(q)
        BY <1>2, <4>1, <4>2, <4>3
      <4>4. CASE Decode(q) \/ Decoded(q) \/ Refuse(q) \/ Call(q) \/ UpdatedBatch(q) \/ Reply(q)
                 \/ Reload(q)
        <5>1. UNCHANGED obj /\ pc'[q] \in Holding
          BY <1>0, <4>1, <4>2, <4>4
             DEF Decode, Decoded, Refuse, Call, UpdatedBatch, Reply, Reload, poolVars, Holding
        <5>2. QED  BY <4>1, <4>2, <5>1 DEF Holders
      <4>5. CASE UpdateMetric(q) \/ UpdateBatchItem(q)
        <5>1. UNCHANGED obj /\ pc'[q] \in Holding
          BY <1>0, <4>1, <4>2, <4>5 DEF UpdateMetric, UpdateBatchItem, poolVars, Holding
        <5>2. QED  BY <4>1, <4>2, <5>1 DEF Holders
      <4>6. CASE Get(q) \/ UrlUpdate(q)
        BY <4>1, <4>2, <4>6 DEF Get, UrlUpdate, UrlUpdateIn, Holding
      <4>7. QED  BY <4>3, <4>4, <4>5, <4>6 DEF Handle
    <3>2. QED  BY <3>1
  <2>2. slot'[o] = slot[o]
    <3>1. ~(Decode(q) /\ obj[q] = o)
      BY <2>1 DEF Decode, Holding, Holders
    <3>2. ~(UrlUpdate(q) /\ q = o)
      BY DEF UrlUpdate, UrlUpdateIn
    <3>3. QED  BY <1>2, <3>1, <3>2, Writers
  <2>3. QED  BY <2>1, <2>2 DEF Cleared, Fed
<1>3. QED  BY <1>1, <1>2

(* What a decoded item leaves in a slot stems from the item, or was there.    *)
LEMMA WrittenStems ==
  ASSUME NEW s \in Slot, NEW item \in Item, NEW sent, item \in sent, Stems(s, sent)
  PROVE  Stems(Written(s, item), sent)
BY WrittenIs DEF Stems

LEMMA StemsGrow ==
  ASSUME NEW s, NEW sent, NEW more, sent \subseteq more, Stems(s, sent)
  PROVE  Stems(s, more)
BY DEF Stems

LEMMA StepStemmed ==
  ASSUME Shape, Fed, NEW q \in Reqs, Handle(q)
  PROVE  Stemmed'
<1>0. /\ pc \in [Reqs -> {"new", "done"} \union Holding]
      /\ obj \in [Reqs -> Reqs] /\ slot \in [Reqs -> [1 .. MaxItems -> Slot]]
      /\ UNCHANGED req
  BY OthersLeft DEF Shape, TypeOK, Slot
<1> SUFFICES ASSUME NEW o \in Reqs, req[o].kind = "batch", NEW k \in 1 .. MaxItems
             PROVE  Stems(slot'[o][k], SentAt(o, k)')
  BY <1>0 DEF Stemmed
<1>1. SentAt(o, k) \subseteq SentAt(o, k)' /\ Stems(slot[o][k], SentAt(o, k))
  BY SentGrows DEF Fed, Stemmed
<1>2. CASE slot'[o][k] = slot[o][k]
  BY <1>1, <1>2, StemsGrow
<1>3. CASE Decode(q) /\ obj[q] = o /\ k = idx[q] + 1
  <2>1. /\ pc[q] = "decode" /\ idx[q] < Len(Items(q))
        /\ slot' = [slot EXCEPT ![o][k] = Written(@, Items(q)[k])]
    BY <1>3 DEF Decode
  <2>2. slot'[o][k] = Written(slot[o][k], Items(q)[k]) /\ slot[o][k] \in Slot
    BY <1>0, <2>1
  <2>3. k <= Len(Items(q)) /\ Items(q)[k] \in Item
    <3>1. idx[q] \in 0 .. MaxItems /\ MaxItems \in Nat /\ req \in [Reqs -> Input]
      BY PoolAssumption DEF Shape, TypeOK, PoolAssumption
    <3>2. Len(Items(q)) \in Nat /\ \A j \in 1 .. Len(Items(q)) : Items(q)[j] \in Item
      BY <3>1, InputType
    <3>3. k \in 1 .. Len(Items(q))
      BY <1>3, <2>1, <3>1, <3>2
    <3>4. QED  BY <3>2, <3>3
  <2>4. Items(q)[k] \in SentAt(o, k)
    <3>1. q \in Users(o)
      BY <1>3, <2>1 DEF Users
    <3>2. QED  BY <2>3, <3>1 DEF SentAt
  <2>5. Stems(Written(slot[o][k], Items(q)[k]), SentAt(o, k))
    BY <1>1, <2>2, <2>3, <2>4, WrittenStems
  <2>6. QED  BY <1>1, <2>2, <2>5, StemsGrow
<1>4. CASE slot'[o] # slot[o] /\ ~(Decode(q) /\ obj[q] = o /\ k = idx[q] + 1)
  <2>1. CASE Decode(q) /\ obj[q] = o
    <3>1. slot' = [slot EXCEPT ![o][idx[q] + 1] = Written(@, Items(q)[idx[q] + 1])]
      BY <2>1 DEF Decode
    <3>2. slot'[o][k] = slot[o][k]
      BY <1>0, <1>4, <2>1, <3>1
    <3>3. QED  BY <1>2, <3>2
  <2>2. CASE Put(q) /\ obj[q] = o
    <3>1. req[q].kind = "batch"
      BY <2>2 DEF Put, Holding, Fed, Kinds
    <3>2. slot'[o] = slot[o]
      BY <1>0, <2>2, <3>1 DEF Put, Reset
    <3>3. QED  BY <1>4, <3>2
  <2>3. CASE UrlUpdate(q) /\ q = o
    BY <2>3 DEF UrlUpdate, UrlUpdateIn
  <2>4. QED  BY <1>4, <2>1, <2>2, <2>3, Writers
<1>5. QED  BY <1>2, <1>3, <1>4

(* The steps of q write to the object q holds, and so not to that of a        *)
(* request that shares it with nobody.                                        *)
LEMMA ExactByOthers ==
  ASSUME Shape, Fed, NEW q \in Reqs, Handle(q), NEW r \in Reqs \ {q}
  PROVE  ExactOf(r)'
<1> SUFFICES ASSUME r \notin shared'
             PROVE  ExactOf(r)'
  BY DEF ExactOf
<1>1. /\ UNCHANGED req /\ r \notin shared /\ pc'[r] = pc[r] /\ taken'[r] = taken[r]
      /\ idx'[r] = idx[r] /\ got'[r] = got[r] /\ obj'[r] = obj[r] /\ Items(r)' = Items(r)
      /\ obj[r] \in Reqs /\ ExactOf(r)
  BY OthersLeft DEF Items, Shape, TypeOK, Fed, Exact
<1>2. Taken(r)'
  <2>1. ASSUME NEW k \in DOMAIN got[r]
        PROVE  AsSent(got[r][k], Items(r)[k], req[r].kind, SentAt(obj[r], k)')
    <3>1. AsSent(got[r][k], Items(r)[k], req[r].kind, SentAt(obj[r], k))
      BY <1>1 DEF ExactOf, Taken
    <3>2. SentAt(obj[r], k) \subseteq SentAt(obj[r], k)'
      BY <1>1, SentGrows
    <3>3. QED  BY <3>1, <3>2, AsSentGrows
  <2>2. QED  BY <1>1, <2>1 DEF ExactOf, Taken
<1>3. pc[r] \in Holding => slot'[obj[r]] = slot[obj[r]]
  BY AloneKept DEF Fed
<1>4. pc[r] = "call" /\ req[r].kind = "batch" => len'[obj[r]] = len[obj[r]]
  <2> SUFFICES ASSUME pc[r] = "call", len'[obj[r]] # len[obj[r]]
               PROVE  FALSE
    OBVIOUS
  <2>1. len \in [Reqs -> 0 .. MaxItems]
    BY DEF Shape, TypeOK
  <2>2. CASE Decode(q) \/ Decoded(q) \/ Put(q)
    <3>1. obj[q] = obj[r] /\ pc[q] \in Holding
      BY <1>1, <2>1, <2>2 DEF Decode, Decoded, Put, Holding
    <3>2. QED  BY <1>1, <3>1 DEF Fed, Alone, Holding
  <2>3. CASE Get(q) \/ Refuse(q) \/ Call(q) \/ UpdateMetric(q) \/ UpdateBatchItem(q)
             \/ Reload(q) \/ UpdatedBatch(q) \/ UrlUpdate(q) \/ Reply(q)
    BY <2>3 DEF Get, Hold, Refuse, Call, UpdateMetric, UpdateBatchItem, Reload, UpdatedBatch,
                UrlUpdate, UrlUpdateIn, Reply, objectVars
  <2>4. QED  BY <2>2, <2>3 DEF Handle
<1>5. pc[r] \in Holding => \A k : Filled(r, k) => Filled(r, k)'
  BY <1>1, <1>3 DEF Filled, Items
<1>6. QED
  BY <1>1, <1>2, <1>3, <1>4, <1>5 DEF ExactOf, Holding

(* One item more is taken as it was sent.                                     *)
LEMMA TakenMore ==
  ASSUME Shape, NEW r \in Reqs, Handle(r), Taken(r), pc[r] = "apply", NEW given,
         got' = [got EXCEPT ![r] = Append(@, given)], idx[r] < Len(Items(r)),
         AsSent(given, Items(r)[idx[r] + 1], req[r].kind, SentAt(obj[r], idx[r] + 1))
  PROVE  Taken(r)'
<1>1. /\ got \in [Reqs -> Seq(Given)] /\ got[r] \in Seq(Given) /\ obj[r] \in Reqs
      /\ Len(got[r]) = idx[r] /\ idx[r] \in Nat /\ Len(Items(r)) \in Nat
  <2>1. got \in [Reqs -> Seq(Given)] /\ obj[r] \in Reqs
    BY DEF Shape, TypeOK, Given
  <2>2. Counts(req[r].kind, pc[r], idx[r], got[r], back[r])
    BY DEF Shape, Counted
  <2>3. Len(got[r]) = idx[r] /\ got[r] \in Seq(Given)
    BY <2>1, <2>2 DEF Counts
  <2>4. Len(Items(r)) \in Nat
    BY InputType DEF Shape, TypeOK
  <2>5. QED  BY <2>1, <2>3, <2>4
<1>2. got'[r] = Append(got[r], given)
  BY <1>1
<1>3. /\ Len(got'[r]) = idx[r] + 1 /\ DOMAIN got'[r] = 1 .. idx[r] + 1
      /\ \A j \in 1 .. idx[r] : got'[r][j] = got[r][j]
      /\ got'[r][idx[r] + 1] = given /\ DOMAIN got[r] = 1 .. idx[r]
  BY <1>1, <1>2
<1>4. Items(r)' = Items(r) /\ req' = req /\ obj'[r] = obj[r]
  BY OthersLeft, SentGrows DEF Items, Shape, TypeOK
<1>5. ASSUME NEW k \in 1 .. idx[r] + 1
      PROVE  AsSent(got'[r][k], Items(r)[k], req[r].kind, SentAt(obj[r], k)')
  <2>1. AsSent(got'[r][k], Items(r)[k], req[r].kind, SentAt(obj[r], k))
    <3>1. CASE k = idx[r] + 1
      BY <1>3, <3>1
    <3>2. CASE k # idx[r] + 1
      <4>1. k \in 1 .. idx[r]
        BY <1>1, <3>2
      <4>2. AsSent(got[r][k], Items(r)[k], req[r].kind, SentAt(obj[r], k))
        BY <1>3, <4>1 DEF Taken
      <4>3. QED  BY <1>3, <4>1, <4>2
    <3>3. QED  BY <3>1, <3>2
  <2>2. SentAt(obj[r], k) \subseteq SentAt(obj[r], k)'
    BY <1>1, <1>4, SentGrows
  <2>3. QED  BY <2>1, <2>2, AsSentGrows
<1>6. Len(got'[r]) <= Len(Items(r))
  BY <1>1, <1>3
<1>7. QED  BY <1>3, <1>4, <1>5, <1>6 DEF Taken

(* A handler that stores nothing leaves what was taken.                       *)
LEMMA TakenStays ==
  ASSUME Shape, NEW r \in Reqs, Handle(r), Taken(r), got'[r] = got[r]
  PROVE  Taken(r)'
<1>1. CASE got[r] = <<>>
  <2>1. Len(Items(r)') \in Nat
    <3>1. Len(Items(r)) \in Nat
      BY InputType DEF Shape, TypeOK
    <3>2. QED  BY <3>1, OthersLeft DEF Items, Shape
  <2>2. QED  BY <1>1, <2>1 DEF Taken
<1>2. CASE got[r] # <<>>
  <2>1. pc[r] # "new" /\ obj[r] \in Reqs
    BY <1>2 DEF Shape, TypeOK, Counted, Counts
  <2>2. Items(r)' = Items(r) /\ req' = req /\ obj'[r] = obj[r]
    BY <2>1, OthersLeft, SentGrows DEF Items, Shape
  <2>3. ASSUME NEW k \in DOMAIN got[r]
        PROVE  AsSent(got[r][k], Items(r)[k], req[r].kind, SentAt(obj[r], k)')
    <3>1. AsSent(got[r][k], Items(r)[k], req[r].kind, SentAt(obj[r], k))
      BY DEF Taken
    <3>2. SentAt(obj[r], k) \subseteq SentAt(obj[r], k)'
      BY <2>1, SentGrows
    <3>3. QED  BY <3>1, <3>2, AsSentGrows
  <2>4. QED  BY <2>2, <2>3 DEF Taken
<1>3. QED  BY <1>1, <1>2

LEMMA ExactByItself ==
  ASSUME Shape, Fed, NEW r \in Reqs, Handle(r)
  PROVE  ExactOf(r)'
<1>0. /\ pc \in [Reqs -> {"new", "done"} \union Holding]
      /\ obj \in [Reqs -> Reqs] /\ obj[r] \in Reqs
      /\ slot \in [Reqs -> [1 .. MaxItems -> Slot]] /\ len \in [Reqs -> 0 .. MaxItems]
      /\ idx \in [Reqs -> 0 .. MaxItems] /\ taken \in [Reqs -> 0 .. MaxItems]
      /\ got \in [Reqs -> Seq(Given)] /\ idx[r] \in Nat
      /\ Counts(req[r].kind, pc[r], idx[r], got[r], back[r])
      /\ req \in [Reqs -> Input]
  <2>1. MaxItems \in Nat
    BY PoolAssumption DEF PoolAssumption
  <2>2. /\ pc \in [Reqs -> {"new", "done"} \union Holding]
        /\ obj \in [Reqs -> Reqs] /\ got \in [Reqs -> Seq(Given)] /\ req \in [Reqs -> Input]
        /\ slot \in [Reqs -> [1 .. MaxItems -> Slot]] /\ len \in [Reqs -> 0 .. MaxItems]
        /\ idx \in [Reqs -> 0 .. MaxItems] /\ taken \in [Reqs -> 0 .. MaxItems]
    BY DEF Shape, TypeOK, Slot, Given
  <2>3. idx[r] \in 0 .. MaxItems /\ obj[r] \in Reqs
    BY <2>2
  <2>4. idx[r] \in Nat
    BY <2>1, <2>3
  <2>5. Counts(req[r].kind, pc[r], idx[r], got[r], back[r])
    BY DEF Shape, Counted
  <2>6. QED  BY <2>2, <2>3, <2>4, <2>5
<1>i. /\ Len(Items(r)) \in 1 .. MaxItems /\ Len(Items(r)) \in Nat
      /\ req[r].kind \in {"single", "batch", "url"}
      /\ \A k \in 1 .. Len(Items(r)) : k \in 1 .. MaxItems /\ Items(r)[k] \in Item
      /\ req[r].kind # "batch" => Len(Items(r)) = 1
      /\ 1 \in 1 .. MaxItems
  BY <1>0, InputType
<1>1. /\ ExactOf(r) /\ Kinds
      /\ req' = req /\ Items(r)' = Items(r) /\ shared \subseteq shared'
  BY OthersLeft DEF Fed, Exact, Items, Shape
<1> SUFFICES ASSUME r \notin shared, r \notin shared'
             PROVE  ExactOf(r)'
  BY <1>1 DEF ExactOf
<1>2. /\ Taken(r)
      /\ pc[r] = "decode" => idx[r] <= Len(Items(r)) /\ \A k \in 1 .. idx[r] : Filled(r, k)
      /\ pc[r] \in {"call", "apply", "reload", "reply"} =>
           \A k \in 1 .. Len(Items(r)) : Filled(r, k)
      /\ pc[r] = "call" /\ req[r].kind = "batch" => len[obj[r]] = Len(Items(r))
      /\ pc[r] \in {"apply", "reload"} => taken[r] = Len(Items(r))
      /\ pc[r] \in {"decode", "call", "apply"} /\ req[r].kind = "single" =>
           Clear(slot[obj[r]][1], Items(r)[1])
  BY <1>1 DEF ExactOf
<1>3. got'[r] = got[r] => Taken(r)'
  BY <1>2, TakenStays
<1>4. ASSUME pc'[r] \in {"put", "done"}, Taken(r)'
      PROVE  ExactOf(r)'
  BY <1>4 DEF ExactOf
<1>5. CASE Get(r)
  <2>1. PICK o \in Reqs : Hold(r, o) /\ req[o].kind = req[r].kind
    BY <1>1, <1>5, GotObject
  <2>2. /\ pc[r] = "new" /\ pc'[r] = "decode" /\ got' = got /\ idx' = idx /\ slot' = slot
        /\ obj'[r] = o /\ idx[r] = 0
    BY <1>0, <1>5, <2>1 DEF Get, Hold, storageVars, objectVars, Counts
  <2>3. Holders(o) = {}
    BY <2>1 DEF Hold
  <2>4. req[r].kind = "single" => Clear(slot[o][1], Items(r)[1])
    BY <2>1, <2>3 DEF Fed, Cleared, Blank, Clear
  <2>5. QED  BY <1>1, <1>3, <1>i, <2>2, <2>4 DEF ExactOf
<1>6. CASE Decode(r)
  <2> DEFINE n == idx[r] + 1
  <2>1. /\ pc[r] = "decode" /\ pc' = pc /\ got' = got /\ obj' = obj
        /\ n \in 1 .. Len(Items(r)) /\ n \in 1 .. MaxItems /\ idx'[r] = n
        /\ slot' = [slot EXCEPT ![obj[r]][n] = Written(@, Items(r)[n])]
    BY <1>0, <1>6, <1>i DEF Decode, poolVars, storageVars
  <2>2. /\ slot'[obj[r]][n] = Written(slot[obj[r]][n], Items(r)[n])
        /\ slot[obj[r]][n] \in Slot /\ Items(r)[n] \in Item
        /\ \A k \in 1 .. MaxItems \ {n} : slot'[obj[r]][k] = slot[obj[r]][k]
    <3>1. Items(r)[n] \in Item
      BY <1>i, <2>1
    <3>2. slot[obj[r]] \in [1 .. MaxItems -> Slot] /\ n \in 1 .. MaxItems
      BY <1>0, <2>1
    <3>3. slot'[obj[r]] = [slot[obj[r]] EXCEPT ![n] = Written(@, Items(r)[n])]
      BY <1>0, <2>1
    <3> HIDE DEF n
    <3>4. QED  BY <3>1, <3>2, <3>3
  <2>3. Fills(slot'[obj[r]][n], Items(r)[n])
    BY <2>2, WrittenIs DEF Fills
  <2>4. ASSUME NEW k \in 1 .. n
        PROVE  Fills(slot'[obj[r]][k], Items(r)[k])
    <3>1. CASE k = n
      BY <2>3, <3>1
    <3>2. CASE k # n
      <4>1. k \in 1 .. idx[r] /\ k \in 1 .. MaxItems
        BY <1>0, <1>i, <2>1, <3>2
      <4>2. QED  BY <1>2, <2>1, <2>2, <3>2, <4>1 DEF Filled
    <3>3. QED  BY <3>1, <3>2
  <2>5. req[r].kind = "single" => Clear(slot'[obj[r]][1], Items(r)[1])
    <3> SUFFICES ASSUME req[r].kind = "single"
                 PROVE  Clear(slot'[obj[r]][1], Items(r)[1])
      OBVIOUS
    <3>1. n = 1
      <4>1. Len(Items(r)) = 1
        BY <1>i
      <4>2. QED  BY <1>0, <2>1, <4>1
    <3>2. /\ slot'[obj[r]][1] = Written(slot[obj[r]][1], Items(r)[1])
          /\ slot[obj[r]][1] \in Slot /\ Items(r)[1] \in Item
      BY <2>2, <3>1
    <3>3. Clear(slot[obj[r]][1], Items(r)[1])
      BY <1>2, <2>1
    <3>4. QED  BY <3>2, <3>3, WrittenIs DEF Clear
  <2>6. Taken(r)'
    BY <1>3, <2>1
  <2>7. n <= Len(Items(r))
    BY <1>i, <2>1
  <2>8. QED  BY <1>1, <2>1, <2>4, <2>5, <2>6, <2>7 DEF ExactOf, Filled
<1>7. ASSUME slot' = slot, obj' = obj
      PROVE  /\ \A k : Filled(r, k)' <=> Filled(r, k)
             /\ Clear(slot'[obj'[r]][1], Items(r)'[1]) <=> Clear(slot[obj[r]][1], Items(r)[1])
  BY <1>1, <1>7 DEF Filled
<1>8. CASE Decoded(r)
  <2>1. /\ pc[r] = "decode" /\ pc'[r] = "call" /\ idx[r] = Len(Items(r))
        /\ got' = got /\ obj' = obj /\ slot' = slot /\ len'[obj[r]] = Len(Items(r))
    BY <1>0, <1>8 DEF Decoded, poolVars, storageVars
  <2>2. Taken(r)'
    BY <1>3, <2>1
  <2>3. QED  BY <1>1, <1>2, <1>7, <2>1, <2>2 DEF ExactOf
<1>9. CASE Call(r)
  <2>1. /\ pc[r] = "call" /\ pc'[r] = "apply" /\ got' = got /\ obj' = obj /\ slot' = slot
        /\ taken'[r] = IF req[r].kind = "single" THEN 1 ELSE len[obj[r]]
    BY <1>0, <1>9 DEF Call, poolVars, objectVars, storageVars
  <2>2. req[r].kind \in Pools
    BY <1>1, <2>1 DEF Kinds, Holding
  <2>3. taken'[r] = Len(Items(r))
    BY <1>2, <1>i, <2>1, <2>2 DEF Pools
  <2>4. Taken(r)'
    BY <1>3, <2>1
  <2>5. QED  BY <1>1, <1>2, <1>7, <2>1, <2>3, <2>4 DEF ExactOf
<1>10. CASE UpdateMetric(r)
  <2>1. /\ pc[r] = "apply" /\ req[r].kind = "single" /\ idx[r] = 0 /\ taken' = taken
        /\ slot' = slot /\ obj' = obj
    BY <1>0, <1>10 DEF UpdateMetric, Counts, poolVars, objectVars
  <2>2. CASE /\ slot[obj[r]][1].id # NoId /\ NumberOf(slot[obj[r]][1].id, slot[obj[r]][1]) # Nil
             /\ StoreItem(r, 1) /\ pc' = [pc EXCEPT ![r] = "reload"]
    <3> DEFINE s == slot[obj[r]][1]
               given == [id |-> s.id, num |-> NumberOf(s.id, s)]
    <3>1. s \in Slot /\ Items(r)[1] \in Item /\ Len(Items(r)) = 1
      <4>1. Len(Items(r)) = 1
        BY <1>i, <2>1
      <4>2. Items(r)[1] \in Item
        BY <1>i, <4>1
      <4>3. QED  BY <1>0, <1>i, <4>1, <4>2
    <3>2. Fills(s, Items(r)[1]) /\ Clear(s, Items(r)[1])
      BY <1>2, <2>1, <3>1 DEF Filled
    <3>3. AsSent(given, Items(r)[1], req[r].kind, SentAt(obj[r], 1))
      BY <2>1, <2>2, <3>1, <3>2, StoredAsSent DEF Pools
    <3>4. got' = [got EXCEPT ![r] = Append(@, given)]
      BY <2>2 DEF StoreItem
    <3> HIDE DEF given
    <3>5. Taken(r)'
      <4>1. idx[r] + 1 = 1 /\ idx[r] < Len(Items(r))
        BY <2>1, <3>1
      <4>2. AsSent(given, Items(r)[idx[r] + 1], req[r].kind, SentAt(obj[r], idx[r] + 1))
        BY <3>3, <4>1
      <4>3. QED  BY <1>2, <2>1, <3>4, <4>1, <4>2, TakenMore
    <3>6. pc'[r] = "reload"
      BY <1>0, <2>2
    <3>7. QED  BY <1>1, <1>2, <1>7, <2>1, <3>5, <3>6 DEF ExactOf
  <2>3. CASE UNCHANGED storageVars /\ pc' = [pc EXCEPT ![r] = "put"]
    BY <1>0, <1>3, <1>4, <2>3 DEF storageVars
  <2>4. QED  BY <1>10, <2>2, <2>3 DEF UpdateMetric
<1>11. CASE UpdateBatchItem(r)
  <2> DEFINE n == idx[r] + 1
             s == slot[obj[r]][n]
  <2>1. /\ pc[r] = "apply" /\ req[r].kind = "batch" /\ idx[r] < taken[r] /\ taken' = taken
        /\ taken[r] = Len(Items(r)) /\ n \in 1 .. Len(Items(r)) /\ slot' = slot /\ obj' = obj
    BY <1>0, <1>2, <1>11, <1>i DEF UpdateBatchItem, poolVars, objectVars
  <2>2. s \in Slot /\ Items(r)[n] \in Item /\ n \in 1 .. MaxItems
    <3>1. Items(r)[n] \in Item /\ n \in 1 .. MaxItems
      BY <1>i, <2>1
    <3>2. slot[obj[r]] \in [1 .. MaxItems -> Slot]
      BY <1>0
    <3>3. QED  BY <3>1, <3>2
  <2>3. Fills(s, Items(r)[n])
    BY <1>2, <2>1 DEF Filled
  <2>4. Stems(s, SentAt(obj[r], n))
    <3>1. req[obj[r]].kind = "batch"
      BY <1>1, <2>1 DEF Kinds, Holding
    <3>2. QED  BY <1>0, <2>2, <3>1 DEF Fed, Stemmed
  <2>5. ASSUME NEW given, AsSent(given, Items(r)[n], "batch", SentAt(obj[r], n)),
               got' = [got EXCEPT ![r] = Append(@, given)], pc'[r] \in {"apply", "reload"}
        PROVE  ExactOf(r)'
    <3>1. Taken(r)'
      BY <1>2, <2>1, <2>5, TakenMore
    <3>2. QED  BY <1>1, <1>2, <1>7, <2>1, <2>5, <3>1 DEF ExactOf
  <2>6. CASE StoreItem(r, n) /\ pc' = [pc EXCEPT ![r] = "reload"]
    <3>1. PICK given : given = [id |-> s.id, num |-> NumberOf(s.id, s)]
      OBVIOUS
    <3>2. AsSent([id |-> s.id, num |-> NumberOf(s.id, s)], Items(r)[n], "batch", SentAt(obj[r], n))
      BY <2>2, <2>3, <2>4, StoredAsSent DEF Pools
    <3>3. got' = [got EXCEPT ![r] = Append(@, given)]
      BY <2>6, <3>1 DEF StoreItem
    <3>4. pc'[r] = "reload"
      BY <1>0, <2>6
    <3>5. AsSent(given, Items(r)[n], "batch", SentAt(obj[r], n))
      BY <3>1, <3>2
    <3>6. QED  BY <2>5, <3>3, <3>4, <3>5
  <2>7. CASE /\ s.id = NoId /\ UNCHANGED pc
             /\ got' = [got EXCEPT ![r] = Append(@, [id |-> NoId, num |-> Nil])]
    <3>1. AsSent([id |-> NoId, num |-> Nil], Items(r)[n], "batch", SentAt(obj[r], n))
      BY <2>2, <2>3, <2>7, NothingStored
    <3>2. QED  BY <2>1, <2>5, <2>7, <3>1
  <2>8. CASE UNCHANGED storageVars /\ pc' = [pc EXCEPT ![r] = "put"]
    BY <1>0, <1>3, <1>4, <2>8 DEF storageVars
  <2>9. QED  BY <1>11, <2>6, <2>7, <2>8 DEF UpdateBatchItem
<1>12. CASE UrlUpdate(r)
  <2> DEFINE item == Items(r)[1]
             given == [id |-> item.id, num |-> NumberOf(item.id, item)]
  <2>1. /\ pc[r] = "new" /\ pc'[r] = "done" /\ req[r].kind = "url"
        /\ got' = [got EXCEPT ![r] = <<given>>]
    BY <1>0, <1>12 DEF UrlUpdate, UrlUpdateIn
  <2>2. got'[r] = <<given>> /\ Len(Items(r)) = 1
    BY <1>0, <1>i, <2>1
  <2>3. item.id # Missing /\ NumberOf(item.id, item) # Missing
    BY <1>0, <2>1, InputType, Data, PoolAssumption DEF PoolAssumption
  <2>4. ASSUME NEW sent
        PROVE  AsSent(given, item, "url", sent)
    BY <2>3 DEF AsSent
  <2>5. Taken(r)'
    <3>1. DOMAIN got'[r] = {1} /\ got'[r][1] = given /\ Len(got'[r]) = 1
      BY <2>2
    <3> HIDE DEF given
    <3>2. ASSUME NEW k \in DOMAIN got'[r]
          PROVE  AsSent(got'[r][k], Items(r)[k], req[r].kind, SentAt(obj[r], k)')
      BY <2>1, <2>4, <3>1
    <3>3. Len(got'[r]) <= Len(Items(r))
      BY <2>2, <3>1
    <3>4. QED  BY <1>1, <3>2, <3>3 DEF Taken
  <2>6. QED  BY <1>4, <2>1, <2>5
<1>13. CASE Reload(r)
  <2>1. /\ pc[r] = "reload" /\ pc'[r] \in {"apply", "reply"} /\ got' = got /\ slot' = slot
        /\ obj' = obj /\ taken' = taken
        /\ pc'[r] = "apply" => req[r].kind # "single"
    BY <1>0, <1>13 DEF Reload, poolVars, objectVars
  <2>2. Taken(r)'
    BY <1>3, <2>1
  <2>3. QED  BY <1>1, <1>2, <1>7, <2>1, <2>2 DEF ExactOf
<1>14. CASE UpdatedBatch(r)
  <2>1. /\ pc[r] = "apply" /\ pc'[r] \in {"put", "reply"} /\ got' = got /\ slot' = slot
        /\ obj' = obj
    BY <1>0, <1>14 DEF UpdatedBatch, poolVars, objectVars, storageVars
  <2>2. Taken(r)'
    BY <1>3, <2>1
  <2>3. QED  BY <1>1, <1>2, <1>7, <2>1, <2>2 DEF ExactOf
<1>15. CASE Refuse(r) \/ Reply(r) \/ Put(r)
  BY <1>0, <1>3, <1>4, <1>15 DEF Refuse, Reply, Put, storageVars
<1>16. QED
  BY <1>5, <1>6, <1>8, <1>9, <1>10, <1>11, <1>12, <1>13, <1>14, <1>15 DEF Handle

LEMMA FedInvariant == Spec => []Fed
<1>1. Shape /\ Fed /\ Next => Fed'
  <2>1. ASSUME Shape, Fed, NEW q \in Reqs, Handle(q)
        PROVE  Fed'
    <3>1. \A r \in Reqs : ExactOf(r)'
      BY <2>1, ExactByOthers, ExactByItself
    <3>2. QED  BY <2>1, <3>1, StepHolders, StepCleared, StepStemmed DEF Fed, Exact
  <2>2. QED  BY <2>1 DEF Next
<1>2. ASSUME Fed, UNCHANGED vars
      PROVE  Fed'
  <2>1. /\ UNCHANGED <<req, pc, obj, idx, len, slot, taken, queue, got, shared>>
        /\ Fed
    BY <1>2 DEF vars, poolVars, objectVars, storageVars
  <2>2. Kinds' /\ Alone' /\ Cleared'
    BY <2>1 DEF Fed, Kinds, Alone, Cleared, Holders, Holding
  <2>3. Stemmed'
    BY <2>1 DEF Fed, Stemmed, SentAt, Users, Items
  <2>4. Exact'
    <3>1. \A o, k : SentAt(o, k)' = SentAt(o, k)
      BY <2>1 DEF SentAt, Users, Items
    <3>2. \A r : Taken(r) => Taken(r)'
      BY <2>1, <3>1 DEF Taken, Items
    <3>3. QED  BY <2>1, <3>2 DEF Fed, Exact, ExactOf, Filled, Items
  <2>5. QED  BY <2>2, <2>3, <2>4 DEF Fed
<1>3. QED  BY InitFed, ShapeInvariant, <1>1, <1>2, PTL DEF Spec

(* A request that never held its object together with another one gives the   *)
(* storage what its client sent: whatever is not the client's own in a batch  *)
(* was sent at this place by a request with this object, and in a single      *)
(* update nothing is.                                                         *)
THEOREM TakenAsSentInvariant == Spec => []TakenAsSent
<1>1. Fed => TakenAsSent
  <2>1. ASSUME Fed, NEW r \in Reqs \ shared
        PROVE  Taken(r)
    BY <2>1 DEF Fed, Exact, ExactOf
  <2>2. QED  BY <2>1 DEF TakenAsSent, Taken, AsSent
<1>2. QED  BY FedInvariant, <1>1, PTL

(* A single update without its number adds nothing, and sets no gauge to what *)
(* an earlier request has sent: Reset has cleared the object it is given.     *)
THEOREM SingleMissingAddsNothingInvariant == Spec => []SingleMissingAddsNothing
<1>1. Shape /\ Fed => SingleMissingAddsNothing
  <2>1. ASSUME Shape, Fed, NEW r \in Reqs \ shared, req[r].kind = "single", got[r] # <<>>,
               NumberOf(got[r][1].id, Items(r)[1]) = Missing
        PROVE  got[r][1].num = 0
    <3>1. got[r] \in Seq(Given)
      BY <2>1 DEF Shape, TypeOK, Given
    <3>2. 1 \in DOMAIN got[r]
      BY <2>1, <3>1
    <3>3. AsSent(got[r][1], Items(r)[1], "single", SentAt(obj[r], 1))
      BY <2>1, <3>2 DEF Fed, Exact, ExactOf, Taken
    <3>4. QED  BY <2>1, <3>3 DEF AsSent
  <2>2. QED  BY <2>1 DEF SingleMissingAddsNothing
<1>2. QED  BY ShapeInvariant, FedInvariant, <1>1, PTL
=============================================================================
