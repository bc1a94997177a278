-------------------------- MODULE PooledGaugesProofs --------------------------
(***************************************************************************)
(* What the pooled handlers promise of gauges, for any requests, names,    *)
(* numbers and sizes: who writes to a place in memory decides what a gauge *)
(* that points there reads, and what a client is told of it.               *)
(***************************************************************************)
EXTENDS PooledUpdateProofs

-------------------------------------------------------------------------------
(* Setting a gauge.                                                           *)

(* A gauge is set by a request of a URL, or by a handler that passes the item *)
(* it has come to; the memory is as it was.                                   *)
LEMMA Setting ==
  ASSUME Shape, NEW q \in Reqs, Handle(q), NEW g \in Gauges,
         setBy'[g] # setBy[g] \/ cell'[g] # cell[g]
  PROVE  /\ passed' = passed \union PassedBy(q, g)
         /\ \/ /\ UrlUpdate(q) /\ Items(q)[1].id = g
               /\ cell'[g] = <<q, 1>> /\ setBy'[g] = <<q, 1>>
            \/ /\ pc[q] = "apply" /\ req[q].kind \in Pools /\ UNCHANGED <<slot, obj, shared, user>>
               /\ pc'[q] = "reload"
               /\ req[q].kind = "batch" => idx'[q] = idx[q] + 1 /\ idx[q] < taken[q]
               /\ idx'[q] \in 1 .. MaxItems
               /\ slot[obj[q]][idx'[q]].id = g
               /\ setBy'[g] = <<q, idx'[q]>>
               /\ cell'[g] = IF slot[obj[q]][idx'[q]].value = Nil THEN NoCell
                             ELSE <<obj[q], idx'[q]>>
<1>0. /\ pc \in [Reqs -> {"new", "done"} \union Holding]
      /\ idx \in [Reqs -> 0 .. MaxItems] /\ idx[q] \in 0 .. MaxItems
      /\ taken[q] \in 0 .. MaxItems
      /\ cell \in [Gauges -> Cells \union {NoCell}] /\ setBy \in [Gauges -> Cells \union {NoCell}]
      /\ 1 \in 1 .. MaxItems /\ MaxItems \in Nat
  BY InputType DEF Shape, TypeOK
<1>1. ASSUME NEW k, StoreItem(q, k)
      PROVE  /\ slot[obj[q]][k].id = g
             /\ setBy'[g] = <<q, k>> /\ passed' = passed \union PassedBy(q, g)
             /\ cell'[g] = IF slot[obj[q]][k].value = Nil THEN NoCell ELSE <<obj[q], k>>
  <2>1. CASE slot[obj[q]][k].id = g
    BY <1>0, <1>1, <2>1 DEF StoreItem
  <2>2. CASE slot[obj[q]][k].id # g
    BY <1>0, <1>1, <2>2 DEF StoreItem
  <2>3. QED  BY <2>1, <2>2
<1>2. CASE UrlUpdate(q)
  <2>1. CASE Items(q)[1].id = g
    BY <1>0, <1>2, <2>1 DEF UrlUpdate, UrlUpdateIn
  <2>2. CASE Items(q)[1].id # g
    BY <1>0, <1>2, <2>2 DEF UrlUpdate, UrlUpdateIn
  <2>3. QED  BY <1>2, <2>1, <2>2
<1>3. CASE UpdateMetric(q)
  <2>1. StoreItem(q, 1) /\ idx'[q] = 1 /\ pc'[q] = "reload"
    BY <1>0, <1>3 DEF UpdateMetric, storageVars
  <2>2. pc[q] = "apply" /\ req[q].kind = "single" /\ UNCHANGED <<slot, obj, shared, user>>
    BY <1>3 DEF UpdateMetric, poolVars, objectVars
  <2>3. QED  BY <1>0, <1>1, <2>1, <2>2 DEF Pools
<1>4. CASE UpdateBatchItem(q)
  <2>1. StoreItem(q, idx[q] + 1) /\ idx'[q] = idx[q] + 1 /\ pc'[q] = "reload"
    BY <1>0, <1>4 DEF UpdateBatchItem, storageVars
  <2>2. /\ pc[q] = "apply" /\ req[q].kind = "batch" /\ UNCHANGED <<slot, obj, shared, user>>
        /\ idx[q] < taken[q]
    BY <1>4 DEF UpdateBatchItem, poolVars, objectVars
  <2>3. idx[q] + 1 \in 1 .. MaxItems
    BY <1>0, <2>2
  <2>4. QED  BY <1>1, <2>1, <2>2, <2>3 DEF Pools
<1>5. CASE Get(q) \/ Decode(q) \/ Decoded(q) \/ Refuse(q) \/ Call(q) \/ UpdatedBatch(q)
           \/ Reply(q) \/ Put(q) \/ Reload(q)
  BY <1>5 DEF Get, Hold, Decode, Decoded, Refuse, Call, UpdatedBatch, Reply, Put, Reload, storageVars
<1>6. QED
  BY <1>2, <1>3, <1>4, <1>5 DEF Handle

-------------------------------------------------------------------------------
(* What the client is told.                                                   *)

(* The client of r has named the gauge of the item k and its number, and it   *)
(* has not been set anew before it was read.                                  *)
Asked(r, k) ==
  got[r][k].id \in Gauges /\ Items(r)[k].value # Missing /\ <<r, k>> \notin passed

(* A gauge that a request has set points to its object until it is read again;*)
(* what the request has read, and told, is in its object.                     *)
ToldOf(r) ==
  r \notin shared =>
    /\ pc[r] = "reload" /\ Asked(r, Len(got[r])) =>
         cell[got[r][Len(got[r])].id] = <<obj[r], Len(got[r])>>
    /\ pc[r] \in {"apply", "reload", "reply"} =>
         \A k \in DOMAIN back[r] : Asked(r, k) => back[r][k] = <<obj[r], k>>
    /\ pc[r] \notin {"put", "done"} => reply[r] = <<>>
    /\ \A k \in DOMAIN reply[r] : Asked(r, k) => reply[r][k] = Items(r)[k].value

Told == \A r \in Reqs : ToldOf(r)

LEMMA ToldByOthers ==
  ASSUME Shape, Fed, NEW q \in Reqs, Handle(q), NEW r \in Reqs \ {q}, ToldOf(r)
  PROVE  ToldOf(r)'
<1> SUFFICES ASSUME r \notin shared'
             PROVE  ToldOf(r)'
  BY DEF ToldOf
<1>1. /\ UNCHANGED req /\ r \notin shared /\ pc'[r] = pc[r] /\ got'[r] = got[r]
      /\ obj'[r] = obj[r] /\ reply'[r] = reply[r] /\ back'[r] = back[r] /\ Items(r)' = Items(r)
      /\ passed \subseteq passed'
  BY OthersLeft DEF Items, Shape
<1>2. \A k : Asked(r, k)' => Asked(r, k)
  BY <1>1 DEF Asked
<1>3. ASSUME pc[r] = "reload", Asked(r, Len(got[r]))'
      PROVE  cell'[got[r][Len(got[r])].id] = cell[got[r][Len(got[r])].id]
  <2> DEFINE g == got[r][Len(got[r])].id
  <2>1. g \in Gauges /\ <<r, Len(got[r])>> \notin passed'
    BY <1>1, <1>3 DEF Asked
  <2>2. <<r, Len(got[r])>> \in PassedBy(q, g)
    BY <1>3 DEF PassedBy
  <2> HIDE DEF g
  <2>3. ASSUME NEW h \in Gauges, h = g, cell'[h] # cell[h]
        PROVE  FALSE
    <3>1. passed' = passed \union PassedBy(q, h)
      BY <2>3, Setting
    <3>2. QED  BY <2>1, <2>2, <2>3, <3>1
  <2>4. cell'[g] = cell[g]
    BY <2>1, <2>3
  <2>5. QED  BY <2>4 DEF g
<1>4. QED
  BY <1>1, <1>2, <1>3 DEF ToldOf

(* A request that stores a gauge finds in the map what it has stored.         *)
LEMMA ToldStored ==
  ASSUME Shape, NEW r \in Reqs, ToldOf(r), r \notin shared, req' = req, obj' = obj,
         reply' = reply, pc[r] = "apply", pc'[r] = "reload",
         NEW k, k = idx[r] + 1, k \in 1 .. Len(Items(r)), Filled(r, k), StoreItem(r, k),
         passed \subseteq passed'
  PROVE  ToldOf(r)'
<1> DEFINE s == slot[obj[r]][k]
<1>0. /\ got \in [Reqs -> Seq(Given)] /\ got[r] \in Seq(Given)
      /\ back[r] \in Seq(Cells \union {NoCell}) /\ cell \in [Gauges -> Cells \union {NoCell}]
      /\ idx[r] = Len(got[r]) /\ idx[r] = Len(back[r]) /\ Items(r)[k] \in Item
      /\ Items(r)' = Items(r)
  <2>1. /\ got \in [Reqs -> Seq(Given)] /\ back[r] \in Seq(Cells \union {NoCell})
        /\ cell \in [Gauges -> Cells \union {NoCell}]
    BY DEF Shape, TypeOK, Given
  <2>2. Counts(req[r].kind, pc[r], idx[r], got[r], back[r])
    BY DEF Shape, Counted
  <2>3. idx[r] = Len(got[r]) /\ idx[r] = Len(back[r])
    BY <2>2 DEF Counts
  <2>4. Items(r)[k] \in Item
    BY InputType DEF Shape, TypeOK
  <2>5. QED  BY <2>1, <2>3, <2>4 DEF Items
<1>1. /\ got'[r] = Append(got[r], [id |-> s.id, num |-> NumberOf(s.id, s)])
      /\ back' = back
      /\ s.id \in Gauges => cell'[s.id] = IF s.value = Nil THEN NoCell ELSE <<obj[r], k>>
  BY <1>0 DEF StoreItem
<1>2. /\ Len(got'[r]) = k /\ got'[r][k].id = s.id /\ k \in Nat
      /\ \A j \in 1 .. idx[r] : got'[r][j] = got[r][j]
      /\ DOMAIN back[r] = 1 .. idx[r]
  <2>0. PICK given : given = [id |-> s.id, num |-> NumberOf(s.id, s)]
    OBVIOUS
  <2>1. got'[r] = Append(got[r], given) /\ given.id = s.id
    BY <1>1, <2>0
  <2>a. got[r] \in Seq(Given) /\ Len(got[r]) \in Nat /\ k = Len(got[r]) + 1
    BY <1>0
  <2>b. /\ Len(got'[r]) = k /\ got'[r][k] = given
        /\ \A j \in 1 .. Len(got[r]) : got'[r][j] = got[r][j]
    BY <2>1, <2>a
  <2>2. got'[r][k].id = s.id
    BY <2>1, <2>b
  <2>3. Len(got'[r]) = k /\ \A j \in 1 .. idx[r] : got'[r][j] = got[r][j]
    BY <1>0, <2>b
  <2>4. DOMAIN back[r] = 1 .. idx[r] /\ k \in Nat
    BY <1>0
  <2>5. QED  BY <2>2, <2>3, <2>4
<1>3. Asked(r, k)' => cell'[got'[r][k].id] = <<obj[r], k>>
  <2> SUFFICES ASSUME Asked(r, k)'
               PROVE  cell'[got'[r][k].id] = <<obj[r], k>>
    OBVIOUS
  <2>1. s.id \in Gauges /\ Items(r)[k].value # Missing
    BY <1>0, <1>2 DEF Asked
  <2>2. s.value = Items(r)[k].value /\ Items(r)[k].value \in Nums
    BY <1>0, <2>1 DEF Filled, Fills, Item
  <2>3. s.value # Nil
    BY <2>2, Data
  <2>4. QED  BY <1>1, <1>2, <2>1, <2>3
<1>4. ASSUME NEW j \in DOMAIN back'[r], Asked(r, j)'
      PROVE  back'[r][j] = <<obj[r], j>>
  <2>1. j \in 1 .. idx[r]
    BY <1>1, <1>2, <1>4
  <2>2. Asked(r, j)
    BY <1>0, <1>2, <1>4, <2>1 DEF Asked
  <2>3. QED  BY <1>1, <1>2, <2>1, <2>2 DEF ToldOf
<1>5. reply'[r] = <<>>
  BY DEF ToldOf
<1>6. QED
  <2>1. Asked(r, Len(got[r]))' => cell'[got'[r][Len(got'[r])].id] = <<obj'[r], Len(got'[r])>>
    BY <1>2, <1>3
  <2>2. QED  BY <1>4, <1>5, <2>1 DEF ToldOf

LEMMA ToldByItself ==
  ASSUME Shape, Fed, NEW r \in Reqs, Handle(r), ToldOf(r)
  PROVE  ToldOf(r)'
<1>0. /\ pc \in [Reqs -> {"new", "done"} \union Holding]
      /\ reply \in [Reqs -> Seq(Number \union {Nil})]
      /\ got \in [Reqs -> Seq(Given)] /\ got[r] \in Seq(Given)
      /\ back \in [Reqs -> Seq(Cells \union {NoCell})] /\ back[r] \in Seq(Cells \union {NoCell})
      /\ slot \in [Reqs -> [1 .. MaxItems -> Slot]] /\ obj[r] \in Reqs
      /\ idx[r] \in Nat /\ Len(Items(r)) \in Nat
      /\ ExactOf(r) /\ Counts(req[r].kind, pc[r], idx[r], got[r], back[r])
  <2>1. idx[r] \in 0 .. MaxItems /\ MaxItems \in Nat
    BY PoolAssumption DEF Shape, TypeOK, PoolAssumption
  <2>2. idx[r] \in Nat
    BY <2>1
  <2>3. Len(Items(r)) \in Nat
    BY InputType DEF Shape, TypeOK
  <2>4. /\ got \in [Reqs -> Seq(Given)] /\ back \in [Reqs -> Seq(Cells \union {NoCell})]
        /\ Counts(req[r].kind, pc[r], idx[r], got[r], back[r])
    BY DEF Shape, TypeOK, Given, Counted
  <2>5. QED  BY <2>2, <2>3, <2>4 DEF Shape, TypeOK, Slot, Fed, Exact
<1>1. /\ req' = req /\ Items(r)' = Items(r) /\ (r \notin shared' => r \notin shared)
      /\ passed \subseteq passed'
  BY OthersLeft DEF Items, Shape
<1> SUFFICES ASSUME r \notin shared, r \notin shared'
             PROVE  ToldOf(r)'
  BY <1>1 DEF ToldOf
<1>2. /\ pc[r] = "reload" /\ Asked(r, Len(got[r])) =>
           cell[got[r][Len(got[r])].id] = <<obj[r], Len(got[r])>>
      /\ pc[r] \in {"apply", "reload", "reply"} =>
           \A k \in DOMAIN back[r] : Asked(r, k) => back[r][k] = <<obj[r], k>>
      /\ pc[r] \notin {"put", "done"} => reply[r] = <<>>
      /\ \A k \in DOMAIN reply[r] : Asked(r, k) => reply[r][k] = Items(r)[k].value
  BY DEF ToldOf
<1>3. CASE Reply(r)
  <2>1. /\ pc[r] = "reply" /\ pc'[r] = "put" /\ reply'[r] = Answer(r) /\ got' = got
        /\ passed' = passed
    BY <1>0, <1>3 DEF Reply, storageVars
  <2>2. /\ Len(got[r]) <= Len(Items(r)) /\ Len(back[r]) = Len(got[r])
        /\ \A k \in 1 .. Len(Items(r)) : Filled(r, k)
    BY <1>0, <2>1 DEF ExactOf, Taken, Counts
  <2>3. ASSUME NEW k \in DOMAIN reply'[r], Asked(r, k)'
        PROVE  reply'[r][k] = Items(r)[k].value
    <3>1. k \in DOMAIN back[r] /\ Asked(r, k)
      BY <1>1, <2>1, <2>3 DEF Answer, Asked
    <3>2. back[r][k] = <<obj[r], k>>
      BY <1>2, <2>1, <3>1
    <3>3. k \in 1 .. Len(Items(r))
      BY <1>0, <2>2, <3>1
    <3>4. back[r][k] # NoCell
      BY <3>2 DEF NoCell
    <3>5. reply'[r][k] = slot[obj[r]][k].value
      <4>1. Answer(r)[k] = slot[back[r][k][1]][back[r][k][2]].value
        BY <3>1, <3>4 DEF Answer
      <4>2. back[r][k][1] = obj[r] /\ back[r][k][2] = k
        BY <3>2
      <4>3. QED  BY <2>1, <4>1, <4>2
    <3>6. QED  BY <2>2, <3>1, <3>3, <3>5 DEF Filled, Fills, Asked
  <2>4. QED  BY <1>1, <2>1, <2>3 DEF ToldOf
<1>4. CASE UpdateMetric(r)
  <2>1. /\ pc[r] = "apply" /\ reply' = reply /\ obj' = obj /\ idx[r] = 0
        /\ req[r].kind = "single"
    BY <1>0, <1>4 DEF UpdateMetric, poolVars, Counts
  <2>2. CASE StoreItem(r, 1) /\ pc' = [pc EXCEPT ![r] = "reload"]
    <3>1. 1 \in 1 .. Len(Items(r)) /\ 1 = idx[r] + 1
      BY <2>1, InputType DEF Shape, TypeOK
    <3>2. Filled(r, 1)
      BY <1>0, <2>1, <3>1 DEF ExactOf
    <3>3. pc'[r] = "reload"
      BY <1>0, <2>2
    <3>4. QED  BY <1>1, <2>1, <2>2, <3>1, <3>2, <3>3, ToldStored
  <2>3. CASE UNCHANGED storageVars /\ pc' = [pc EXCEPT ![r] = "put"]
    <3>1. got' = got /\ passed' = passed /\ pc'[r] = "put"
      BY <1>0, <2>3 DEF storageVars
    <3>2. QED  BY <1>1, <1>2, <2>1, <3>1 DEF ToldOf, Asked
  <2>4. QED  BY <1>4, <2>2, <2>3 DEF UpdateMetric
<1>5. CASE UpdateBatchItem(r)
  <2> DEFINE n == idx[r] + 1
  <2>1. /\ pc[r] = "apply" /\ reply' = reply /\ obj' = obj /\ idx[r] < Len(Items(r))
        /\ n \in 1 .. Len(Items(r)) /\ Len(back[r]) = idx[r] /\ Len(got[r]) = idx[r]
    BY <1>0, <1>5 DEF UpdateBatchItem, poolVars, ExactOf, Counts
  <2>2. CASE StoreItem(r, n) /\ pc' = [pc EXCEPT ![r] = "reload"]
    <3>1. Filled(r, n)
      BY <1>0, <2>1 DEF ExactOf
    <3>2. pc'[r] = "reload"
      BY <1>0, <2>2
    <3>3. QED  BY <1>1, <2>1, <2>2, <3>1, <3>2, ToldStored
  <2>3. CASE /\ UNCHANGED <<pc, passed>>
             /\ got' = [got EXCEPT ![r] = Append(@, [id |-> NoId, num |-> Nil])]
             /\ back' = [back EXCEPT ![r] = Append(@, NoCell)]
    <3>1. /\ got'[r] = Append(got[r], [id |-> NoId, num |-> Nil])
          /\ back'[r] = Append(back[r], NoCell)
      BY <1>0, <2>3
    <3>2. /\ \A j \in 1 .. idx[r] : got'[r][j] = got[r][j] /\ back'[r][j] = back[r][j]
          /\ DOMAIN back'[r] = 1 .. n /\ DOMAIN back[r] = 1 .. idx[r]
          /\ got'[r][n] = [id |-> NoId, num |-> Nil]
      BY <1>0, <2>1, <3>1
    <3>3. ASSUME NEW j, j = n
          PROVE  ~Asked(r, j)'
      <4>1. got'[r][j].id = NoId
        BY <3>2, <3>3
      <4>2. QED  BY <4>1, Data DEF Asked
    <3>4. ASSUME NEW j \in DOMAIN back'[r], Asked(r, j)'
          PROVE  back'[r][j] = <<obj[r], j>>
      <4>1. j \in 1 .. idx[r]
        <5>1. j # n
          BY <3>3, <3>4
        <5>2. QED  BY <1>0, <3>2, <5>1
      <4>2. Asked(r, j)
        BY <1>1, <2>3, <3>2, <3>4, <4>1 DEF Asked
      <4>3. QED  BY <1>2, <2>1, <3>2, <4>1, <4>2
    <3>5. reply'[r] = <<>> /\ pc'[r] = "apply" /\ obj'[r] = obj[r]
      BY <1>2, <2>1, <2>3
    <3>6. QED  BY <3>4, <3>5 DEF ToldOf
  <2>4. CASE UNCHANGED storageVars /\ pc' = [pc EXCEPT ![r] = "put"]
    <3>1. got' = got /\ passed' = passed /\ pc'[r] = "put"
      BY <1>0, <2>4 DEF storageVars
    <3>2. QED  BY <1>1, <1>2, <2>1, <3>1 DEF ToldOf, Asked
  <2>5. QED  BY <1>5, <2>2, <2>3, <2>4 DEF UpdateBatchItem
<1>6. CASE Reload(r)
  <2> DEFINE n == Len(got[r])
  <2>1. /\ pc[r] = "reload" /\ pc'[r] \in {"apply", "reply"} /\ reply' = reply /\ obj' = obj
        /\ got' = got /\ passed' = passed
        /\ back'[r] = Append(back[r], IF got[r][n].id \in Gauges THEN cell[got[r][n].id] ELSE NoCell)
    BY <1>0, <1>6 DEF Reload, poolVars, answerVars
  <2>2. /\ Len(back[r]) + 1 = n /\ Len(back[r]) \in Nat /\ DOMAIN back'[r] = 1 .. n
        /\ \A j \in 1 .. Len(back[r]) : back'[r][j] = back[r][j] /\ j \in DOMAIN back[r]
        /\ back'[r][n] = IF got[r][n].id \in Gauges THEN cell[got[r][n].id] ELSE NoCell
    <3>1. Len(back[r]) + 1 = n
      BY <1>0, <2>1 DEF Counts
    <3>2. QED  BY <1>0, <2>1, <3>1
  <2>3. \A j : Asked(r, j)' <=> Asked(r, j)
    BY <1>1, <2>1 DEF Asked
  <2>4. ASSUME NEW j \in DOMAIN back'[r], Asked(r, j)
        PROVE  back'[r][j] = <<obj[r], j>>
    <3>1. CASE j = n
      BY <1>2, <2>1, <2>2, <2>4, <3>1 DEF Asked
    <3>2. CASE j # n
      <4>1. j \in 1 .. Len(back[r])
        BY <2>2, <2>4, <3>2
      <4>2. QED  BY <1>2, <2>1, <2>2, <2>4, <4>1
    <3>3. QED  BY <3>1, <3>2
  <2>5. reply'[r] = <<>> /\ pc'[r] # "reload" /\ obj'[r] = obj[r]
    BY <1>2, <2>1
  <2>6. /\ \A k \in DOMAIN back'[r] : Asked(r, k)' => back'[r][k] = <<obj[r], k>>
        /\ \A k \in DOMAIN reply'[r] : Asked(r, k)' => reply'[r][k] = Items(r)'[k].value
    BY <2>3, <2>4, <2>5
  <2>7. QED  BY <2>5, <2>6 DEF ToldOf
<1>7. CASE UpdatedBatch(r)
  <2>1. /\ pc[r] = "apply" /\ pc'[r] \in {"put", "reply"} /\ reply' = reply /\ obj' = obj
        /\ got' = got /\ back' = back /\ passed' = passed
    BY <1>0, <1>7 DEF UpdatedBatch, poolVars, storageVars
  <2>2. QED  BY <1>1, <1>2, <2>1 DEF ToldOf, Asked
<1>8. CASE Get(r) \/ Decode(r) \/ Decoded(r) \/ Call(r)
  <2>1. /\ pc[r] \in {"new", "decode", "call"} /\ pc'[r] \in {"decode", "call", "apply"}
        /\ reply' = reply /\ got' = got /\ back' = back /\ passed' = passed
    <3>1. CASE Get(r)
      <4>1. \E o : Hold(r, o)
        BY <3>1 DEF Get
      <4>2. QED  BY <1>0, <3>1, <4>1 DEF Get, Hold, storageVars, answerVars
    <3>2. CASE Decode(r) \/ Decoded(r) \/ Call(r)
      BY <1>0, <3>2 DEF Decode, Decoded, Call, storageVars, answerVars
    <3>3. QED  BY <1>8, <3>1, <3>2
  <2>2. back[r] = <<>> /\ reply[r] = <<>>
    BY <1>0, <1>2, <2>1 DEF Counts
  <2>3. QED  BY <2>1, <2>2 DEF ToldOf
<1>9. CASE UrlUpdate(r)
  <2>1. pc[r] = "new" /\ pc'[r] = "done" /\ reply' = reply
    BY <1>0, <1>9 DEF UrlUpdate, UrlUpdateIn
  <2>2. QED  BY <1>2, <2>1 DEF ToldOf
<1>10. CASE Refuse(r) \/ Put(r)
  <2>1. pc'[r] \in {"put", "done"} /\ reply' = reply /\ got' = got /\ passed' = passed
    BY <1>0, <1>10 DEF Refuse, Put, storageVars, answerVars
  <2>2. QED  BY <1>1, <1>2, <2>1 DEF ToldOf, Asked
<1>11. QED
  BY <1>3, <1>4, <1>5, <1>6, <1>7, <1>8, <1>9, <1>10 DEF Handle

(* A request that is alone with its object is told of a gauge the number it   *)
(* sent, unless the gauge has been set anew before the map was read again: its*)
(* object is put back after the answer is made, and not before.               *)
THEOREM AnsweredAsSentInvariant == Spec => []AnsweredAsSent
<1>1. Init => Told
  BY DEF Init, Told, ToldOf
<1>2. Shape /\ Fed /\ Told /\ [Next]_vars => Told'
  <2>1. ASSUME Shape, Fed, Told, NEW q \in Reqs, Handle(q)
        PROVE  Told'
    <3>1. ASSUME NEW r \in Reqs
          PROVE  ToldOf(r)'
      BY <2>1, ToldByOthers, ToldByItself DEF Told
    <3>2. QED  BY <3>1 DEF Told
  <2>2. ASSUME Told, UNCHANGED vars
        PROVE  Told'
    <3>1. UNCHANGED <<req, pc, obj, got, cell, back, reply, passed, shared>>
      BY <2>2 DEF vars, poolVars, storageVars, answerVars
    <3>2. ASSUME NEW r \in Reqs
          PROVE  ToldOf(r)'
      <4>1. ToldOf(r)
        BY <2>2 DEF Told
      <4>2. QED  BY <3>1, <4>1 DEF ToldOf, Asked, Items
    <3>3. QED  BY <3>2 DEF Told
  <2>3. QED  BY <2>1, <2>2 DEF Next
<1>3. Told => AnsweredAsSent
  <2>1. ASSUME Told, NEW r \in Reqs \ shared, NEW k \in DOMAIN reply[r], Asked(r, k)
        PROVE  reply[r][k] = Items(r)[k].value
    BY <2>1 DEF Told, ToldOf
  <2>2. QED  BY <2>1 DEF Asked, AnsweredAsSent
<1>4. QED  BY <1>1, <1>2, <1>3, ShapeInvariant, FedInvariant, PTL DEF Spec

-------------------------------------------------------------------------------
(* Gauges that have been set.                                                 *)

LEMMA NotDone ==
  ASSUME NEW q \in Reqs, Handle(q)
  PROVE  pc[q] # "done"
BY DEF Handle, Get, Decode, Decoded, Refuse, Call, UpdateMetric, UpdateBatchItem, Reload,
       UpdatedBatch, UrlUpdate, UrlUpdateIn, Reply, Put

LEMMA SetterType ==
  ASSUME Shape, NEW g \in Gauges, IsSet(g)
  PROVE  /\ Setter(g) \in Reqs /\ setBy[g][2] \in 1 .. MaxItems
         /\ setBy[g] = <<Setter(g), setBy[g][2]>>
<1>1. setBy[g] \in Reqs \X (1 .. MaxItems)
  BY DEF IsSet, Shape, TypeOK, Cells
<1>2. QED  BY <1>1 DEF Setter

(* A gauge that the URL has set points to memory of its own: the object of a  *)
(* request that is done, and that no pool has.                                *)
UrlSetOf(g) ==
  IsSet(g) /\ req[Setter(g)].kind = "url" =>
    /\ pc[Setter(g)] = "done"
    /\ setBy[g] = <<Setter(g), 1>> /\ cell[g] = <<Setter(g), 1>>
    /\ slot[Setter(g)][1].value = Items(Setter(g))[1].value

UrlSet == \A g \in Gauges : UrlSetOf(g)

LEMMA StepUrlSet ==
  ASSUME Shape, Fed, NEW q \in Reqs, Handle(q), NEW g \in Gauges, UrlSetOf(g)
  PROVE  UrlSetOf(g)'
<1>0. UNCHANGED req /\ pc \in [Reqs -> {"new", "done"} \union Holding]
      /\ slot \in [Reqs -> [1 .. MaxItems -> Slot]] /\ 1 \in 1 .. MaxItems
      /\ obj \in [Reqs -> Reqs]
  BY OthersLeft, InputType DEF Shape, TypeOK, Slot
<1>1. CASE UrlUpdate(q) /\ Items(q)[1].id = g /\ cell'[g] = <<q, 1>> /\ setBy'[g] = <<q, 1>>
  <2>1. pc'[q] = "done" /\ slot' = [slot EXCEPT ![q][1] = Written(@, Items(q)[1])]
    BY <1>0, <1>1 DEF UrlUpdate, UrlUpdateIn
  <2>2. Items(q)[1].value # Missing /\ Items(q)[1] \in Item
    <3>1. /\ Len(Items(q)) = 1 /\ \A k \in 1 .. Len(Items(q)) : Items(q)[k] \in Item
          /\ NumberOf(Items(q)[1].id, Items(q)[1]) \in Nums
      BY <1>1, InputType DEF UrlUpdate, UrlUpdateIn, Shape, TypeOK
    <3>2. 1 \in 1 .. Len(Items(q)) /\ Items(q)[1].id \in Gauges
      BY <1>1, <3>1
    <3>3. Items(q)[1] \in Item
      BY <3>1, <3>2
    <3>4. NumberOf(Items(q)[1].id, Items(q)[1]) = Items(q)[1].value
      BY <3>2 DEF NumberOf
    <3>5. Items(q)[1].value \in Nat
      BY <3>1, <3>4, Data
    <3>6. QED  BY <3>3, <3>5, Data
  <2>3. slot'[q][1].value = Items(q)[1].value
    <3>1. slot'[q][1] = Written(slot[q][1], Items(q)[1]) /\ slot[q][1] \in Slot
      BY <1>0, <2>1
    <3>2. QED  BY <2>2, <3>1, WrittenIs
  <2>4. Setter(g)' = q
    BY <1>1 DEF Setter
  <2>5. QED  BY <1>0, <1>1, <2>1, <2>3, <2>4 DEF UrlSetOf, Items
<1>2. CASE setBy'[g] = <<q, idx'[q]>> /\ req[q].kind \in Pools
  BY <1>0, <1>2 DEF UrlSetOf, Setter, Pools
<1>3. CASE setBy'[g] = setBy[g] /\ cell'[g] = cell[g]
  <2> SUFFICES ASSUME IsSet(g), req[Setter(g)].kind = "url"
               PROVE  UrlSetOf(g)'
    BY <1>0, <1>3 DEF UrlSetOf, IsSet, Setter
  <2> DEFINE s == Setter(g)
  <2>1. /\ s \in Reqs /\ pc[s] = "done" /\ q # s
        /\ setBy[g] = <<s, 1>> /\ cell[g] = <<s, 1>>
        /\ slot[s][1].value = Items(s)[1].value
    BY SetterType, NotDone DEF UrlSetOf
  <2>2. pc'[s] = pc[s]
    BY <2>1, OthersLeft DEF Shape
  <2>3. slot'[s] = slot[s]
    <3>1. pc[q] \in Holding => obj[q] # s
      BY DEF Fed, Kinds, Pools
    <3>2. QED  BY <2>1, <3>1, Writers DEF Decode, Put, Holding
  <2>4. Setter(g)' = s /\ Items(s)' = Items(s)
    BY <1>0, <1>3 DEF Setter, Items
  <2>5. QED  BY <1>3, <2>1, <2>2, <2>3, <2>4 DEF UrlSetOf
<1>4. QED
  BY <1>1, <1>2, <1>3, Setting

(* What the URL has set stays until the gauge is set again.                   *)
THEOREM UrlGaugeKeptInvariant == Spec => []UrlGaugeKept
<1>1. Init => UrlSet
  BY DEF Init, UrlSet, UrlSetOf, IsSet
<1>2. Shape /\ Fed /\ UrlSet /\ [Next]_vars => UrlSet'
  <2>1. Shape /\ Fed /\ UrlSet /\ Next => UrlSet'
    BY StepUrlSet DEF Next, UrlSet
  <2>2. UrlSet /\ UNCHANGED vars => UrlSet'
    BY DEF vars, objectVars, storageVars, UrlSet, UrlSetOf, IsSet, Setter, Items
  <2>3. QED  BY <2>1, <2>2
<1>3. Shape /\ UrlSet => UrlGaugeKept
  <2>1. ASSUME Shape, UrlSet, NEW g \in Gauges, IsSet(g), req[Setter(g)].kind = "url"
        PROVE  Value(g) = SetTo(g).value
    <3>1. UrlSetOf(g)
      BY <2>1 DEF UrlSet
    <3>2. Value(g) = slot[Setter(g)][1].value /\ SetTo(g) = Items(Setter(g))[1]
      BY <2>1, <3>1 DEF UrlSetOf, Value, SetTo
    <3>3. QED  BY <2>1, <3>1, <3>2 DEF UrlSetOf
  <2>2. QED  BY <2>1 DEF UrlGaugeKept
<1>4. QED  BY <1>1, <1>2, <1>3, ShapeInvariant, FedInvariant, PTL DEF Spec

(* Who has got an object last: its only holder, or one that shares it.        *)
Owners ==
  /\ \A r \in Reqs : req[obj[r]].kind = req[r].kind
  /\ \A r \in Reqs : pc[r] \in Holding => user[obj[r]] = r \/ {r, user[obj[r]]} \subseteq shared

LEMMA StepOwners ==
  ASSUME Shape, Fed, Owners, NEW q \in Reqs, Handle(q)
  PROVE  Owners'
<1>0. /\ pc \in [Reqs -> {"new", "done"} \union Holding]
      /\ obj \in [Reqs -> Reqs] /\ user \in [Reqs -> Reqs] /\ UNCHANGED req
  BY OthersLeft DEF Shape, TypeOK
<1>1. CASE Get(q)
  <2>1. PICK o \in Reqs : Hold(q, o) /\ req[o].kind = req[q].kind
    BY <1>1, GotObject DEF Fed
  <2>2. /\ obj' = [obj EXCEPT ![q] = o] /\ user' = [user EXCEPT ![o] = q]
        /\ shared' = IF Holders(o) = {} THEN shared ELSE shared \union Holders(o) \union {q}
        /\ pc' = [pc EXCEPT ![q] = "decode"]
    BY <2>1 DEF Hold
  <2>3. \A r \in Reqs : req'[obj'[r]].kind = req'[r].kind
    BY <1>0, <2>1, <2>2 DEF Owners
  <2>4. ASSUME NEW r \in Reqs, pc'[r] \in Holding
        PROVE  user'[obj'[r]] = r \/ {r, user'[obj'[r]]} \subseteq shared'
    <3>1. CASE r = q
      BY <1>0, <2>2, <3>1
    <3>2. CASE r # q /\ obj[r] = o
      <4>1. r \in Holders(o)
        BY <1>0, <2>2, <2>4, <3>2 DEF Holders
      <4>2. QED  BY <1>0, <2>2, <3>2, <4>1
    <3>3. CASE r # q /\ obj[r] # o
      <4>1. /\ pc[r] \in Holding /\ obj'[r] = obj[r] /\ user'[obj[r]] = user[obj[r]]
            /\ shared \subseteq shared'
        BY <1>0, <2>2, <2>4, <3>3
      <4>2. QED  BY <4>1 DEF Owners
    <3>4. QED  BY <3>1, <3>2, <3>3
  <2>5. QED  BY <2>3, <2>4 DEF Owners
<1>2. CASE ~Get(q)
  <2>1. UNCHANGED <<obj, user, shared>> /\ \A r \in Reqs : pc'[r] \in Holding => pc[r] \in Holding
    BY <1>2, ObjectsLeft, OthersLeft DEF Shape
  <2>2. QED  BY <1>0, <2>1 DEF Owners
<1>3. QED  BY <1>1, <1>2

(* The handler of r has passed its item k to the storage.                     *)
Applied(r, k) ==
  pc[r] \in {"reply", "put", "done"} \/ (pc[r] \in {"apply", "reload"} /\ k <= idx[r])

LEMMA AppliedStays ==
  ASSUME Shape, NEW q \in Reqs, Handle(q), NEW r \in Reqs, NEW k \in 1 .. MaxItems, Applied(r, k)
  PROVE  Applied(r, k)'
<1>0. /\ pc \in [Reqs -> {"new", "done"} \union Holding]
      /\ idx \in [Reqs -> 0 .. MaxItems] /\ idx[r] \in Nat /\ k \in Nat
  BY PoolAssumption DEF Shape, TypeOK, PoolAssumption
<1>1. CASE r # q
  BY <1>1, OthersLeft DEF Applied, Shape
<1>2. CASE r = q
  <2>1. CASE UpdateBatchItem(q)
    <3>1. /\ pc[r] = "apply" /\ k <= idx[r]
          /\ (pc'[r] \in {"apply", "reload"} /\ idx'[r] = idx[r] + 1) \/ pc'[r] = "put"
      BY <1>0, <1>2, <2>1 DEF UpdateBatchItem, Applied
    <3>2. QED  BY <1>0, <3>1 DEF Applied
  <2>2. CASE UpdatedBatch(q) \/ Reply(q) \/ Put(q) \/ Reload(q)
    BY <1>0, <1>2, <2>2 DEF UpdatedBatch, Reply, Put, Reload, Applied
  <2>5. CASE UpdateMetric(q)
    <3>1. pc[q] = "apply" /\ req[q].kind = "single"
      BY <2>5 DEF UpdateMetric
    <3>2. Counts(req[q].kind, pc[q], idx[q], got[q], back[q])
      BY DEF Shape, Counted
    <3>3. idx[q] = 0
      BY <3>1, <3>2 DEF Counts
    <3>4. QED  BY <1>0, <1>2, <3>1, <3>3 DEF Applied
  <2>3. CASE Get(q) \/ Decode(q) \/ Decoded(q) \/ Refuse(q) \/ Call(q) \/ UrlUpdate(q)
    BY <1>2, <2>3 DEF Get, Decode, Decoded, Refuse, Call, UrlUpdate, UrlUpdateIn, Applied
  <2>4. QED  BY <2>1, <2>2, <2>3, <2>5 DEF Handle
<1>3. QED  BY <1>1, <1>2

(* A gauge that a batch has set points to the slot of the item, and the slot  *)
(* has the item's number as long as the batch got the object last.            *)
BatchSetOf(g) ==
  IsSet(g) /\ req[Setter(g)].kind = "batch" /\ Setter(g) \notin shared =>
    LET r == Setter(g)
        k == setBy[g][2]
    IN  /\ Applied(r, k)
        /\ k \in 1 .. Len(Items(r)) /\ (Items(r)[k].id # Missing => Items(r)[k].id = g)
        /\ Items(r)[k].value # Missing =>
             /\ cell[g] = <<obj[r], k>>
             /\ user[obj[r]] = r => slot[obj[r]][k].value = Items(r)[k].value

BatchSet == \A g \in Gauges : BatchSetOf(g)

(* What holds when the gauge g has just been set by the batch of q.           *)
LEMMA JustSet ==
  ASSUME Shape, Fed, NEW q \in Reqs, NEW g \in Gauges, NEW k, q \notin shared,
         pc[q] = "apply", req[q].kind = "batch", idx[q] < taken[q], k = idx[q] + 1,
         slot[obj[q]][k].id = g
  PROVE  /\ k \in 1 .. Len(Items(q)) /\ (Items(q)[k].id # Missing => Items(q)[k].id = g)
         /\ Items(q)[k].value # Missing =>
              slot[obj[q]][k].value = Items(q)[k].value /\ slot[obj[q]][k].value # Nil
<1>1. /\ idx[q] \in Nat /\ taken[q] = Len(Items(q)) /\ Len(Items(q)) \in Nat
      /\ \A j \in 1 .. Len(Items(q)) : Filled(q, j) /\ Items(q)[j] \in Item
  <2>1. idx[q] \in 0 .. MaxItems /\ ExactOf(q) /\ MaxItems \in Nat
    BY PoolAssumption DEF Shape, TypeOK, Fed, Exact, PoolAssumption
  <2>2. idx[q] \in Nat
    BY <2>1
  <2>3. Len(Items(q)) \in Nat /\ \A j \in 1 .. Len(Items(q)) : Items(q)[j] \in Item
    BY InputType DEF Shape, TypeOK
  <2>4. QED  BY <2>1, <2>2, <2>3 DEF ExactOf
<1>2. k \in 1 .. Len(Items(q))
  BY <1>1
<1>3. Fills(slot[obj[q]][k], Items(q)[k]) /\ Items(q)[k] \in Item
  BY <1>1, <1>2 DEF Filled
<1>4. Items(q)[k].value \in Nums \union {Missing}
  BY <1>3 DEF Item
<1>5. QED  BY <1>2, <1>3, <1>4, Data DEF Fills

LEMMA StepBatchSet ==
  ASSUME Shape, Fed, Owners, NEW q \in Reqs, Handle(q), NEW g \in Gauges, BatchSetOf(g)
  PROVE  BatchSetOf(g)'
<1>0. /\ UNCHANGED req /\ pc \in [Reqs -> {"new", "done"} \union Holding]
      /\ slot \in [Reqs -> [1 .. MaxItems -> Slot]] /\ obj \in [Reqs -> Reqs]
      /\ user \in [Reqs -> Reqs] /\ shared \subseteq shared'
      /\ idx \in [Reqs -> 0 .. MaxItems] /\ MaxItems \in Nat
  BY OthersLeft, InputType DEF Shape, TypeOK, Slot
<1>i. \A r \in Reqs : Items(r)' = Items(r)
  BY <1>0 DEF Items
<1>1. CASE setBy'[g] = <<q, 1>> /\ UrlUpdate(q)
  <2>1. Setter(g)' = q /\ req[q].kind = "url"
    BY <1>1 DEF Setter, UrlUpdate, UrlUpdateIn
  <2>2. QED  BY <1>0, <2>1 DEF BatchSetOf
<1>2. CASE /\ pc[q] = "apply" /\ UNCHANGED <<slot, obj, shared, user>>
           /\ pc'[q] = "reload"
           /\ req[q].kind = "batch" => idx'[q] = idx[q] + 1 /\ idx[q] < taken[q]
           /\ idx'[q] \in 1 .. MaxItems
           /\ slot[obj[q]][idx'[q]].id = g
           /\ setBy'[g] = <<q, idx'[q]>>
           /\ cell'[g] = IF slot[obj[q]][idx'[q]].value = Nil THEN NoCell
                         ELSE <<obj[q], idx'[q]>>
  <2>1. Setter(g)' = q
    BY <1>2 DEF Setter
  <2> SUFFICES ASSUME req[q].kind = "batch", q \notin shared
               PROVE  BatchSetOf(g)'
    BY <1>0, <1>2, <2>1 DEF BatchSetOf
  <2>k. PICK k \in 1 .. MaxItems : k = idx'[q]
    BY <1>2
  <2>2. /\ k \in 1 .. Len(Items(q)) /\ (Items(q)[k].id # Missing => Items(q)[k].id = g)
        /\ Items(q)[k].value # Missing =>
             slot[obj[q]][k].value = Items(q)[k].value /\ slot[obj[q]][k].value # Nil
    BY <1>2, <2>k, JustSet
  <2>3. Applied(q, k)'
    <3>1. k \in Nat
      BY <1>0, <1>2
    <3>2. QED  BY <1>2, <2>k, <3>1 DEF Applied
  <2>4. setBy'[g][2] = k
    BY <1>2, <2>k
  <2>5. Items(q)[k].value # Missing =>
          cell'[g] = <<obj'[q], k>> /\ slot'[obj'[q]][k].value = Items(q)[k].value
    BY <1>2, <2>k, <2>2
  <2>6. Items(q)' = Items(q)
    BY <1>i
  <2>7. QED
    BY <2>1, <2>2, <2>3, <2>4, <2>5, <2>6 DEF BatchSetOf, Applied
<1>3. CASE setBy'[g] = setBy[g] /\ cell'[g] = cell[g]
  <2> SUFFICES ASSUME IsSet(g), req[Setter(g)].kind = "batch", Setter(g) \notin shared'
               PROVE  BatchSetOf(g)'
    BY <1>0, <1>3 DEF BatchSetOf, IsSet, Setter
  <2>s. PICK s \in Reqs, k \in 1 .. MaxItems : s = Setter(g) /\ k = setBy[g][2]
    BY SetterType
  <2>1. /\ s \in Reqs /\ s \notin shared /\ req[s].kind = "batch"
        /\ Applied(s, k) /\ k \in 1 .. Len(Items(s))
        /\ Items(s)[k].id # Missing => Items(s)[k].id = g
        /\ Items(s)[k].value # Missing =>
             /\ cell[g] = <<obj[s], k>>
             /\ user[obj[s]] = s => slot[obj[s]][k].value = Items(s)[k].value
    BY <1>0, <2>s DEF BatchSetOf
  <2>2. Applied(s, k)'
    BY <2>1, AppliedStays
  <2>3. obj'[s] = obj[s] /\ (user'[obj[s]] = s => user[obj[s]] = s)
    <3>1. CASE Get(q)
      <4>1. q # s
        BY <2>1, <3>1 DEF Get, Applied
      <4>2. \E o \in Reqs : user' = [user EXCEPT ![o] = q]
        BY <3>1, GotObject DEF Fed, Hold
      <4>3. QED  BY <1>0, <2>1, <4>1, <4>2, OthersLeft DEF Shape
    <3>2. CASE ~Get(q)
      BY <3>2, ObjectsLeft
    <3>3. QED  BY <3>1, <3>2
  <2>4. user[obj[s]] = s => slot'[obj[s]][k].value = slot[obj[s]][k].value
    <3> SUFFICES ASSUME user[obj[s]] = s, slot'[obj[s]] # slot[obj[s]]
                 PROVE  slot'[obj[s]][k].value = slot[obj[s]][k].value
      OBVIOUS
    <3>1. obj[s] \in Reqs
      BY <1>0, <2>1
    <3>2. CASE (Decode(q) \/ Put(q)) /\ obj[q] = obj[s]
      <4>1. q = s
        BY <2>1, <3>2 DEF Owners, Decode, Put, Holding
      <4>2. Put(q)
        BY <2>1, <3>2, <4>1 DEF Decode, Applied
      <4>3. slot'[obj[s]] = Reset("batch", slot[obj[s]])
        <5>1. slot' = [slot EXCEPT ![obj[s]] = Reset(req[s].kind, @)]
          BY <4>1, <4>2 DEF Put
        <5>2. QED  BY <1>0, <2>1, <3>1, <5>1
      <4>4. QED  BY <4>3 DEF Reset
    <3>3. CASE UrlUpdate(q) /\ q = obj[s]
      BY <2>1, <3>3 DEF UrlUpdate, UrlUpdateIn, Owners
    <3>4. QED  BY <3>1, <3>2, <3>3, Writers
  <2>5. Setter(g)' = s /\ setBy'[g][2] = k /\ Items(s)' = Items(s)
    BY <1>3, <1>i, <2>s DEF Setter
  <2>6. QED
    BY <1>3, <2>1, <2>2, <2>3, <2>4, <2>5 DEF BatchSetOf, Applied
<1>4. QED
  BY <1>1, <1>2, <1>3, Setting

(* What a batch has set stays until its object is handed out again: putting a *)
(* group back leaves the numbers in its slots.                                *)
THEOREM GaugeKeptTillReuseInvariant == Spec => []GaugeKeptTillReuse
<1>1. Init => Owners /\ BatchSet
  BY DEF Init, Owners, BatchSet, BatchSetOf, IsSet, Holding
<1>2. Shape /\ Fed /\ Owners /\ BatchSet /\ [Next]_vars => (Owners /\ BatchSet)'
  <2>1. Shape /\ Fed /\ Owners /\ BatchSet /\ Next => (Owners /\ BatchSet)'
    BY StepOwners, StepBatchSet DEF Next, BatchSet
  <2>2. ASSUME Owners, BatchSet, UNCHANGED vars
        PROVE  (Owners /\ BatchSet)'
    <3>1. UNCHANGED <<req, pc, obj, idx, slot, cell, setBy, user, shared>>
      BY <2>2 DEF vars, poolVars, objectVars, storageVars
    <3>2. Owners'
      BY <2>2, <3>1 DEF Owners
    <3>3. BatchSet'
      BY <2>2, <3>1 DEF BatchSet, BatchSetOf, Applied, IsSet, Setter, Items
    <3>4. QED  BY <3>2, <3>3
  <2>3. QED  BY <2>1, <2>2
<1>3. Shape /\ BatchSet => GaugeKeptTillReuse
  <2>1. ASSUME Shape, BatchSet, NEW g \in Gauges, IsSet(g), req[Setter(g)].kind = "batch",
               Setter(g) \notin shared, user[obj[Setter(g)]] = Setter(g), SetTo(g).value # Missing
        PROVE  Value(g) = SetTo(g).value
    <3>1. BatchSetOf(g)
      BY <2>1 DEF BatchSet
    <3>2. SetTo(g) = Items(Setter(g))[setBy[g][2]]
      BY DEF SetTo, Setter
    <3>3. cell[g] = <<obj[Setter(g)], setBy[g][2]>>
          /\ slot[obj[Setter(g)]][setBy[g][2]].value = SetTo(g).value
      BY <2>1, <3>1, <3>2 DEF BatchSetOf
    <3>4. QED  BY <3>3 DEF Value
  <2>2. QED  BY <2>1 DEF GaugeKeptTillReuse
<1>4. QED  BY <1>1, <1>2, <1>3, ShapeInvariant, FedInvariant, PTL DEF Spec

-------------------------------------------------------------------------------
(* Batches of one layout.                                                     *)

Seen == {r \in Reqs : pc[r] # "new"}

(* Every item of the request has its name and its number.                     *)
Complete(r) ==
  \A k \in DOMAIN Items(r) :
    Items(r)[k].id # Missing /\ NumberOf(Items(r)[k].id, Items(r)[k]) # Missing

(* So far no object was shared, nothing but complete batches of one layout has*)
(* come, and no batch was refused or lost.                                    *)
OneLayout ==
  /\ shared = {}
  /\ \A r \in Seen : req[r].kind = "batch" /\ status[r] \in {"none", "answered"}
  /\ \A r, q \in Seen : Layout(r) = Layout(q)
  /\ \A r \in Seen : Complete(r)

(* A client gets its answer when the handler is through, and one answer only. *)
Ended == \A r \in Reqs : pc[r] \notin {"put", "done"} => status[r] = "none"

SettersSeen == \A g \in Gauges : IsSet(g) => Setter(g) \in Seen

(* The handler of r will pass its item k to the storage, if it is not refused.*)
Pending(r, k) ==
  pc[r] \in {"decode", "call"} \/ (pc[r] \in {"apply", "reload"} /\ idx[r] < k)

(* A gauge reads something else than it was set to only while a batch that    *)
(* has got the object again is going to set the gauge again.                  *)
RewrittenOf(g) ==
  OneLayout /\ IsSet(g) =>
    \/ Value(g) = SetTo(g).value
    \/ \E y \in Reqs : obj[y] = obj[Setter(g)] /\ Pending(y, setBy[g][2])

Rewritten == \A g \in Gauges : RewrittenOf(g)

LEMMA StepSeen ==
  ASSUME Shape, NEW q \in Reqs, Handle(q)
  PROVE  Seen' = Seen \union {q}
BY NewNoMore, OthersLeft DEF Seen, Shape

LEMMA StepEnded ==
  ASSUME Shape, Ended, NEW q \in Reqs, Handle(q)
  PROVE  Ended'
<1>0. /\ pc \in [Reqs -> {"new", "done"} \union Holding]
      /\ status \in [Reqs -> {"none", "answered", "refused", "lost"}]
  BY DEF Shape, TypeOK
<1>1. pc'[q] \notin {"put", "done"} => pc[q] \notin {"put", "done"} /\ status'[q] = status[q]
  <2>1. CASE Get(q)
    <3>1. \E o : Hold(q, o)
      BY <2>1 DEF Get
    <3>2. QED  BY <2>1, <3>1 DEF Get, Hold, answerVars
  <2>2. CASE Decode(q) \/ Decoded(q) \/ Refuse(q) \/ Call(q) \/ UpdatedBatch(q) \/ Reply(q)
             \/ Put(q) \/ Reload(q)
    BY <1>0, <2>2 DEF Decode, Decoded, Refuse, Call, UpdatedBatch, Reply, Put, Reload, answerVars
  <2>3. CASE UpdateMetric(q) \/ UpdateBatchItem(q) \/ UrlUpdate(q)
    BY <1>0, <2>3 DEF UpdateMetric, UpdateBatchItem, UrlUpdate, UrlUpdateIn
  <2>4. QED  BY <2>1, <2>2, <2>3 DEF Handle
<1>2. QED  BY <1>1, OthersLeft DEF Ended, Shape

(* What has come with another layout, or without a number, has come for good. *)
LEMMA LayoutBefore ==
  ASSUME Shape, Ended, NEW q \in Reqs, Handle(q), OneLayout'
  PROVE  OneLayout
<1>0. /\ UNCHANGED req /\ shared \subseteq shared' /\ Seen' = Seen \union {q}
      /\ \A r \in Reqs : /\ Items(r)' = Items(r) /\ Layout(r)' = Layout(r)
                         /\ Complete(r)' <=> Complete(r)
      /\ pc \in [Reqs -> {"new", "done"} \union Holding]
      /\ status \in [Reqs -> {"none", "answered", "refused", "lost"}]
  BY OthersLeft, StepSeen DEF Items, Layout, Complete, Shape, TypeOK
<1>1. /\ shared = {} /\ \A r \in Seen : req[r].kind = "batch"
      /\ \A r, p \in Seen : Layout(r) = Layout(p)
      /\ \A r \in Seen : Complete(r)
  BY <1>0 DEF OneLayout, Seen
<1>2. ASSUME NEW r \in Seen
      PROVE  status[r] \in {"none", "answered"}
  <2>1. r \in Reqs /\ pc[r] # "new" /\ status'[r] \in {"none", "answered"}
    BY <1>0, <1>2 DEF OneLayout, Seen
  <2>2. CASE status'[r] = status[r]
    BY <2>1, <2>2
  <2>3. CASE status'[r] # status[r]
    <3>1. r = q
      BY <2>1, <2>3, OthersLeft DEF Shape
    <3>2. pc[q] # "put"
      BY <2>3, <3>1 DEF Handle, Get, Hold, Decode, Decoded, Refuse, Call, UpdateMetric,
           UpdateBatchItem, Reload, UpdatedBatch, UrlUpdate, UrlUpdateIn, Reply, Put, answerVars
    <3>3. QED  BY <2>1, <3>1, <3>2, NotDone DEF Ended
  <2>4. QED  BY <2>2, <2>3
<1>3. QED  BY <1>1, <1>2 DEF OneLayout

LEMMA StepSettersSeen ==
  ASSUME Shape, Fed, SettersSeen, NEW q \in Reqs, Handle(q)
  PROVE  SettersSeen'
<1>1. ASSUME NEW g \in Gauges, IsSet(g)'
      PROVE  Setter(g)' \in Seen'
  <2>1. CASE setBy'[g] = setBy[g]
    BY <1>1, <2>1, StepSeen DEF SettersSeen, IsSet, Setter
  <2>2. CASE setBy'[g] # setBy[g]
    <3>1. setBy'[g] = <<q, 1>> \/ setBy'[g] = <<q, idx'[q]>>
      BY <2>2, Setting
    <3>2. Setter(g)' = q
      BY <3>1 DEF Setter
    <3>3. QED  BY <3>2, StepSeen
  <2>3. QED  BY <2>1, <2>2
<1>2. QED  BY <1>1 DEF SettersSeen

(* A batch that is going to set a gauge sets it, or still is going to.        *)
LEMMA PendingStays ==
  ASSUME Shape, Fed, OneLayout, OneLayout', NEW q \in Reqs, Handle(q),
         NEW k \in 1 .. Len(Items(q)), Items(q)[k].id \in Gauges, Pending(q, k),
         setBy'[Items(q)[k].id] # <<q, k>>
  PROVE  Pending(q, k)'
<1>0. /\ pc \in [Reqs -> {"new", "done"} \union Holding] /\ idx \in [Reqs -> 0 .. MaxItems]
      /\ status \in [Reqs -> {"none", "answered", "refused", "lost"}]
      /\ setBy \in [Gauges -> Cells \union {NoCell}]
      /\ idx[q] \in Nat /\ Len(Items(q)) \in Nat /\ k \in Nat \ {0}
      /\ \A j \in 1 .. Len(Items(q)) : Items(q)[j].id \in IDs
  <2>1. idx \in [Reqs -> 0 .. MaxItems] /\ MaxItems \in Nat
    BY PoolAssumption DEF Shape, TypeOK, PoolAssumption
  <2>2. idx[q] \in Nat
    BY <2>1
  <2>3. Len(Items(q)) \in Nat /\ \A j \in 1 .. Len(Items(q)) : Items(q)[j].id \in IDs
    <3>1. q \in Seen
      BY DEF Pending, Seen
    <3>2. Len(Items(q)) \in Nat /\ \A j \in 1 .. Len(Items(q)) : Items(q)[j] \in Item
      BY InputType DEF Shape, TypeOK
    <3>3. \A j \in 1 .. Len(Items(q)) : Items(q)[j].id # Missing
      BY <3>1 DEF OneLayout, Complete
    <3>4. QED  BY <3>2, <3>3 DEF Item
  <2>4. QED  BY <2>1, <2>2, <2>3 DEF Shape, TypeOK
<1>1. /\ req[q].kind = "batch" /\ status'[q] \in {"none", "answered"} /\ shared = {}
      /\ ExactOf(q)
  BY StepSeen, OthersLeft DEF OneLayout, Fed, Exact, Shape
<1>2. CASE Decode(q) \/ Decoded(q)
  BY <1>0, <1>2 DEF Decode, Decoded, Pending
<1>3. CASE Call(q)
  <2>1. pc'[q] = "apply" /\ idx'[q] = 0
    BY <1>0, <1>3 DEF Call
  <2>2. 0 < k
    BY <1>0
  <2>3. QED  BY <2>1, <2>2 DEF Pending
<1>4. CASE UpdateBatchItem(q)
  <2>1. pc[q] = "apply" /\ idx[q] < k /\ taken[q] = Len(Items(q))
        /\ \A j \in 1 .. Len(Items(q)) : Filled(q, j)
    BY <1>1, <1>4 DEF UpdateBatchItem, Pending, ExactOf
  <2>2. idx[q] + 1 \in 1 .. Len(Items(q))
    BY <1>0, <2>1
  <2>3. slot[obj[q]][idx[q] + 1].id = Items(q)[idx[q] + 1].id
        /\ slot[obj[q]][idx[q] + 1].id # NoId
    <3>1. Items(q)[idx[q] + 1].id \in IDs
      BY <1>0, <2>2
    <3>2. Filled(q, idx[q] + 1)
      BY <2>1, <2>2
    <3>3. QED  BY <3>1, <3>2, Data DEF Filled, Fills, IDs
  <2>4. ~ (status' = [status EXCEPT ![q] = "lost"])
    BY <1>0, <1>1
  <2>5. /\ StoreItem(q, idx[q] + 1) /\ idx' = [idx EXCEPT ![q] = idx[q] + 1]
        /\ pc' = [pc EXCEPT ![q] = "reload"]
    BY <1>4, <2>3, <2>4 DEF UpdateBatchItem
  <2>6. idx'[q] = idx[q] + 1 /\ pc'[q] = "reload"
    BY <1>0, <2>1, <2>5
  <2>7. idx[q] + 1 # k
    <3>1. ASSUME idx[q] + 1 = k
          PROVE  FALSE
      <4>1. slot[obj[q]][k].id = Items(q)[k].id /\ StoreItem(q, k)
        BY <2>3, <2>5, <3>1
      <4>2. setBy' = [setBy EXCEPT ![Items(q)[k].id] = <<q, k>>]
        BY <4>1 DEF StoreItem
      <4>3. QED  BY <1>0, <4>2
    <3>2. QED  BY <3>1
  <2>8. idx[q] + 1 < k
    BY <1>0, <2>1, <2>7
  <2>9. QED  BY <2>6, <2>8 DEF Pending
<1>5. CASE UpdatedBatch(q)
  BY <1>0, <1>1, <1>5 DEF UpdatedBatch, Pending, ExactOf
<1>9. CASE Reload(q)
  BY <1>0, <1>1, <1>9 DEF Reload, Pending
<1>6. CASE Refuse(q)
  BY <1>0, <1>1, <1>6 DEF Refuse
<1>7. CASE Get(q) \/ UpdateMetric(q) \/ UrlUpdate(q) \/ Reply(q) \/ Put(q)
  BY <1>1, <1>7 DEF Get, UpdateMetric, UrlUpdate, UrlUpdateIn, Reply, Put, Pending
<1>8. QED
  BY <1>2, <1>3, <1>4, <1>5, <1>6, <1>7, <1>9 DEF Handle

LEMMA StepRewritten ==
  ASSUME Shape, Fed, Owners, BatchSet, Ended, SettersSeen, NEW q \in Reqs, Handle(q),
         NEW g \in Gauges, RewrittenOf(g)
  PROVE  RewrittenOf(g)'
<1> SUFFICES ASSUME OneLayout', IsSet(g)'
             PROVE  RewrittenOf(g)'
  BY DEF RewrittenOf
<1>0. /\ UNCHANGED req /\ Seen' = Seen \union {q} /\ OneLayout /\ shared' = {} /\ shared = {}
      /\ \A r \in Reqs : Items(r)' = Items(r)
      /\ pc \in [Reqs -> {"new", "done"} \union Holding]
      /\ slot \in [Reqs -> [1 .. MaxItems -> Slot]] /\ obj \in [Reqs -> Reqs]
      /\ setBy \in [Gauges -> Cells \union {NoCell}]
      /\ q \in Seen' /\ req[q].kind = "batch"
      /\ \A r \in Reqs : Items(r) \in Seq(Item)
  <2>1. UNCHANGED req /\ Seen' = Seen \union {q} /\ OneLayout /\ shared' = {} /\ shared = {}
    BY OthersLeft, StepSeen, LayoutBefore DEF OneLayout, Shape
  <2>2. req[q].kind = "batch"
    BY <2>1 DEF OneLayout
  <2>3. QED
    BY <2>1, <2>2, InputType DEF Shape, TypeOK, Slot, Items
<1>1. CASE UrlUpdate(q)
  BY <1>0, <1>1 DEF UrlUpdate, UrlUpdateIn
<1>2. CASE /\ pc[q] = "apply" /\ UNCHANGED <<slot, obj, shared, user>>
           /\ req[q].kind = "batch" => idx'[q] = idx[q] + 1 /\ idx[q] < taken[q]
           /\ idx'[q] \in 1 .. MaxItems
           /\ slot[obj[q]][idx'[q]].id = g
           /\ setBy'[g] = <<q, idx'[q]>>
           /\ cell'[g] = IF slot[obj[q]][idx'[q]].value = Nil THEN NoCell
                         ELSE <<obj[q], idx'[q]>>
  <2>1. PICK k \in 1 .. MaxItems : k = idx'[q]
    BY <1>2
  <2>2. /\ k \in 1 .. Len(Items(q)) /\ (Items(q)[k].id # Missing => Items(q)[k].id = g)
        /\ Items(q)[k].value # Missing =>
             slot[obj[q]][k].value = Items(q)[k].value /\ slot[obj[q]][k].value # Nil
    <3>1. /\ q \notin shared /\ pc[q] = "apply" /\ req[q].kind = "batch"
          /\ idx[q] < taken[q] /\ k = idx[q] + 1 /\ slot[obj[q]][k].id = g
      BY <1>0, <1>2, <2>1
    <3>2. QED  BY <3>1, JustSet
  <2>3. Items(q)[k].value # Missing
    <3>1. q \in Seen /\ k \in DOMAIN Items(q)
      BY <1>0, <1>2, <2>2 DEF Seen
    <3>2. QED  BY <1>0, <2>2, <3>1 DEF OneLayout, Complete, NumberOf
  <2>4. cell'[g] = <<obj[q], k>> /\ setBy'[g] = <<q, k>>
    BY <1>2, <2>1, <2>2, <2>3
  <2>5. Value(g)' = slot[obj[q]][k].value /\ SetTo(g)' = Items(q)[k]
    <3>1. slot' = slot /\ Items(q)' = Items(q)
      BY <1>0, <1>2
    <3>2. QED  BY <2>4, <3>1 DEF Value, SetTo, Items
  <2>6. QED  BY <2>2, <2>3, <2>5 DEF RewrittenOf
<1>3. CASE setBy'[g] = setBy[g] /\ cell'[g] = cell[g]
  <2>0. IsSet(g)
    BY <1>3 DEF IsSet
  <2>s. PICK s \in Reqs, k \in 1 .. MaxItems :
          s = Setter(g) /\ k = setBy[g][2] /\ setBy[g] = <<s, k>>
    BY <2>0, SetterType
  <2>1. s \in Seen /\ req[s].kind = "batch"
    BY <1>0, <2>0, <2>s DEF SettersSeen, OneLayout
  <2>a. /\ Applied(s, k) /\ k \in 1 .. Len(Items(s))
        /\ Items(s)[k].id # Missing => Items(s)[k].id = g
        /\ Items(s)[k].value # Missing => cell[g] = <<obj[s], k>>
    BY <1>0, <2>0, <2>s, <2>1 DEF BatchSet, BatchSetOf
  <2>2. Applied(s, k) /\ k \in 1 .. Len(Items(s)) /\ Items(s)[k].id = g
    BY <1>0, <2>1, <2>a DEF OneLayout, Complete
  <2>3. cell[g] = <<obj[s], k>>
    <3>1. k \in DOMAIN Items(s)
      BY <1>0, <2>2
    <3>2. QED  BY <1>0, <2>1, <2>2, <2>a, <3>1 DEF OneLayout, Complete, NumberOf
  <2>4. obj'[s] = obj[s]
    <3>1. CASE q # s
      BY <3>1, OthersLeft DEF Shape
    <3>2. CASE q = s
      <4>1. ~Get(q)
        BY <2>2, <3>2 DEF Get, Applied
      <4>2. QED  BY <4>1, ObjectsLeft
    <3>3. QED  BY <3>1, <3>2
  <2>5. /\ Value(g) = slot[obj[s]][k].value /\ Value(g)' = slot'[obj[s]][k].value
        /\ SetTo(g) = Items(s)[k] /\ SetTo(g)' = Items(s)[k]
        /\ Setter(g)' = s /\ setBy'[g][2] = k /\ obj[s] \in Reqs
    BY <1>0, <1>3, <2>3, <2>s DEF Value, SetTo, Setter
  <2>i. ASSUME NEW y \in Reqs, obj'[y] = obj[s], Pending(y, k)'
        PROVE  RewrittenOf(g)'
    BY <2>4, <2>5, <2>i DEF RewrittenOf, Pending
  <2>6. CASE slot'[obj[s]] # slot[obj[s]]
    <3>1. CASE Decode(q) /\ obj[q] = obj[s]
      <4>1. pc[q] = "decode" /\ UNCHANGED <<pc, obj>>
        BY <3>1 DEF Decode, poolVars
      <4>2. Pending(q, k)'
        BY <4>1 DEF Pending
      <4>3. QED  BY <2>i, <3>1, <4>1, <4>2
    <3>2. CASE Put(q) /\ obj[q] = obj[s]
      <4>1. slot' = [slot EXCEPT ![obj[s]] = Reset("batch", @)]
        BY <1>0, <3>2 DEF Put
      <4>2. slot'[obj[s]] = Reset("batch", slot[obj[s]])
        BY <1>0, <2>5, <4>1
      <4>3. QED  BY <2>6, <4>2 DEF Reset
    <3>3. CASE UrlUpdate(q)
      BY <1>1, <3>3
    <3>4. QED  BY <2>5, <2>6, <3>1, <3>2, <3>3, Writers
  <2>7. CASE slot'[obj[s]] = slot[obj[s]]
    <3>1. CASE Value(g) = SetTo(g).value
      BY <2>5, <2>7, <3>1 DEF RewrittenOf
    <3>2. CASE \E y \in Reqs : obj[y] = obj[Setter(g)] /\ Pending(y, setBy[g][2])
      <4>1. PICK y \in Reqs : obj[y] = obj[s] /\ Pending(y, k)
        BY <2>s, <3>2
      <4>2. CASE y # q
        <5>1. Pending(y, k)' /\ obj'[y] = obj[y]
          BY <4>1, <4>2, OthersLeft DEF Pending, Shape
        <5>2. QED  BY <2>i, <4>1, <5>1
      <4>3. CASE y = q
        <5>1. q \in Seen
          BY <4>1, <4>3 DEF Pending, Seen
        <5>2. Layout(q) = Layout(s)
          BY <1>0, <2>1, <5>1 DEF OneLayout
        <5>3. k \in 1 .. Len(Items(q)) /\ Items(q)[k].id = g
          <6>1. DOMAIN Layout(q) = DOMAIN Items(q) /\ DOMAIN Layout(s) = DOMAIN Items(s)
            BY DEF Layout
          <6>2. k \in DOMAIN Items(s) /\ k \in DOMAIN Items(q)
            BY <1>0, <2>2, <5>2, <6>1
          <6>3. Layout(q)[k] = Items(q)[k].id /\ Layout(s)[k] = Items(s)[k].id
            BY <6>2 DEF Layout
          <6>4. QED  BY <1>0, <2>2, <5>2, <6>2, <6>3
        <5>4. setBy'[g] # <<q, k>>
          <6>1. ASSUME q = s
                PROVE  FALSE
            <7>1. idx[s] \in Nat /\ k \in Nat
              BY PoolAssumption DEF Shape, TypeOK, PoolAssumption
            <7>2. QED  BY <2>2, <4>1, <4>3, <6>1, <7>1 DEF Applied, Pending
          <6>2. QED  BY <1>3, <2>s, <6>1
        <5>5. Pending(q, k)'
          BY <1>0, <4>1, <4>3, <5>3, <5>4, PendingStays
        <5>6. ~Get(q)
          BY <4>1, <4>3 DEF Get, Pending
        <5>7. obj'[q] = obj[q]
          BY <5>6, ObjectsLeft
        <5>8. QED  BY <2>i, <4>1, <4>3, <5>5, <5>7
      <4>4. QED  BY <4>2, <4>3
    <3>3. QED  BY <1>0, <2>0, <3>1, <3>2 DEF RewrittenOf
  <2>8. QED  BY <2>6, <2>7
<1>4. QED
  BY <1>1, <1>2, <1>3, Setting

(* Batches that all name the same metrics in the same order leave in every    *)
(* gauge the last number that was sent for it, whatever objects they got.     *)
THEOREM GaugesKeptSameLayoutInvariant == Spec => []GaugesKeptSameLayout
<1> DEFINE Inv == Owners /\ BatchSet /\ Ended /\ SettersSeen /\ Rewritten
<1>1. Init => Inv
  BY DEF Init, Owners, BatchSet, BatchSetOf, Ended, SettersSeen, Rewritten, RewrittenOf, IsSet,
         Holding
<1>2. Shape /\ Fed /\ Inv /\ [Next]_vars => Inv'
  <2>1. ASSUME Shape, Fed, Inv, NEW q \in Reqs, Handle(q)
        PROVE  Inv'
    <3>1. Owners' /\ BatchSet'
      BY <2>1, StepOwners, StepBatchSet DEF BatchSet
    <3>2. Ended' /\ SettersSeen'
      BY <2>1, StepEnded, StepSettersSeen
    <3>3. Rewritten'
      BY <2>1, StepRewritten DEF Rewritten
    <3>4. QED  BY <3>1, <3>2, <3>3
  <2>2. ASSUME Inv, UNCHANGED vars
        PROVE  Inv'
    <3>1. Owners' /\ BatchSet' /\ Ended' /\ SettersSeen'
      BY <2>2 DEF vars, poolVars, objectVars, storageVars, answerVars, Owners, BatchSet,
                  BatchSetOf, Applied, Ended, SettersSeen, Seen, IsSet, Setter, Items
    <3>2. Rewritten'
      BY <2>2 DEF vars, poolVars, objectVars, storageVars, answerVars, Rewritten, RewrittenOf,
                  OneLayout, Seen, Layout, Complete, IsSet, Setter, SetTo, Value, Pending, Items
    <3>3. QED  BY <3>1, <3>2
  <2>3. QED  BY <2>1, <2>2 DEF Next
<1>3. Shape /\ Inv => GaugesKeptSameLayout
  <2>1. ASSUME Shape, Inv, Quiet, shared = {},
               \A r \in Seen : req[r].kind = "batch" /\ status[r] = "answered",
               \A r, q \in Seen : Layout(r) = Layout(q),
               \A r \in Seen : Complete(r),
               NEW g \in Gauges, IsSet(g)
        PROVE  Value(g) = SetTo(g).value
    <3>1. OneLayout
      BY <2>1 DEF OneLayout
    <3>2. \A y \in Reqs : ~Pending(y, setBy[g][2])
      BY <2>1 DEF Quiet, Pending
    <3>3. QED  BY <2>1, <3>1, <3>2 DEF Rewritten, RewrittenOf
  <2>2. \A r : (\A k \in DOMAIN Items(r) : /\ Layout(r)[k] # Missing
                                           /\ NumberOf(Layout(r)[k], Items(r)[k]) # Missing)
               => Complete(r)
    BY DEF Complete, Layout
  <2>3. QED  BY <2>1, <2>2 DEF GaugesKeptSameLayout, Seen
<1>4. QED  BY <1>1, <1>2, <1>3, ShapeInvariant, FedInvariant, PTL DEF Spec
=============================================================================
