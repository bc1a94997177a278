------------------------------ MODULE PooledUpdate -----------------------------
(***************************************************************************)
(* The pooled objects of the update handlers (internal/server/server.go,   *)
(* internal/reset/pool_naive.go) over the in-memory storage.               *)
(*                                                                         *)
(* The JSON handlers take an object from a pool, decode the body into it,  *)
(* pass it to the storage, answer, and put it back.  Three things meet:    *)
(*   - PoolNaive.Get leaves what it returns at the head of the queue, so   *)
(*     later requests get the same object, at the same time too;           *)
(*   - the storage keeps the pointer to a gauge's number, so a gauge reads *)
(*     whatever is written there later: by Reset, or by another body;      *)
(*   - the decoder writes only what the body names, so a name or a number  *)
(*     that is missing is what an earlier request left.                    *)
(*                                                                         *)
(* The storage stores an item, and then reads the map again for the answer,*)
(* each in one step: MemStorage has the steps before.  A name is of one    *)
(* type, and a body names both or neither.  The steps of Get and Put, and  *)
(* the decoding of one item, are atomic; a body has no JSON null and is not*)
(* empty.  What the handler of a URL answers is left out.                  *)
(***************************************************************************)
EXTENDS Naturals, Sequences, FiniteSets

CONSTANTS
  Reqs,       (* requests; each is sent once, and runs in its goroutine         *)
  Gauges,     (* names of gauges                                                *)
  Counters,   (* names of counters                                              *)
  Nums,       (* the numbers clients send                                       *)
  MaxItems,   (* what the slice of a new group holds (50 in the code)           *)
  Input,      (* what the clients send: a subset of Request                     *)
  Missing,    (* the body does not say                                          *)
  Nil,        (* the pointer to a number is nil                                 *)
  NoId        (* the empty name, with the empty type                            *)

IDs == Gauges \union Counters

Item    == [ id    : IDs \union {Missing},
             delta : Nums \union {Missing}, value : Nums \union {Missing} ]
Request == [kind : {"single", "batch", "url"}, items : Seq(Item)]

(* Which of the two numbers goes with a name.                                 *)
NumberOf(id, x) == IF id \in Gauges THEN x.value ELSE x.delta

ASSUME PoolAssumption ==
  /\ Gauges \intersect Counters = {} /\ {NoId, Missing} \intersect IDs = {} /\ NoId # Missing
  /\ Nums \subseteq Nat /\ Missing \notin Nat /\ Nil \notin Nat
  /\ MaxItems \in Nat \ {0}
  /\ Input \subseteq Request
  /\ \A q \in Input :
       /\ Len(q.items) \in 1 .. MaxItems
       /\ q.kind # "batch" => Len(q.items) = 1
       /\ q.kind = "url" => q.items[1].id # Missing /\ NumberOf(q.items[1].id, q.items[1]) # Missing

(* The objects are called by the request that created them, and a place in    *)
(* memory for a number by its object and its slot.                            *)
Cells  == Reqs \X (1 .. MaxItems)
NoCell == <<>>

VARIABLES
  req,      (* what each request sends                                          *)
  pc,       (* where the handler of each request is                             *)
  obj,      (* the object a handler holds                                       *)
  idx,      (* the items it has decoded, then the items it has applied          *)
  len,      (* of each object: the length of its slice                          *)
  slot,     (* of each object: the name and the numbers in each slot            *)
  taken,    (* the length of the slice the handler has passed to the storage    *)
  queue,    (* the Queue of each pool                                           *)
  sum,      (* the storage: the counters                                        *)
  cell,     (* the storage: where the number of a gauge is                      *)
  back,     (* where the numbers are that it reads again, item by item          *)
  failed,   (* the storage has met an empty type in this batch                  *)
  status,   (* what the client got                                              *)
  got,      (* history: what the storage has got of each request, item by item  *)
  reply,    (* history: the gauge's number in the answer, item by item          *)
  setBy,    (* history: the request and the item that set a gauge last          *)
  passed,   (* history: the items whose gauge was set anew before it was read   *)
  user,     (* history: the request that got an object last                     *)
  shared,   (* history: the requests that held an object together with others   *)
  peak      (* history: how many handlers have held objects of a pool at once   *)

poolVars    == <<obj, queue, user, shared, peak>>
objectVars  == <<len, slot>>
storageVars == <<sum, cell, back, failed, got, setBy, passed>>
answerVars  == <<status, reply>>
vars == <<req, pc, idx, taken, poolVars, objectVars, storageVars, answerVars>>

Holding == {"decode", "call", "apply", "reload", "reply", "put"}
Holders(o) == {r \in Reqs : pc[r] \in Holding /\ obj[r] = o}
Pooled(kind) == {r \in Reqs : pc[r] \in Holding /\ req[r].kind = kind}
Pools == {"single", "batch"}

Items(r) == req[r].items
Empty    == [id |-> NoId, delta |-> Nil, value |-> Nil]

-------------------------------------------------------------------------------
Init ==
  /\ req \in [Reqs -> Input]
  /\ pc = [r \in Reqs |-> "new"]
  /\ obj = [r \in Reqs |-> r]
  /\ idx = [r \in Reqs |-> 0] /\ taken = [r \in Reqs |-> 0]
  /\ len = [o \in Reqs |-> MaxItems]
  /\ slot = [o \in Reqs |-> [k \in 1 .. MaxItems |-> Empty]]
  /\ queue = [p \in Pools |-> <<>>]
  /\ sum = [c \in Counters |-> 0] /\ cell = [g \in Gauges |-> NoCell]
  /\ back = [r \in Reqs |-> <<>>] /\ passed = {}
  /\ failed = [r \in Reqs |-> FALSE]
  /\ status = [r \in Reqs |-> "none"]
  /\ got = [r \in Reqs |-> <<>>]
  /\ reply = [r \in Reqs |-> <<>>]
  /\ setBy = [g \in Gauges |-> NoCell]
  /\ user = [o \in Reqs |-> o]
  /\ shared = {}
  /\ peak = [p \in Pools |-> 0]

(* The bookkeeping of a handler that is given the object o.                   *)
Hold(r, o) ==
  LET p == req[r].kind
      others == Holders(o)
      now == Cardinality(Pooled(p)) + 1
  IN  /\ obj' = [obj EXCEPT ![r] = o]
      /\ pc' = [pc EXCEPT ![r] = "decode"]
      /\ user' = [user EXCEPT ![o] = r]
      /\ shared' = IF others = {} THEN shared ELSE shared \union others \union {r}
      /\ peak' = [peak EXCEPT ![p] = IF now > @ THEN now ELSE @]
      /\ UNCHANGED <<req, idx, taken, objectVars, storageVars, answerVars>>

(* Mutant: the queue is left as it is.                                        *)
GetKeeps(r) ==
  /\ pc[r] = "new" /\ req[r].kind \in Pools
  /\ UNCHANGED queue
  /\ LET q == queue[req[r].kind] IN Hold(r, IF q = <<>> THEN r ELSE Head(q))

(* PoolNaive.Get: the head of the queue, which is cut down to its head; or an *)
(* object of its own.                                                         *)
Get(r) ==
  /\ pc[r] = "new" /\ req[r].kind \in Pools
  /\ LET q == queue[req[r].kind]
     IN  IF q = <<>>
         THEN Hold(r, r) /\ UNCHANGED queue
         ELSE /\ Hold(r, Head(q))
              /\ queue' = [queue EXCEPT ![req[r].kind] = SubSeq(@, 1, 1)]

-------------------------------------------------------------------------------
(* Decoding: json.Unmarshal.                                                  *)

(* What a body leaves in a slot: it writes what it names.                     *)
Written(s, item) ==
  [f \in {"id", "delta", "value"} |-> IF item[f] = Missing THEN s[f] ELSE item[f]]

Larger(m, n) == IF m > n THEN m ELSE n

Decode(r) ==
  /\ pc[r] = "decode" /\ idx[r] < Len(Items(r))
  /\ LET k == idx[r] + 1
         o == obj[r]
     IN  /\ slot' = [slot EXCEPT ![o][k] = Written(@, Items(r)[k])]
         /\ len' = [len EXCEPT ![o] = Larger(@, k)]
         /\ idx' = [idx EXCEPT ![r] = k]
  /\ UNCHANGED <<req, pc, taken, poolVars, storageVars, answerVars>>

(* Mutant: one slot too many.                                                 *)
DecodedLong(r) ==
  /\ pc[r] = "decode" /\ idx[r] = Len(Items(r))
  /\ len' = [len EXCEPT ![obj[r]] = Len(Items(r)) + 1]
  /\ pc' = [pc EXCEPT ![r] = "call"]
  /\ UNCHANGED <<req, idx, taken, slot, poolVars, storageVars, answerVars>>

(* The slice is cut to what the body has.                                     *)
Decoded(r) ==
  /\ pc[r] = "decode" /\ idx[r] = Len(Items(r))
  /\ len' = [len EXCEPT ![obj[r]] = Len(Items(r))]
  /\ pc' = [pc EXCEPT ![r] = "call"]
  /\ UNCHANGED <<req, idx, taken, slot, poolVars, storageVars, answerVars>>

(* 400: the body cannot be read, or is not JSON, and nothing is decoded; or a *)
(* field is of another type, and all the others are.                          *)
Refuse(r) ==
  /\ pc[r] = "decode" /\ idx[r] \in {0, Len(Items(r))}
  /\ pc' = [pc EXCEPT ![r] = "put"]
  /\ status' = [status EXCEPT ![r] = "refused"]
  /\ UNCHANGED <<req, idx, taken, reply, poolVars, objectVars, storageVars>>

-------------------------------------------------------------------------------
(* The storage.                                                               *)

(* The slice is passed by value: its length is that of this moment, its slots *)
(* are the object's.  A batch is between its decoding and its call while it   *)
(* waits for the audit channel.                                               *)
Call(r) ==
  /\ pc[r] = "call"
  /\ taken' = [taken EXCEPT ![r] = IF req[r].kind = "single" THEN 1 ELSE len[obj[r]]]
  /\ idx' = [idx EXCEPT ![r] = 0]
  /\ pc' = [pc EXCEPT ![r] = "apply"]
  /\ UNCHANGED <<req, poolVars, objectVars, storageVars, answerVars>>

(* The entry g is stored by r: those who have stored theirs, and have not read*)
(* it again, will read this one.                                              *)
PassedBy(r, g) ==
  {<<q, Len(got[q])>> : q \in {q \in Reqs \ {r} : pc[q] = "reload" /\ got[q][Len(got[q])].id = g}}

(* A gauge's pointer is stored, a counter's number is added.                  *)
StoreItem(r, k) ==
  LET o == obj[r]
      s == slot[o][k]
  IN  /\ got' = [got EXCEPT ![r] = Append(@, [id |-> s.id, num |-> NumberOf(s.id, s)])]
      /\ IF s.id \in Gauges
         THEN /\ cell' = [cell EXCEPT ![s.id] = IF s.value = Nil THEN NoCell ELSE <<o, k>>]
              /\ setBy' = [setBy EXCEPT ![s.id] = <<r, k>>]
              /\ passed' = passed \union PassedBy(r, s.id)
              /\ UNCHANGED sum
         ELSE /\ sum' = [sum EXCEPT ![s.id] = @ + s.delta]
              /\ UNCHANGED <<cell, setBy, passed>>
      /\ UNCHANGED <<back, failed>>

(* MemStorage.UpdateMetric: an empty type, or a number that is not there, is  *)
(* refused.                                                                   *)
UpdateMetric(r) ==
  /\ pc[r] = "apply" /\ req[r].kind = "single"
  /\ LET s == slot[obj[r]][1]
     IN  \/ /\ s.id # NoId /\ NumberOf(s.id, s) # Nil
            /\ StoreItem(r, 1)
            /\ idx' = [idx EXCEPT ![r] = 1]
            /\ pc' = [pc EXCEPT ![r] = "reload"]
            /\ UNCHANGED status
         \/ /\ s.id = NoId \/ NumberOf(s.id, s) = Nil
            /\ pc' = [pc EXCEPT ![r] = "put"]
            /\ status' = [status EXCEPT ![r] = "refused"]
            /\ UNCHANGED <<idx, storageVars>>
  /\ UNCHANGED <<req, taken, reply, poolVars, objectVars>>

(* MemStorage.UpdateBatchMetrics, one item: a counter without its delta is a  *)
(* panic, which ends the handler but for what it has deferred.                *)
UpdateBatchItem(r) ==
  /\ pc[r] = "apply" /\ req[r].kind = "batch" /\ idx[r] < taken[r]
  /\ LET k == idx[r] + 1
         s == slot[obj[r]][k]
     IN  \/ /\ s.id \in Gauges \/ (s.id \in Counters /\ s.delta # Nil)
            /\ StoreItem(r, k)
            /\ idx' = [idx EXCEPT ![r] = k]
            /\ pc' = [pc EXCEPT ![r] = "reload"]
            /\ UNCHANGED status
         \/ /\ s.id = NoId
            /\ failed' = [failed EXCEPT ![r] = TRUE]
            /\ got' = [got EXCEPT ![r] = Append(@, [id |-> NoId, num |-> Nil])]
            /\ back' = [back EXCEPT ![r] = Append(@, NoCell)]
            /\ idx' = [idx EXCEPT ![r] = k]
            /\ UNCHANGED <<pc, status, sum, cell, setBy, passed>>
         \/ /\ s.id \in Counters /\ s.delta = Nil
            /\ pc' = [pc EXCEPT ![r] = "put"]
            /\ status' = [status EXCEPT ![r] = "lost"]
            /\ UNCHANGED <<idx, storageVars>>
  /\ UNCHANGED <<req, taken, reply, poolVars, objectVars>>

(* The map is read again, for the answer.                                     *)
Reload(r) ==
  /\ pc[r] = "reload"
  /\ LET id == got[r][Len(got[r])].id
     IN  back' = [back EXCEPT ![r] = Append(@, IF id \in Gauges THEN cell[id] ELSE NoCell)]
  /\ pc' = [pc EXCEPT ![r] = IF req[r].kind = "single" THEN "reply" ELSE "apply"]
  /\ UNCHANGED <<req, idx, taken, poolVars, objectVars, answerVars, sum, cell, failed, got, setBy, passed>>

UpdatedBatch(r) ==
  /\ pc[r] = "apply" /\ req[r].kind = "batch" /\ idx[r] = taken[r]
  /\ IF failed[r]
     THEN /\ pc' = [pc EXCEPT ![r] = "put"]
          /\ status' = [status EXCEPT ![r] = "refused"]
     ELSE pc' = [pc EXCEPT ![r] = "reply"] /\ UNCHANGED status
  /\ UNCHANGED <<req, idx, taken, reply, poolVars, objectVars, storageVars>>

(* The number of a gauge goes to the object o, a counter's is added.          *)
UrlUpdateIn(r, o) ==
  /\ pc[r] = "new" /\ req[r].kind = "url"
  /\ LET item == Items(r)[1]
         num  == NumberOf(item.id, item)
     IN  /\ slot' = [slot EXCEPT ![o][1] = Written(@, item)]
         /\ got' = [got EXCEPT ![r] = <<[id |-> item.id, num |-> num]>>]
         /\ IF item.id \in Gauges
            THEN /\ cell' = [cell EXCEPT ![item.id] = <<o, 1>>]
                 /\ setBy' = [setBy EXCEPT ![item.id] = <<r, 1>>]
                 /\ passed' = passed \union PassedBy(r, item.id)
                 /\ UNCHANGED sum
            ELSE sum' = [sum EXCEPT ![item.id] = @ + num] /\ UNCHANGED <<cell, setBy, passed>>
  /\ pc' = [pc EXCEPT ![r] = "done"]
  /\ status' = [status EXCEPT ![r] = "answered"]
  /\ UNCHANGED <<req, idx, taken, len, back, failed, reply, poolVars>>

(* Mutant: the handler of the URL, too, uses a pooled object.                 *)
UrlUpdatePooled(r) ==
  UrlUpdateIn(r, IF queue["single"] = <<>> THEN r ELSE Head(queue["single"]))

(* UpdateHandler: the object is its own.                                      *)
UrlUpdate(r) == UrlUpdateIn(r, r)

-------------------------------------------------------------------------------
(* The answer, and the end.                                                   *)

(* Metrics.Reset writes zero where the pointers point, MetricsGroup.Reset     *)
(* only cuts the slice.                                                       *)
Zeroed(n) == IF n = Nil THEN Nil ELSE 0

(* Mutants: the name is left, or the numbers are; the slots of a group are    *)
(* reset one by one.                                                          *)
ResetForgets(kind, slots) ==
  IF kind = "single"
  THEN [slots EXCEPT ![1] = [id |-> @.id, delta |-> Zeroed(@.delta), value |-> Zeroed(@.value)]]
  ELSE slots

ResetLeaves(kind, slots) ==
  IF kind = "single"
  THEN [slots EXCEPT ![1] = [id |-> NoId, delta |-> @.delta, value |-> @.value]]
  ELSE slots

ResetAll(kind, slots) ==
  [k \in 1 .. MaxItems |->
     [id |-> NoId, delta |-> Zeroed(slots[k].delta), value |-> Zeroed(slots[k].value)]]

Reset(kind, slots) ==
  IF kind = "single"
  THEN [slots EXCEPT ![1] = [id |-> NoId, delta |-> Zeroed(@.delta), value |-> Zeroed(@.value)]]
  ELSE slots

(* json.Marshal: the numbers of gauges are read now, where they are kept.     *)
(* Mutant: the object is put back first.                                      *)
AnswerAfterPut(r) ==
  [k \in DOMAIN back[r] |->
     LET c == back[r][k] IN
     IF c = NoCell THEN Nil
     ELSE IF c[1] = obj[r] THEN Reset(req[r].kind, slot[c[1]])[c[2]].value ELSE slot[c[1]][c[2]].value]

Answer(r) ==
  [k \in DOMAIN back[r] |-> LET c == back[r][k] IN IF c = NoCell THEN Nil ELSE slot[c[1]][c[2]].value]

Reply(r) ==
  /\ pc[r] = "reply"
  /\ reply' = [reply EXCEPT ![r] = Answer(r)]
  /\ status' = [status EXCEPT ![r] = "answered"]
  /\ pc' = [pc EXCEPT ![r] = "put"]
  /\ UNCHANGED <<req, idx, taken, poolVars, objectVars, storageVars>>

(* PoolNaive.Put, deferred.                                                   *)
Put(r) ==
  /\ pc[r] = "put"
  /\ LET o == obj[r]
         kind == req[r].kind
     IN  /\ slot' = [slot EXCEPT ![o] = Reset(kind, @)]
         /\ len' = [len EXCEPT ![o] = IF kind = "batch" THEN 0 ELSE @]
         /\ queue' = [queue EXCEPT ![kind] = Append(@, o)]
  /\ pc' = [pc EXCEPT ![r] = "done"]
  /\ UNCHANGED <<req, idx, taken, obj, user, shared, peak, storageVars, answerVars>>

-------------------------------------------------------------------------------
Handle(r) ==
  \/ Get(r) \/ Decode(r) \/ Decoded(r) \/ Refuse(r) \/ Call(r)
  \/ UpdateMetric(r) \/ UpdateBatchItem(r) \/ Reload(r) \/ UpdatedBatch(r) \/ UrlUpdate(r)
  \/ Reply(r) \/ Put(r)

Next == \E r \in Reqs : Handle(r)

Spec == Init /\ [][Next]_vars

-------------------------------------------------------------------------------
(* Properties.                                                               *)

Number == Nums \union {0}

TypeOK ==
  /\ req \in [Reqs -> Input]
  /\ pc \in [Reqs -> {"new", "done"} \union Holding]
  /\ obj \in [Reqs -> Reqs]
  /\ idx \in [Reqs -> 0 .. MaxItems] /\ taken \in [Reqs -> 0 .. MaxItems]
  /\ len \in [Reqs -> 0 .. MaxItems]
  /\ slot \in [Reqs -> [1 .. MaxItems -> [ id : IDs \union {NoId},
                                           delta : Number \union {Nil},
                                           value : Number \union {Nil} ]]]
  /\ queue \in [Pools -> Seq(Reqs)]
  /\ sum \in [Counters -> Nat]
  /\ cell \in [Gauges -> Cells \union {NoCell}]
  /\ failed \in [Reqs -> BOOLEAN]
  /\ status \in [Reqs -> {"none", "answered", "refused", "lost"}]
  /\ got \in [Reqs -> Seq([id : IDs \union {NoId}, num : Number \union {Nil}])]
  /\ back \in [Reqs -> Seq(Cells \union {NoCell})]
  /\ reply \in [Reqs -> Seq(Number \union {Nil})]
  /\ setBy \in [Gauges -> Cells \union {NoCell}]
  /\ passed \subseteq Cells
  /\ user \in [Reqs -> Reqs]
  /\ shared \in SUBSET Reqs
  /\ peak \in [Pools -> Nat]

(* A request that never held its object together with another one gives the   *)
(* storage as many items as its client sent, with the names and the numbers it*)
(* sent.  Of a single update nothing is taken that has no name; in a batch, a *)
(* name or a number it does not send is none, or one that another request with*)
(* this object has sent at this place.                                        *)
Users(o) == {q \in Reqs : obj[q] = o /\ pc[q] # "new"}

SentAt(o, k) == {Items(q)[k] : q \in {q \in Users(o) : k <= Len(Items(q))}}

TakenAsSent ==
  \A r \in Reqs \ shared :
    /\ Len(got[r]) <= Len(Items(r))
    /\ \A k \in DOMAIN got[r] :
         LET sent == Items(r)[k]
             id   == got[r][k].id
             num  == got[r][k].num
         IN  /\ sent.id # Missing => id = sent.id
             /\ sent.id = Missing =>
                  req[r].kind = "batch" /\ id \in {NoId} \union {s.id : s \in SentAt(obj[r], k)}
             /\ id # NoId /\ NumberOf(id, sent) # Missing => num = NumberOf(id, sent)
             /\ id # NoId /\ NumberOf(id, sent) = Missing /\ req[r].kind = "batch" =>
                  num \in {Nil} \union {NumberOf(id, s) : s \in SentAt(obj[r], k)}

(* A single update without its number is refused or, with an object that has  *)
(* been used, taken for zero; it never takes the number of another request.   *)
SingleMissingAddsNothing ==
  \A r \in Reqs \ shared :
    /\ req[r].kind = "single" /\ got[r] # <<>>
    /\ NumberOf(got[r][1].id, Items(r)[1]) = Missing
    => got[r][1].num = 0

(* Such a request is told of a gauge the number it sent, unless another one   *)
(* has set that gauge before the storage read it again for the answer.        *)
AnsweredAsSent ==
  \A r \in Reqs \ shared : \A k \in DOMAIN reply[r] :
    got[r][k].id \in Gauges /\ Items(r)[k].value # Missing /\ <<r, k>> \notin passed
    => reply[r][k] = Items(r)[k].value

Value(g)  == LET c == cell[g] IN slot[c[1]][c[2]].value
SetTo(g)  == LET c == setBy[g] IN Items(c[1])[c[2]]
Setter(g) == setBy[g][1]
IsSet(g)  == setBy[g] # NoCell

(* What the URL has set stays until the gauge is set again: none of the other *)
(* handlers writes there.                                                     *)
UrlGaugeKept ==
  \A g \in Gauges :
    IsSet(g) /\ req[Setter(g)].kind = "url" => Value(g) = SetTo(g).value

(* What a batch has set stays until its object is handed out again.           *)
GaugeKeptTillReuse ==
  \A g \in Gauges :
    /\ IsSet(g)
    /\ req[Setter(g)].kind = "batch"
    /\ Setter(g) \notin shared
    /\ user[obj[Setter(g)]] = Setter(g)
    /\ SetTo(g).value # Missing
    => Value(g) = SetTo(g).value

Quiet == \A r \in Reqs : pc[r] \in {"new", "done"}
Layout(r) == [k \in DOMAIN Items(r) |-> Items(r)[k].id]

(* A client whose batches all name the same metrics in the same order, one    *)
(* batch at a time and none refused, finds in every gauge the last number it  *)
(* sent: the slot of the object that is written again is the gauge's own.     *)
GaugesKeptSameLayout ==
  LET seen == {r \in Reqs : pc[r] # "new"}
  IN  /\ Quiet /\ shared = {}
      /\ \A r \in seen : req[r].kind = "batch" /\ status[r] = "answered"
      /\ \A r, q \in seen : Layout(r) = Layout(q)
      /\ \A r \in seen : \A k \in DOMAIN Items(r) :
           Layout(r)[k] # Missing /\ NumberOf(Layout(r)[k], Items(r)[k]) # Missing
      => \A g \in Gauges : IsSet(g) => Value(g) = SetTo(g).value

(* A pool keeps one object more, at most, than have ever been in use at once. *)
PoolBounded ==
  \A p \in Pools : Len(queue[p]) + Cardinality(Pooled(p)) <= 1 + peak[p]

(* When no request is at work, a gauge reads what was last sent for it.       *)
GaugesRead ==
  Quiet => \A g \in Gauges : IsSet(g) /\ SetTo(g).value # Missing => Value(g) = SetTo(g).value
=============================================================================
