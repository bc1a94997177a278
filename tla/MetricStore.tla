----------------------------- MODULE MetricStore -----------------------------
(***************************************************************************)
(* What a storage of the server (StorageInterface, internal/storage/       *)
(* storage.go) promises the handlers, whichever of the two it is: which of *)
(* the metrics of a call take effect, how often, and what the caller may   *)
(* be told of it.                                                          *)
(*                                                                         *)
(*   - the metrics of a call take effect in their order, several at once   *)
(*     or one after the other, so that what has is always the first part;  *)
(*   - one that has may do so again, up to a number the storage names;     *)
(*   - "ok" is said when all have; after it no more of them follow;        *)
(*   - "refused" is said when none has, and none does later;               *)
(*   - "error", or no answer at all, says nothing.                         *)
(*                                                                         *)
(* What a metric does to its row or entry is the storage's own subject.    *)
(***************************************************************************)
EXTENDS Naturals

CONSTANT Calls     (* the calls of the storage                               *)

VARIABLES
  call,     (* what each is: the metrics it has a type for, how often one of  *)
            (* them may take effect, and whether these are all its metrics    *)
  effect,   (* how often each metric of a call has taken effect               *)
  answer    (* what its caller was told                                       *)

Kind == [items : SUBSET (Nat \ {0}), times : Nat \ {0}, complete : BOOLEAN]

storeVars == <<effect, answer>>

Init ==
  /\ call \in [Calls -> Kind]
  /\ effect = [c \in Calls |-> [k \in call[c].items |-> 0]]
  /\ answer = [c \in Calls |-> "none"]

(* A first part of the metrics, as far as they have not, takes effect.        *)
FirstPart(items, P) == P \subseteq items /\ \A k \in P, j \in items : j < k => j \in P

TakeEffect(c) ==
  /\ answer[c] \notin {"ok", "refused"}
  /\ \E P \in SUBSET call[c].items :
       /\ FirstPart(call[c].items, P)
       /\ \E k \in P : effect[c][k] = 0
       /\ effect' = [effect EXCEPT ![c] =
                       [j \in call[c].items |-> IF j \in P /\ @[j] = 0 THEN 1 ELSE @[j]]]
  /\ UNCHANGED answer

(* A metric takes effect once more: it was tried again.                       *)
Again(c) ==
  /\ \E k \in call[c].items :
       /\ effect[c][k] \in 1 .. call[c].times - 1
       /\ effect' = [effect EXCEPT ![c][k] = @ + 1]
  /\ UNCHANGED answer

Tell(c, what) ==
  /\ answer[c] = "none"
  /\ what = "ok" => call[c].complete /\ \A k \in call[c].items : effect[c][k] > 0
  /\ what = "refused" => \A k \in call[c].items : effect[c][k] = 0
  /\ answer' = [answer EXCEPT ![c] = what]
  /\ UNCHANGED effect

(* The process ends: the callers it was at work for are not answered.         *)
Crash ==
  /\ \E C \in SUBSET Calls :
       answer' = [c \in Calls |-> IF c \in C /\ answer[c] = "none" THEN "error" ELSE answer[c]]
  /\ UNCHANGED effect

Next ==
  /\ \/ effect' # effect /\ \E c \in Calls : TakeEffect(c) \/ Again(c)
     \/ /\ answer' # answer
        /\ Crash \/ \E c \in Calls, what \in {"ok", "refused", "error"} : Tell(c, what)
  /\ UNCHANGED call

Spec == Init /\ [][Next]_<<call, storeVars>>
==============================================================================
