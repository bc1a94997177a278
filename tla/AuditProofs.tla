------------------------------ MODULE AuditProofs ------------------------------
(***************************************************************************)
(* What the audit promises for any number of batches, any size of AuditCh, *)
(* any configuration and any faults: no batch is applied before its entry  *)
(* is sent, and a process that dies has applied at most AuditCap + 1       *)
(* batches that its audit file does not tell of.                           *)
(***************************************************************************)
EXTENDS Audit, FiniteSetTheorems, SequenceTheorems, WellFoundedInduction, TLAPS

-------------------------------------------------------------------------------
(* Sequences as sets of entries.                                             *)

(* Appending an entry adds it to the set, and changes nothing else.          *)
LEMMA EntriesAppend ==
  ASSUME NEW S, NEW s \in Seq(S), NEW x \in S
  PROVE  Entries(Append(s, x)) = Entries(s) \union {x}
<1>1. /\ DOMAIN Append(s, x) = 1 .. Len(s) + 1
      /\ \A k \in DOMAIN s : Append(s, x)[k] = s[k]
      /\ Append(s, x)[Len(s) + 1] = x
      /\ DOMAIN s = 1 .. Len(s) /\ Len(s) \in Nat
  OBVIOUS
<1>2. DOMAIN Append(s, x) = DOMAIN s \union {Len(s) + 1}
  BY <1>1
<1>3. QED
  BY <1>1, <1>2 DEF Entries

(* What is in a queue is its head or behind it.                              *)
LEMMA EntriesHeadTail ==
  ASSUME NEW S, NEW s \in Seq(S), s # <<>>
  PROVE  Entries(s) = Entries(Tail(s)) \union {Head(s)}
<1>1. /\ DOMAIN s = 1 .. Len(s) /\ Len(s) \in Nat \ {0}
      /\ DOMAIN Tail(s) = 1 .. Len(s) - 1
      /\ Head(s) = s[1]
      /\ \A k \in DOMAIN Tail(s) : Tail(s)[k] = s[k + 1]
  OBVIOUS
<1>2. \A k \in DOMAIN Tail(s) : k + 1 \in DOMAIN s
  BY <1>1
<1>3. \A k \in DOMAIN s \ {1} : k - 1 \in DOMAIN Tail(s) /\ (k - 1) + 1 = k
  BY <1>1
<1>4. Entries(Tail(s)) \union {Head(s)} \subseteq Entries(s)
  BY <1>1, <1>2 DEF Entries
<1>5. Entries(s) \subseteq Entries(Tail(s)) \union {Head(s)}
  <2>1. ASSUME NEW k \in DOMAIN s, k # 1
        PROVE  s[k] \in Entries(Tail(s))
    <3>1. k - 1 \in DOMAIN Tail(s) /\ Tail(s)[k - 1] = s[k]
      BY <1>1, <1>3, <2>1
    <3>2. QED  BY <3>1 DEF Entries
  <2>2. ASSUME NEW k \in DOMAIN s
        PROVE  s[k] \in Entries(Tail(s)) \union {Head(s)}
    <3>1. k = 1 => s[k] = Head(s)
      BY <1>1
    <3>2. QED  BY <2>1, <3>1
  <2>3. QED  BY <2>2 DEF Entries
<1>6. QED
  BY <1>4, <1>5

(* A queue holds no more different entries than its length.                  *)
LEMMA EntriesCardinality ==
  ASSUME NEW S, NEW s \in Seq(S)
  PROVE  /\ IsFiniteSet(Entries(s))
         /\ Cardinality(Entries(s)) \in Nat
         /\ Cardinality(Entries(s)) <= Len(s)
<1>1. Len(s) \in Nat /\ DOMAIN s = 1 .. Len(s)
  OBVIOUS
<1>2. IsFiniteSet(1 .. Len(s)) /\ Cardinality(1 .. Len(s)) = Len(s)
  BY <1>1, FS_Interval
<1>3. [k \in 1 .. Len(s) |-> s[k]] \in Surjection(1 .. Len(s), Entries(s))
  BY <1>1 DEF Surjection, Entries
<1>4. QED
  BY <1>1, <1>2, <1>3, FS_Surjection, FS_CardinalityType

(* A line written to the file adds its entry to those in the file, if it was  *)
(* written as a whole; nothing leaves the file.                               *)
LEMMA InFileAppend ==
  ASSUME log \in Seq([entry : Reqs, whole : BOOLEAN]),
         NEW line \in [entry : Reqs, whole : BOOLEAN], log' = Append(log, line)
  PROVE  /\ InFile \subseteq InFile'
         /\ line.whole => line.entry \in InFile'
<1>1. /\ DOMAIN log' = 1 .. Len(log) + 1
      /\ \A k \in DOMAIN log : log'[k] = log[k]
      /\ log'[Len(log) + 1] = line
      /\ DOMAIN log = 1 .. Len(log) /\ Len(log) \in Nat
  OBVIOUS
<1>2. \A k \in DOMAIN log : k \in DOMAIN log'
  BY <1>1
<1>3. InFile \subseteq InFile'
  BY <1>1, <1>2 DEF InFile, Whole
<1>4. ASSUME line.whole
      PROVE  line.entry \in InFile'
  <2>1. Len(log) + 1 \in DOMAIN log' /\ log'[Len(log) + 1] = line
    BY <1>1
  <2>2. QED  BY <1>4, <2>1 DEF InFile, Whole
<1>5. QED
  BY <1>3, <1>4

-------------------------------------------------------------------------------
(* Induction, over numbers and over sequences.                               *)

(* Every set of numbers has a least one.                                     *)
LEMMA Least ==
  ASSUME NEW T, T \subseteq Nat, T # {}
  PROVE  \E x \in T : \A y \in T : ~ (y < x)
<1>1. IsWellFoundedOn(OpToRel(<, Nat), Nat)
  BY NatLessThanWellFounded
<1>2. \E x \in T : \A y \in T : ~ (<<y, x>> \in OpToRel(<, Nat))
  BY <1>1, WFMin
<1>3. \A x, y \in T : y < x => <<y, x>> \in OpToRel(<, Nat)
  BY DEF OpToRel
<1>4. QED  BY <1>2, <1>3

(* What holds of 0, and of every next number, holds of every number.         *)
LEMMA NatSteps ==
  ASSUME NEW S, 0 \in S, \A n \in Nat : n \in S => n + 1 \in S
  PROVE  \A n \in Nat : n \in S
<1> SUFFICES ASSUME Nat \ S # {} PROVE FALSE
  OBVIOUS
<1>1. PICK x \in Nat \ S : \A y \in Nat \ S : ~ (y < x)
  BY Least
<1>2. x # 0 /\ x - 1 \in Nat
  BY <1>1
<1>3. x - 1 \in S
  BY <1>1, <1>2
<1>4. QED  BY <1>1, <1>2, <1>3

(* A queue that is not empty has a last entry.                               *)
LEMMA Appended ==
  ASSUME NEW T, NEW s \in Seq(T), Len(s) # 0
  PROVE  \E t \in Seq(T), x \in T : s = Append(t, x) /\ Len(s) = Len(t) + 1
<1> DEFINE n == Len(s)
           t == [k \in 1 .. n - 1 |-> s[k]]
<1>1. n \in Nat \ {0} /\ n - 1 \in Nat /\ s[n] \in T /\ s = [k \in 1 .. n |-> s[k]]
  OBVIOUS
<1>2. t \in Seq(T) /\ Len(t) = n - 1
  <2>1. \A k \in 1 .. n - 1 : s[k] \in T
    BY <1>1
  <2>2. QED  BY <1>1, <2>1
<1>3. s = Append(t, s[n])
  <2>1. /\ DOMAIN Append(t, s[n]) = 1 .. n
        /\ \A k \in 1 .. n : Append(t, s[n])[k] = s[k]
    BY <1>1, <1>2
  <2>2. Append(t, s[n]) \in Seq(T) /\ Len(Append(t, s[n])) = n
    BY <1>1, <1>2
  <2>3. Append(t, s[n]) = [k \in 1 .. n |-> Append(t, s[n])[k]]
    BY <2>1, <2>2
  <2> HIDE DEF t, n
  <2>4. [k \in 1 .. n |-> Append(t, s[n])[k]] = [k \in 1 .. n |-> s[k]]
    BY <2>1
  <2>5. QED  BY <1>1, <2>3, <2>4
<1>4. Len(s) = Len(t) + 1
  BY <1>1, <1>2
<1>5. QED
  <2> HIDE DEF t
  <2>1. QED  BY <1>1, <1>2, <1>3, <1>4

(* What holds of the empty queue, and still holds when an entry is appended,  *)
(* holds of every queue.                                                     *)
LEMMA SeqSteps ==
  ASSUME NEW T, NEW Good, <<>> \in Good,
         \A s \in Seq(T), x \in T : s \in Good => Append(s, x) \in Good
  PROVE  \A s \in Seq(T) : s \in Good
<1> DEFINE R == {n \in Nat : \A s \in Seq(T) : Len(s) = n => s \in Good}
<1>1. 0 \in R
  BY EmptySeq
<1>2. ASSUME NEW n \in Nat, n \in R
      PROVE  n + 1 \in R
  <2>1. ASSUME NEW s \in Seq(T), Len(s) = n + 1
        PROVE  s \in Good
    <3>1. PICK t \in Seq(T), x \in T : s = Append(t, x) /\ Len(s) = Len(t) + 1
      BY <2>1, Appended
    <3>2. Len(t) = n
      BY <2>1, <3>1
    <3>3. QED  BY <1>2, <3>1, <3>2
  <2>2. QED  BY <2>1
<1>3. \A n \in Nat : n \in R
  <2> HIDE DEF R
  <2>1. QED  BY <1>1, <1>2, NatSteps
<1>4. QED  BY <1>3

-------------------------------------------------------------------------------
(* Those entries of a queue that are in a set.                               *)

(* What the definition of Those names kept, point by point.                  *)
Keeps(f, s, S) ==
  /\ f = [k \in 0 .. Len(s) |-> f[k]]
  /\ f[0] = <<>>
  /\ \A k \in 1 .. Len(s) :
       f[k] = IF s[k] \in S THEN Append(f[k - 1], s[k]) ELSE f[k - 1]

(* What was kept of a queue is kept when an entry is appended to it.         *)
LEMMA KeepsAppend ==
  ASSUME NEW T, NEW S, NEW s \in Seq(T), NEW x \in T, NEW f, Keeps(f, s, S)
  PROVE  LET v == IF x \in S THEN Append(f[Len(s)], x) ELSE f[Len(s)]
             g == [k \in 0 .. Len(s) + 1 |-> IF k = Len(s) + 1 THEN v ELSE f[k]]
         IN  Keeps(g, Append(s, x), S)
<1> DEFINE n == Len(s)
           v == IF x \in S THEN Append(f[n], x) ELSE f[n]
           g == [k \in 0 .. n + 1 |-> IF k = n + 1 THEN v ELSE f[k]]
           a == Append(s, x)
<1>1. a \in Seq(T) /\ Len(a) = n + 1 /\ a[n + 1] = x /\ \A k \in 1 .. n : a[k] = s[k]
  BY AppendProperties
<1>2. n \in Nat
  OBVIOUS
<1>3. /\ f[0] = <<>>
      /\ \A k \in 1 .. n : f[k] = IF s[k] \in S THEN Append(f[k - 1], s[k]) ELSE f[k - 1]
  BY DEF Keeps
<1>4. g[n + 1] = v /\ \A k \in 0 .. n : g[k] = f[k]
  <2> HIDE DEF v
  <2>1. QED  BY <1>2
<1>5. g = [k \in 0 .. n + 1 |-> g[k]]
  OBVIOUS
<1> HIDE DEF g, a, v
<1>6. ASSUME NEW k \in 1 .. n + 1
      PROVE  g[k] = IF a[k] \in S THEN Append(g[k - 1], a[k]) ELSE g[k - 1]
  <2>1. CASE k = n + 1
    <3>1. k - 1 = n /\ g[k - 1] = f[n] /\ a[k] = x /\ g[k] = v
      BY <1>1, <1>2, <1>4, <2>1
    <3>2. QED  BY <3>1 DEF v
  <2>2. CASE k \in 1 .. n
    <3>1. k \in 0 .. n /\ k - 1 \in 0 .. n
      BY <1>2, <2>2
    <3>2. g[k] = f[k] /\ g[k - 1] = f[k - 1] /\ a[k] = s[k]
      BY <1>1, <1>4, <2>2, <3>1
    <3>3. QED  BY <1>3, <2>2, <3>2
  <2>3. QED  BY <1>2, <2>1, <2>2
<1>7. g[0] = <<>>
  BY <1>2, <1>3, <1>4
<1>8. Keeps(g, a, S)
  <2>1. g = [k \in 0 .. Len(a) |-> g[k]]
    BY <1>1, <1>5
  <2>2. \A k \in 1 .. Len(a) : g[k] = IF a[k] \in S THEN Append(g[k - 1], a[k]) ELSE g[k - 1]
    BY <1>1, <1>6
  <2>3. QED  BY <1>1, <1>7, <2>1, <2>2 DEF Keeps
<1>9. QED  BY <1>8 DEF g, a, v

LEMMA KeepsExists ==
  ASSUME NEW T, NEW S
  PROVE  \A s \in Seq(T) : \E f : Keeps(f, s, S)
<1> DEFINE Good == {s \in Seq(T) : \E f : Keeps(f, s, S)}
<1>1. <<>> \in Good
  <2> DEFINE f == [k \in 0 .. 0 |-> <<>>]
  <2>1. f = [k \in 0 .. 0 |-> f[k]] /\ f[0] = <<>> /\ <<>> \in Seq(T) /\ Len(<<>>) = 0
    BY EmptySeq
  <2> HIDE DEF f
  <2>2. f = [k \in 0 .. Len(<<>>) |-> f[k]] /\ \A k \in 1 .. Len(<<>>) : FALSE
    BY <2>1
  <2>3. Keeps(f, <<>>, S)
    BY <2>1, <2>2 DEF Keeps
  <2>4. QED  BY <2>1, <2>3
<1>2. ASSUME NEW s \in Seq(T), NEW x \in T, s \in Good
      PROVE  Append(s, x) \in Good
  <2>1. PICK f : Keeps(f, s, S)
    BY <1>2
  <2>2. \E g : Keeps(g, Append(s, x), S)
    BY <2>1, KeepsAppend
  <2>3. QED  BY <2>2
<1>3. \A s \in Seq(T) : s \in Good
  <2> HIDE DEF Good
  <2>1. QED  BY <1>1, <1>2, SeqSteps
<1>4. QED  BY <1>3

(* Only one function is what Those names kept.                               *)
LEMMA KeepsUnique ==
  ASSUME NEW T, NEW S, NEW s \in Seq(T), NEW f, NEW g, Keeps(f, s, S), Keeps(g, s, S)
  PROVE  f = g
<1> DEFINE R == {n \in Nat : n \in 0 .. Len(s) => f[n] = g[n]}
<1>1. Len(s) \in Nat
  OBVIOUS
<1>2. /\ f = [k \in 0 .. Len(s) |-> f[k]] /\ f[0] = <<>>
      /\ \A k \in 1 .. Len(s) : f[k] = IF s[k] \in S THEN Append(f[k - 1], s[k]) ELSE f[k - 1]
  BY DEF Keeps
<1>3. /\ g = [k \in 0 .. Len(s) |-> g[k]] /\ g[0] = <<>>
      /\ \A k \in 1 .. Len(s) : g[k] = IF s[k] \in S THEN Append(g[k - 1], s[k]) ELSE g[k - 1]
  BY DEF Keeps
<1>4. 0 \in R
  BY <1>2, <1>3
<1>5. ASSUME NEW n \in Nat, n \in R
      PROVE  n + 1 \in R
  <2>1. ASSUME n + 1 \in 0 .. Len(s)
        PROVE  f[n + 1] = g[n + 1]
    <3>1. n + 1 \in 1 .. Len(s) /\ n \in 0 .. Len(s) /\ (n + 1) - 1 = n
      BY <1>1, <2>1
    <3>2. f[n] = g[n]
      BY <1>5, <3>1
    <3>3. f[n + 1] = IF s[n + 1] \in S THEN Append(f[n], s[n + 1]) ELSE f[n]
      BY <1>2, <3>1
    <3>4. g[n + 1] = IF s[n + 1] \in S THEN Append(g[n], s[n + 1]) ELSE g[n]
      BY <1>3, <3>1
    <3>5. QED  BY <3>2, <3>3, <3>4
  <2>2. QED  BY <2>1
<1>6. \A n \in Nat : n \in R
  <2> HIDE DEF R
  <2>1. QED  BY <1>4, <1>5, NatSteps
<1>7. \A k \in 0 .. Len(s) : f[k] = g[k]
  BY <1>1, <1>6
<1>8. QED  BY <1>2, <1>3, <1>7

LEMMA ThoseKeeps ==
  ASSUME NEW T, NEW S, NEW s \in Seq(T), NEW f, Keeps(f, s, S)
  PROVE  Those(s, S) = f[Len(s)]
<1> DEFINE v(g, k) == IF k = 0 THEN <<>>
                      ELSE IF s[k] \in S THEN Append(g[k - 1], s[k]) ELSE g[k - 1]
           F == CHOOSE g : g = [k \in 0 .. Len(s) |-> v(g, k)]
<1>1. Those(s, S) = F[Len(s)]
  BY DEF Those
<1>2. Len(s) \in Nat /\ \A k \in 0 .. Len(s) : k = 0 \/ k \in 1 .. Len(s)
  OBVIOUS
<1>3. f = [k \in 0 .. Len(s) |-> v(f, k)]
  <2>1. \A k \in 0 .. Len(s) : f[k] = v(f, k)
    BY <1>2 DEF Keeps
  <2>2. f = [k \in 0 .. Len(s) |-> f[k]]
    BY DEF Keeps
  <2> HIDE DEF v
  <2>3. QED  BY <2>1, <2>2
<1>4. F = [k \in 0 .. Len(s) |-> v(F, k)]
  <2> HIDE DEF v
  <2>1. QED  BY <1>3
<1>5. Keeps(F, s, S)
  <2> HIDE DEF v, F
  <2>1. F = [k \in 0 .. Len(s) |-> F[k]] /\ \A k \in 0 .. Len(s) : F[k] = v(F, k)
    BY <1>4
  <2>2. v(F, 0) = <<>> /\ \A k \in 1 .. Len(s) :
          k \in 0 .. Len(s) /\ v(F, k) = IF s[k] \in S THEN Append(F[k - 1], s[k]) ELSE F[k - 1]
    BY <1>2 DEF v
  <2>3. F[0] = <<>>
    BY <1>2, <2>1, <2>2
  <2>4. \A k \in 1 .. Len(s) :
          F[k] = IF s[k] \in S THEN Append(F[k - 1], s[k]) ELSE F[k - 1]
    <3>1. \A k \in 1 .. Len(s) : F[k] = v(F, k)
      BY <2>1, <2>2
    <3>2. QED  BY <2>2, <3>1
  <2>5. QED  BY <2>1, <2>3, <2>4 DEF Keeps
<1>6. F = f
  <2> HIDE DEF F
  <2>1. QED  BY <1>5, KeepsUnique
<1>7. QED  BY <1>1, <1>6

(* Those of an empty queue: none.                                            *)
LEMMA ThoseEmpty ==
  ASSUME NEW S
  PROVE  Those(<<>>, S) = <<>>
<1>1. <<>> \in Seq({}) /\ Len(<<>>) = 0
  BY EmptySeq
<1>2. PICK f : Keeps(f, <<>>, S)
  BY <1>1, KeepsExists
<1>3. f[0] = <<>>
  BY <1>2 DEF Keeps
<1>4. Those(<<>>, S) = f[Len(<<>>)]
  <2> DEFINE e == <<>>
  <2>1. e \in Seq({}) /\ Keeps(f, e, S)
    BY <1>1, <1>2
  <2> HIDE DEF e
  <2>2. Those(e, S) = f[Len(e)]
    BY <2>1, ThoseKeeps
  <2>3. QED  BY <2>2 DEF e
<1>5. QED  BY <1>1, <1>3, <1>4

(* An entry that is appended is the last of those in S, if it is in S.       *)
LEMMA ThoseAppend ==
  ASSUME NEW T, NEW S, NEW s \in Seq(T), NEW x \in T
  PROVE  Those(Append(s, x), S) = IF x \in S THEN Append(Those(s, S), x) ELSE Those(s, S)
<1>1. PICK f : Keeps(f, s, S)
  BY KeepsExists
<1> DEFINE v == IF x \in S THEN Append(f[Len(s)], x) ELSE f[Len(s)]
           g == [k \in 0 .. Len(s) + 1 |-> IF k = Len(s) + 1 THEN v ELSE f[k]]
<1>2. Keeps(g, Append(s, x), S)
  BY <1>1, KeepsAppend
<1>3. Append(s, x) \in Seq(T) /\ Len(Append(s, x)) = Len(s) + 1 /\ Len(s) \in Nat
  BY AppendProperties
<1>4. g[Len(s) + 1] = v
  <2> HIDE DEF v
  <2>1. QED  BY <1>3
<1>5. Those(s, S) = f[Len(s)]
  BY <1>1, ThoseKeeps
<1>6. Those(Append(s, x), S) = g[Len(s) + 1]
  <2> HIDE DEF g
  <2>1. QED  BY <1>2, <1>3, ThoseKeeps
<1>7. QED  BY <1>4, <1>5, <1>6

(* Those are the entries of the queue that are in S.                         *)
LEMMA ThoseEntries ==
  ASSUME NEW T, NEW S
  PROVE  \A s \in Seq(T) : Those(s, S) \in Seq(T) /\ Entries(Those(s, S)) = Entries(s) \intersect S
<1> DEFINE Good == {s \in Seq(T) : /\ Those(s, S) \in Seq(T)
                                   /\ Entries(Those(s, S)) = Entries(s) \intersect S}
<1>1. <<>> \in Good
  <2>1. <<>> \in Seq(T) /\ Those(<<>>, S) = <<>> /\ Entries(<<>>) = {}
    BY EmptySeq, ThoseEmpty DEF Entries
  <2>2. QED  BY <2>1
<1>2. ASSUME NEW s \in Seq(T), NEW x \in T, s \in Good
      PROVE  Append(s, x) \in Good
  <2> DEFINE k == Those(s, S)
  <2>1. k \in Seq(T) /\ Entries(k) = Entries(s) \intersect S
    BY <1>2
  <2>2. Append(s, x) \in Seq(T) /\ Entries(Append(s, x)) = Entries(s) \union {x}
    BY EntriesAppend, AppendProperties
  <2>3. Those(Append(s, x), S) = IF x \in S THEN Append(k, x) ELSE k
    BY ThoseAppend
  <2> HIDE DEF k
  <2>4. Append(k, x) \in Seq(T) /\ Entries(Append(k, x)) = Entries(k) \union {x}
    BY <2>1, EntriesAppend, AppendProperties
  <2>5. CASE x \in S
    BY <2>1, <2>2, <2>3, <2>4, <2>5
  <2>6. CASE x \notin S
    BY <2>1, <2>2, <2>3, <2>6
  <2>7. QED  BY <2>5, <2>6
<1>3. \A s \in Seq(T) : s \in Good
  <2> HIDE DEF Good
  <2>1. QED  BY <1>1, <1>2, SeqSteps
<1>4. QED  BY <1>3

(* Of two queues, one behind the other, those of the first come first.       *)
LEMMA ThoseBehind ==
  ASSUME NEW T, NEW S, NEW a \in Seq(T)
  PROVE  \A b \in Seq(T) : Those(a \o b, S) = Those(a, S) \o Those(b, S)
<1> DEFINE Good == {b \in Seq(T) : Those(a \o b, S) = Those(a, S) \o Those(b, S)}
<1>0. Those(a, S) \in Seq(T)
  BY ThoseEntries
<1>1. <<>> \in Good
  <2>1. <<>> \in Seq(T) /\ Those(<<>>, S) = <<>> /\ a \o <<>> = a /\ Those(a, S) \o <<>> = Those(a, S)
    BY <1>0, EmptySeq, ThoseEmpty
  <2>2. QED  BY <2>1
<1>2. ASSUME NEW b \in Seq(T), NEW x \in T, b \in Good
      PROVE  Append(b, x) \in Good
  <2> DEFINE ka == Those(a, S)
             kb == Those(b, S)
  <2>1. ka \in Seq(T) /\ kb \in Seq(T) /\ Those(a \o b, S) = ka \o kb
    BY <1>0, <1>2, ThoseEntries
  <2>2. a \o b \in Seq(T) /\ Append(b, x) \in Seq(T) /\ a \o Append(b, x) = Append(a \o b, x)
    BY AppendProperties
  <2>3. Those(Append(a \o b, x), S) = IF x \in S THEN Append(Those(a \o b, S), x) ELSE Those(a \o b, S)
    <3> DEFINE ab == a \o b
    <3>1. ab \in Seq(T)
      BY <2>2
    <3> HIDE DEF ab
    <3>2. Those(Append(ab, x), S) = IF x \in S THEN Append(Those(ab, S), x) ELSE Those(ab, S)
      BY <3>1, ThoseAppend
    <3>3. QED  BY <3>2 DEF ab
  <2>4. Those(Append(b, x), S) = IF x \in S THEN Append(kb, x) ELSE kb
    BY ThoseAppend
  <2> HIDE DEF ka, kb
  <2>5. ka \o Append(kb, x) = Append(ka \o kb, x)
    BY <2>1
  <2>6. Those(a \o Append(b, x), S) = ka \o Those(Append(b, x), S)
    BY <2>1, <2>2, <2>3, <2>4, <2>5
  <2>7. QED  BY <2>2, <2>6 DEF ka
<1>3. \A b \in Seq(T) : b \in Good
  <2> HIDE DEF Good
  <2>1. QED  BY <1>1, <1>2, SeqSteps
<1>4. QED  BY <1>3

(* Those of those are the entries that are in both sets.                     *)
LEMMA ThoseOfThose ==
  ASSUME NEW T, NEW S, NEW U
  PROVE  \A s \in Seq(T) : Those(Those(s, S), U) = Those(s, S \intersect U)
<1> DEFINE Good == {s \in Seq(T) : Those(Those(s, S), U) = Those(s, S \intersect U)}
<1>1. <<>> \in Good
  BY EmptySeq, ThoseEmpty
<1>2. ASSUME NEW s \in Seq(T), NEW x \in T, s \in Good
      PROVE  Append(s, x) \in Good
  <2> DEFINE k == Those(s, S)
             m == Those(s, S \intersect U)
  <2>1. k \in Seq(T) /\ Those(k, U) = m
    BY <1>2, ThoseEntries
  <2>2. Append(s, x) \in Seq(T)
    BY AppendProperties
  <2>3. Those(Append(s, x), S) = IF x \in S THEN Append(k, x) ELSE k
    BY ThoseAppend
  <2>4. Those(Append(s, x), S \intersect U) = IF x \in S \intersect U THEN Append(m, x) ELSE m
    BY ThoseAppend
  <2> HIDE DEF k, m
  <2>5. Those(Append(k, x), U) = IF x \in U THEN Append(Those(k, U), x) ELSE Those(k, U)
    BY <2>1, ThoseAppend
  <2>6. Those(Those(Append(s, x), S), U) = Those(Append(s, x), S \intersect U)
    <3>1. CASE x \in S
      BY <2>1, <2>3, <2>4, <2>5, <3>1
    <3>2. CASE x \notin S
      BY <2>1, <2>3, <2>4, <3>2
    <3>3. QED  BY <3>1, <3>2
  <2>7. QED  BY <2>2, <2>6
<1>3. \A s \in Seq(T) : s \in Good
  <2> HIDE DEF Good
  <2>1. QED  BY <1>1, <1>2, SeqSteps
<1>4. QED  BY <1>3

(* Two sets that agree on the entries of a queue pick the same entries.      *)
LEMMA ThoseAgree ==
  ASSUME NEW T, NEW S, NEW U
  PROVE  \A s \in Seq(T) :
           (\A x \in Entries(s) : x \in S <=> x \in U) => Those(s, S) = Those(s, U)
<1> DEFINE Good == {s \in Seq(T) :
              (\A x \in Entries(s) : x \in S <=> x \in U) => Those(s, S) = Those(s, U)}
<1>1. <<>> \in Good
  BY EmptySeq, ThoseEmpty
<1>2. ASSUME NEW s \in Seq(T), NEW x \in T, s \in Good
      PROVE  Append(s, x) \in Good
  <2>1. ASSUME \A y \in Entries(Append(s, x)) : y \in S <=> y \in U
        PROVE  Those(Append(s, x), S) = Those(Append(s, x), U)
    <3>1. Entries(Append(s, x)) = Entries(s) \union {x}
      BY EntriesAppend
    <3>2. Those(s, S) = Those(s, U) /\ (x \in S <=> x \in U)
      BY <1>2, <2>1, <3>1
    <3>3. Those(Append(s, x), S) = IF x \in S THEN Append(Those(s, S), x) ELSE Those(s, S)
      BY ThoseAppend
    <3>4. Those(Append(s, x), U) = IF x \in U THEN Append(Those(s, U), x) ELSE Those(s, U)
      BY ThoseAppend
    <3>5. QED  BY <3>2, <3>3, <3>4
  <2>2. Append(s, x) \in Seq(T)
    BY AppendProperties
  <2>3. QED  BY <2>1, <2>2
<1>3. \A s \in Seq(T) : s \in Good
  <2> HIDE DEF Good
  <2>1. QED  BY <1>1, <1>2, SeqSteps
<1>4. QED  BY <1>3

(* A set with every entry of a queue picks the whole queue.                  *)
LEMMA ThoseAll ==
  ASSUME NEW T, NEW S
  PROVE  \A s \in Seq(T) : Entries(s) \subseteq S => Those(s, S) = s
<1> DEFINE Good == {s \in Seq(T) : Entries(s) \subseteq S => Those(s, S) = s}
<1>1. <<>> \in Good
  BY EmptySeq, ThoseEmpty
<1>2. ASSUME NEW s \in Seq(T), NEW x \in T, s \in Good
      PROVE  Append(s, x) \in Good
  <2>1. Entries(Append(s, x)) = Entries(s) \union {x}
    BY EntriesAppend
  <2>2. Those(Append(s, x), S) = IF x \in S THEN Append(Those(s, S), x) ELSE Those(s, S)
    BY ThoseAppend
  <2>3. Append(s, x) \in Seq(T)
    BY AppendProperties
  <2>4. QED  BY <1>2, <2>1, <2>2, <2>3
<1>3. \A s \in Seq(T) : s \in Good
  <2> HIDE DEF Good
  <2>1. QED  BY <1>1, <1>2, SeqSteps
<1>4. QED  BY <1>3

-------------------------------------------------------------------------------
(* Types.                                                                    *)

(* A queue that is emptied is a queue.                                       *)
LEMMA Emptied == \A S : <<>> \in Seq(S) /\ Len(<<>>) = 0
BY EmptySeq

(* The logger holds one entry while it works on it, and none else.           *)
LEMMA HandType ==
  ASSUME TypeOK, lpc \in {"write", "newline", "post"}
  PROVE  /\ Head(hand) \in Reqs
         /\ Entries(hand) = {Head(hand)}
<1>1. Len(hand) = 1
  BY DEF TypeOK
<1>2. hand \in Seq(Reqs) /\ hand # <<>>
  <2>1. hand \in Seq(Reqs)
    BY DEF TypeOK
  <2>2. QED  BY <1>1, <2>1
<1>3. Head(hand) \in Reqs /\ Head(hand) = hand[1]
  BY <1>2, HeadTailProperties
<1>4. DOMAIN hand = {1}
  BY <1>1, <1>2
<1>5. QED
  BY <1>3, <1>4 DEF Entries

(* A process that has ended has nobody at work, and nothing on the channel.   *)
Stopped == ~Running => lpc = "off" /\ ch = <<>> /\ InFlight = {}

Shape == TypeOK /\ Stopped

LEMMA DieShape ==
  ASSUME TypeOK, NEW how \in {"exited", "failed", "fault", "killed"}, Die(how)
  PROVE  /\ phase' = how
         /\ hpc' \in [Reqs -> {"new", "sending", "updating", "done"}]
         /\ status' \in [Reqs -> {"none", "answered", "refused", "lost"}]
         /\ ch' = <<>> /\ hand' = <<>> /\ lpc' = "off"
         /\ Len(ch') <= AuditCap
         /\ InFlight' = {}
<1>1. \A r \in Reqs : hpc'[r] \notin {"sending", "updating"}
  BY DEF TypeOK, Die, InFlight
<1>2. QED
  BY <1>1, AuditAssumption, Emptied DEF AuditAssumption, TypeOK, Die, InFlight

LEMMA InitShape == Init => Shape
<1>1. Init => TypeOK
  BY AuditAssumption, Emptied DEF AuditAssumption, Init, TypeOK
<1>2. Init => Stopped
  BY DEF Init, Stopped, Running
<1>3. QED  BY <1>1, <1>2 DEF Shape

LEMMA StepType ==
  ASSUME Shape, [Next]_vars
  PROVE  TypeOK'
<1> USE AuditAssumption, Emptied DEF AuditAssumption, Shape
<1>1. ASSUME NEW r \in Reqs, Arrive(r)
      PROVE  TypeOK'
  BY <1>1 DEF TypeOK, Arrive, loggerVars
<1>2. ASSUME NEW r \in Reqs, SendAudit(r)
      PROVE  TypeOK'
  <2>1. ch' \in Seq(Reqs) /\ Len(ch') <= AuditCap /\ sent' \in Seq(Reqs)
    BY <1>2 DEF TypeOK, SendAudit
  <2>2. QED  BY <1>2, <2>1 DEF TypeOK, SendAudit, loggerVars
<1>3. ASSUME NEW r \in Reqs, UpdateBatch(r)
      PROVE  TypeOK'
  BY <1>3 DEF TypeOK, UpdateBatch, loggerVars
<1>4. CASE Receive
  <2>1. ch' \in Seq(Reqs) /\ Len(ch') <= AuditCap /\ hand' \in Seq(Reqs) /\ Len(hand') = 1
    BY <1>4, HeadTailProperties DEF TypeOK, Receive
  <2>2. QED  BY <1>4, <2>1 DEF TypeOK, Receive, handlerVars
<1>5. CASE WriteEntry
  <2>1. Head(hand) \in Reqs
    BY <1>5, HandType DEF TypeOK, WriteEntry
  <2>2. \A b \in BOOLEAN : Line(b) \in [entry : Reqs, whole : BOOLEAN]
    BY <2>1 DEF Line
  <2>3. log' \in Seq([entry : Reqs, whole : BOOLEAN]) /\ skipped' \in SUBSET Reqs
    <3>1. \A b \in BOOLEAN : Append(log, Line(b)) \in Seq([entry : Reqs, whole : BOOLEAN])
      BY <2>2, AppendProperties DEF TypeOK
    <3>2. QED  BY <1>5, <2>1, <3>1 DEF TypeOK, WriteEntry
  <2>4. hand' \in Seq(Reqs) /\ Len(hand') = (IF lpc' \in {"off", "recv"} THEN 0 ELSE 1)
    BY <1>5 DEF TypeOK, WriteEntry, NextEntry
  <2>5. lpc' \in {"recv", "newline"}
    BY <1>5 DEF WriteEntry, NextEntry
  <2>6. QED  BY <1>5, <2>3, <2>4, <2>5 DEF TypeOK, WriteEntry, handlerVars
<1>6. CASE WriteNewline
  BY <1>6 DEF TypeOK, WriteNewline, NextEntry, handlerVars
<1>7. CASE Post
  <2>1. posted' \in Seq(Reqs)
    BY <1>7, HandType DEF TypeOK, Post
  <2>2. QED  BY <1>7, <2>1 DEF TypeOK, Post, NextEntry, handlerVars
<1>8. CASE PostFails
  <2>1. posted' \in Seq(Reqs)
    <3>1. Head(hand) \in Reqs /\ posted \in Seq(Reqs)
      BY <1>8, HandType DEF TypeOK, PostFails
    <3>2. QED  BY <1>8, <3>1, AppendProperties DEF PostFails
  <2>2. QED  BY <1>8, <2>1, DieShape DEF TypeOK, PostFails
<1>9. CASE Signal
  BY <1>9 DEF TypeOK, Signal, handlerVars, loggerVars
<1>10. CASE Exit
  BY <1>10, DieShape DEF TypeOK, Exit
<1>11. CASE DrainTimeout
  BY <1>11, DieShape DEF TypeOK, DrainTimeout
<1>12. CASE Kill
  BY <1>12, DieShape DEF TypeOK, Kill
<1>13. CASE Start
  <2>1. hand = <<>>
    BY <1>13 DEF Start, Stopped, TypeOK
  <2>2. lpc' \in {"off", "recv"} /\ log' \in {log, <<>>}
    BY <1>13 DEF Start, OpenAudit
  <2>3. log' \in Seq([entry : Reqs, whole : BOOLEAN])
    BY <2>2 DEF TypeOK
  <2>4. QED  BY <1>13, <2>1, <2>2, <2>3 DEF TypeOK, Start
<1>14. CASE UNCHANGED vars
  BY <1>14 DEF TypeOK, vars, handlerVars, loggerVars
<1>15. QED
  BY <1>1, <1>2, <1>3, <1>4, <1>5, <1>6, <1>7, <1>8, <1>9, <1>10, <1>11, <1>12, <1>13, <1>14
     DEF Next, Logger

LEMMA StepStopped ==
  ASSUME Shape, [Next]_vars
  PROVE  Stopped'
<1> USE DEF Stopped, Running, InFlight, Shape
<1>1. ASSUME NEW r \in Reqs, Arrive(r) \/ SendAudit(r) \/ UpdateBatch(r)
      PROVE  Stopped'
  BY <1>1 DEF Arrive, SendAudit, UpdateBatch, loggerVars
<1>2. CASE Logger
  BY <1>2 DEF Logger, Receive, WriteEntry, WriteNewline, Post, NextEntry, handlerVars
<1>3. CASE PostFails \/ Exit \/ DrainTimeout \/ Kill
  <2>1. \E how \in {"exited", "failed", "fault", "killed"} : Die(how)
    BY <1>3 DEF PostFails, Exit, DrainTimeout, Kill
  <2>2. QED  BY <2>1, DieShape
<1>4. CASE Signal
  BY <1>4 DEF Signal
<1>5. CASE Start
  BY <1>5 DEF Start
<1>6. CASE UNCHANGED vars
  BY <1>6 DEF vars, handlerVars, loggerVars
<1>7. QED
  BY <1>1, <1>2, <1>3, <1>4, <1>5, <1>6 DEF Next

LEMMA ShapeInvariant == Spec => []Shape
<1>1. Shape /\ [Next]_vars => Shape'
  BY StepType, StepStopped DEF Shape
<1>2. QED  BY InitShape, <1>1, PTL DEF Spec

(* Every variable keeps its type; AuditCh never holds more than AuditCap.     *)
THEOREM TypeInvariant == Spec => []TypeOK
<1>1. Shape => TypeOK
  BY DEF Shape
<1>2. QED  BY ShapeInvariant, <1>1, PTL

-------------------------------------------------------------------------------
(* What is sent, applied and written.                                        *)

(* A batch is past its send only when its entry is sent.                      *)
SentFirst == \A r \in Reqs : hpc[r] = "updating" => r \in Entries(sent)

(* While the logger works with a file, an entry that was sent is in the file, *)
(* failed to get there, waits on the channel, or is the one about to be       *)
(* written.                                                                   *)
Accounted ==
  conf.file /\ Running /\ lpc # "off" =>
    Entries(sent) \subseteq
      InFile \union skipped \union Entries(ch)
             \union (IF lpc = "write" THEN Entries(hand) ELSE {})

Audited == SentFirst /\ AuditedFirst /\ Accounted

LEMMA NoEntries == Entries(<<>>) = {}
BY DEF Entries

LEMMA InitAudited == Init => Audited
<1>1. Init => sent = <<>> /\ applied = {} /\ \A r \in Reqs : hpc[r] = "new"
  BY DEF Init
<1>2. QED  BY <1>1, NoEntries DEF Audited, SentFirst, AuditedFirst, Accounted

LEMMA StepAudited ==
  ASSUME Shape, Audited, [Next]_vars
  PROVE  Audited'
<1> USE DEF Audited
<1>1. ASSUME NEW r \in Reqs, Arrive(r)
      PROVE  Audited'
  <2>1. SentFirst'
    BY <1>1 DEF SentFirst, Arrive, Shape, TypeOK
  <2>2. AuditedFirst'
    BY <1>1 DEF AuditedFirst, Arrive
  <2>3. Accounted'
    BY <1>1 DEF Accounted, Arrive, loggerVars, Running, InFile
  <2>4. QED  BY <2>1, <2>2, <2>3
<1>2. ASSUME NEW r \in Reqs, SendAudit(r)
      PROVE  Audited'
  <2>1. Entries(sent') = Entries(sent) \union {r} /\ Entries(ch') = Entries(ch) \union {r}
    BY <1>2, EntriesAppend DEF SendAudit, Shape, TypeOK
  <2>2. SentFirst'
    BY <1>2, <2>1 DEF SentFirst, SendAudit, Shape, TypeOK
  <2>3. AuditedFirst'
    BY <1>2, <2>1 DEF AuditedFirst, SendAudit
  <2>4. Accounted'
    BY <1>2, <2>1 DEF Accounted, SendAudit, loggerVars, Running, InFile
  <2>5. QED  BY <2>2, <2>3, <2>4
<1>3. ASSUME NEW r \in Reqs, UpdateBatch(r)
      PROVE  Audited'
  <2>1. SentFirst'
    BY <1>3 DEF SentFirst, UpdateBatch, Shape, TypeOK
  <2>2. AuditedFirst'
    BY <1>3 DEF SentFirst, AuditedFirst, UpdateBatch
  <2>3. Accounted'
    BY <1>3 DEF Accounted, UpdateBatch, loggerVars, Running, InFile
  <2>4. QED  BY <2>1, <2>2, <2>3
<1>4. ASSUME Logger \/ Signal
      PROVE  SentFirst' /\ AuditedFirst'
  BY <1>4 DEF SentFirst, AuditedFirst, Logger, Receive, WriteEntry, WriteNewline, Post, Signal,
              handlerVars
<1>5. CASE Receive
  <2>1. Entries(ch) = Entries(ch') \union {Head(ch)}
    BY <1>5, EntriesHeadTail DEF Receive, Shape, TypeOK
  <2>2. Entries(hand') = {Head(ch)}
    BY <1>5 DEF Receive, Entries
  <2>3. Accounted'
    BY <1>5, <2>1, <2>2 DEF Accounted, Receive, Running, InFile, handlerVars
  <2>4. QED  BY <1>4, <1>5, <2>3 DEF Logger
<1>6. CASE WriteEntry
  <2>1. Head(hand) \in Reqs /\ Entries(hand) = {Head(hand)}
    BY <1>6, HandType DEF WriteEntry, Shape
  <2>2. /\ InFile \subseteq InFile' /\ skipped \subseteq skipped'
        /\ conf.file => Head(hand) \in InFile' \union skipped'
    <3>1. \A b \in BOOLEAN : /\ Line(b) \in [entry : Reqs, whole : BOOLEAN]
                             /\ Line(b).entry = Head(hand) /\ Line(b).whole = b
      BY <2>1 DEF Line
    <3>2. log \in Seq([entry : Reqs, whole : BOOLEAN])
      BY DEF Shape, TypeOK
    <3>3. CASE log' = Append(log, Line(TRUE)) /\ skipped' = skipped
      BY <3>1, <3>2, <3>3, InFileAppend
    <3>4. CASE log' = Append(log, Line(FALSE)) /\ skipped' = skipped \union {Head(hand)}
      BY <3>1, <3>2, <3>4, InFileAppend
    <3>5. CASE log' = log /\ skipped' = skipped \union {Head(hand)}
      BY <3>5 DEF InFile
    <3>6. QED  BY <1>6, <3>3, <3>4, <3>5 DEF WriteEntry
  <2>3. Accounted'
    <3>1. /\ lpc = "write" /\ lpc' \in {"newline", "recv"}
          /\ UNCHANGED <<conf, phase, ch, sent>>
      BY <1>6 DEF WriteEntry, NextEntry, handlerVars
    <3>2. QED  BY <2>1, <2>2, <3>1 DEF Accounted, Running
  <2>4. QED  BY <1>4, <1>6, <2>3 DEF Logger
<1>7. CASE WriteNewline \/ Post \/ Signal
  <2>1. Accounted'
    BY <1>7 DEF Accounted, WriteNewline, Post, Signal, NextEntry, handlerVars, loggerVars,
                Running, InFile
  <2>2. QED  BY <1>4, <1>7, <2>1 DEF Logger
<1>8. CASE PostFails \/ Exit \/ DrainTimeout \/ Kill
  <2>1. /\ \E how \in {"exited", "failed", "fault", "killed"} : Die(how)
        /\ UNCHANGED <<applied, sent>>
    BY <1>8 DEF PostFails, Exit, DrainTimeout, Kill
  <2>2. InFlight' = {} /\ lpc' = "off"
    BY <2>1, DieShape DEF Shape
  <2>3. SentFirst' /\ Accounted'
    BY <2>2 DEF SentFirst, Accounted, InFlight
  <2>4. AuditedFirst'
    BY <2>1 DEF AuditedFirst
  <2>5. QED  BY <2>3, <2>4
<1>9. CASE Start
  <2>1. SentFirst'
    BY <1>9 DEF SentFirst, Start, Shape, Stopped, InFlight
  <2>2. AuditedFirst'
    BY <1>9 DEF AuditedFirst, Start
  <2>3. Accounted'
    BY <1>9, NoEntries DEF Accounted, Start
  <2>4. QED  BY <2>1, <2>2, <2>3
<1>10. CASE UNCHANGED vars
  BY <1>10 DEF vars, handlerVars, loggerVars, SentFirst, AuditedFirst, Accounted, Running, InFile
<1>11. QED
  BY <1>1, <1>2, <1>3, <1>5, <1>6, <1>7, <1>8, <1>9, <1>10 DEF Next, Logger

LEMMA AuditedInvariant == Spec => []Audited
<1>1. Shape /\ Audited /\ [Next]_vars => Audited'
  BY StepAudited
<1>2. QED  BY InitAudited, ShapeInvariant, <1>1, PTL DEF Spec

(* No batch reaches the storage before its entry is on its way.               *)
THEOREM AuditedFirstInvariant == Spec => []AuditedFirst
<1>1. Audited => AuditedFirst
  BY DEF Audited
<1>2. QED  BY AuditedInvariant, <1>1, PTL

(* What is applied and in the file's debt is on the channel or in the         *)
(* logger's hand: at most AuditCap + 1 batches.                               *)
LEMMA LagBound == Shape /\ Audited => AuditLag
<1> SUFFICES ASSUME Shape, Audited, conf.file, Running, lpc # "off"
             PROVE  Cardinality(applied \ (InFile \union skipped)) <= AuditCap + 1
  BY DEF AuditLag
<1>1. applied \ (InFile \union skipped) \subseteq Entries(ch) \union Entries(hand)
  BY DEF Audited, AuditedFirst, Accounted
<1>2. IsFiniteSet(Entries(ch)) /\ Cardinality(Entries(ch)) \in Nat
      /\ Cardinality(Entries(ch)) <= AuditCap
  <2>1. ch \in Seq(Reqs) /\ Len(ch) \in Nat /\ Len(ch) <= AuditCap /\ AuditCap \in Nat
    BY AuditAssumption DEF AuditAssumption, Shape, TypeOK
  <2>2. QED  BY <2>1, EntriesCardinality
<1>3. IsFiniteSet(Entries(hand)) /\ Cardinality(Entries(hand)) \in Nat
      /\ Cardinality(Entries(hand)) <= 1
  <2>1. hand \in Seq(Reqs) /\ Len(hand) \in Nat /\ Len(hand) <= 1
    BY DEF Shape, TypeOK
  <2>2. /\ IsFiniteSet(Entries(hand)) /\ Cardinality(Entries(hand)) \in Nat
        /\ Cardinality(Entries(hand)) <= Len(hand)
    BY <2>1, EntriesCardinality
  <2>3. QED  BY <2>1, <2>2
<1>4. Cardinality(Entries(ch) \union Entries(hand)) <= AuditCap + 1
  <2>1. IsFiniteSet(Entries(ch) \intersect Entries(hand))
    BY <1>2, FS_Subset
  <2>2. Cardinality(Entries(ch) \intersect Entries(hand)) \in Nat
    BY <2>1, FS_CardinalityType
  <2>3. Cardinality(Entries(ch) \union Entries(hand)) =
          Cardinality(Entries(ch)) + Cardinality(Entries(hand))
            - Cardinality(Entries(ch) \intersect Entries(hand))
    BY <1>2, <1>3, FS_Union
  <2>4. QED  BY <1>2, <1>3, <2>2, <2>3, AuditAssumption DEF AuditAssumption
<1>5. IsFiniteSet(Entries(ch) \union Entries(hand))
  BY <1>2, <1>3, FS_Union
<1>6. Cardinality(applied \ (InFile \union skipped)) <= Cardinality(Entries(ch) \union Entries(hand))
  BY <1>1, <1>5, FS_Subset
<1>7. QED
  <2>1. IsFiniteSet(applied \ (InFile \union skipped))
    BY <1>1, <1>5, FS_Subset
  <2>2. /\ Cardinality(applied \ (InFile \union skipped)) \in Nat
        /\ Cardinality(Entries(ch) \union Entries(hand)) \in Nat
    BY <2>1, <1>5, FS_CardinalityType
  <2>3. QED  BY <1>4, <1>6, <2>2, AuditAssumption DEF AuditAssumption

(* A process that dies, with its file still good, has applied at most         *)
(* AuditCap + 1 batches that the file does not tell of.                       *)
THEOREM AuditLagInvariant == Spec => []AuditLag
BY LagBound, ShapeInvariant, AuditedInvariant, PTL

-------------------------------------------------------------------------------
(* Queues in which no entry is twice.                                        *)

NoTwice(s) == \A i, j \in DOMAIN s : s[i] = s[j] => i = j

(* An entry may be appended only if it is new.                               *)
LEMMA NoTwiceAppend ==
  ASSUME NEW T, NEW s \in Seq(T), NEW x \in T
  PROVE  NoTwice(Append(s, x)) <=> NoTwice(s) /\ x \notin Entries(s)
<1> DEFINE n == Len(s) + 1
           a == Append(s, x)
<1>1. /\ n \in Nat \ {0} /\ DOMAIN s = 1 .. n - 1 /\ DOMAIN a = 1 .. n
      /\ \A k \in DOMAIN s : a[k] = s[k]
      /\ a[n] = x
  OBVIOUS
<1> HIDE DEF n, a
<1>2. n \in DOMAIN a /\ \A k \in DOMAIN s : k \in DOMAIN a /\ k # n
  BY <1>1
<1>3. \A k \in DOMAIN a : k = n \/ k \in DOMAIN s
  BY <1>1
<1>4. NoTwice(a) => NoTwice(s) /\ x \notin Entries(s)
  BY <1>1, <1>2 DEF NoTwice, Entries
<1>5. ASSUME NoTwice(s), x \notin Entries(s), NEW i \in DOMAIN a, NEW j \in DOMAIN a, a[i] = a[j]
      PROVE  i = j
  <2>1. \A k \in DOMAIN s : s[k] # x
    BY <1>5 DEF Entries
  <2>2. CASE i \in DOMAIN s /\ j \in DOMAIN s
    BY <1>1, <1>5, <2>2 DEF NoTwice
  <2>3. CASE i = n \/ j = n
    BY <1>1, <1>3, <1>5, <2>1, <2>3
  <2>4. QED  BY <1>3, <2>2, <2>3
<1>6. NoTwice(s) /\ x \notin Entries(s) => NoTwice(a)
  BY <1>5 DEF NoTwice
<1>7. QED  BY <1>4, <1>6 DEF a

(* What is picked from such a queue has none twice either.                   *)
LEMMA NoTwiceThose ==
  ASSUME NEW T, NEW S
  PROVE  \A s \in Seq(T) : NoTwice(s) => NoTwice(Those(s, S))
<1> DEFINE Good == {s \in Seq(T) : NoTwice(s) => NoTwice(Those(s, S))}
<1>1. <<>> \in Good
  BY EmptySeq, ThoseEmpty
<1>2. ASSUME NEW s \in Seq(T), NEW x \in T, s \in Good
      PROVE  Append(s, x) \in Good
  <2> DEFINE k == Those(s, S)
  <2>1. Append(s, x) \in Seq(T)
    BY AppendProperties
  <2>2. ASSUME NoTwice(Append(s, x))
        PROVE  NoTwice(Those(Append(s, x), S))
    <3>1. NoTwice(s) /\ x \notin Entries(s)
      BY <2>2, NoTwiceAppend
    <3>2. k \in Seq(T) /\ NoTwice(k) /\ x \notin Entries(k)
      BY <1>2, <3>1, ThoseEntries
    <3>3. Those(Append(s, x), S) = IF x \in S THEN Append(k, x) ELSE k
      BY ThoseAppend
    <3> HIDE DEF k
    <3>4. NoTwice(Append(k, x))
      BY <3>2, NoTwiceAppend
    <3>5. QED  BY <3>2, <3>3, <3>4
  <2>3. QED  BY <2>1, <2>2
<1>3. \A s \in Seq(T) : s \in Good
  <2> HIDE DEF Good
  <2>1. QED  BY <1>1, <1>2, SeqSteps
<1>4. QED  BY <1>3

(* An entry between two queues is in neither of them.                        *)
LEMMA NoTwiceBetween ==
  ASSUME NEW T, NEW a \in Seq(T), NEW x \in T, NEW b \in Seq(T), NoTwice(a \o (<<x>> \o b))
  PROVE  x \notin Entries(a) /\ x \notin Entries(b)
<1> DEFINE w == a \o (<<x>> \o b)
           n == Len(a)
           m == Len(b)
<1>1. n \in Nat /\ m \in Nat /\ DOMAIN a = 1 .. n /\ DOMAIN b = 1 .. m
  OBVIOUS
<1>2. /\ DOMAIN w = 1 .. n + 1 + m
      /\ w[n + 1] = x
      /\ \A k \in 1 .. n : w[k] = a[k]
      /\ \A k \in 1 .. m : w[n + 1 + k] = b[k]
  OBVIOUS
<1> HIDE DEF w, n, m
<1>3. n + 1 \in DOMAIN w
  BY <1>1, <1>2
<1>4. NoTwice(w)
  BY DEF w
<1>5. ASSUME NEW k \in DOMAIN a, a[k] = x
      PROVE  FALSE
  <2>1. k \in DOMAIN w /\ w[k] = x /\ k # n + 1
    BY <1>1, <1>2, <1>5
  <2>2. QED  BY <1>2, <1>3, <1>4, <2>1 DEF NoTwice
<1>6. ASSUME NEW k \in DOMAIN b, b[k] = x
      PROVE  FALSE
  <2>1. n + 1 + k \in DOMAIN w /\ w[n + 1 + k] = x /\ n + 1 + k # n + 1
    BY <1>1, <1>2, <1>6
  <2>2. QED  BY <1>2, <1>3, <1>4, <2>1 DEF NoTwice
<1>7. QED  BY <1>5, <1>6 DEF Entries

-------------------------------------------------------------------------------
(* The whole entries of the file.                                            *)

LEMMA LoggedType ==
  ASSUME log \in Seq([entry : Reqs, whole : BOOLEAN])
  PROVE  Logged \in Seq(Reqs) /\ Entries(Logged) = InFile
<1> DEFINE Lines == [entry : Reqs, whole : BOOLEAN]
           w == Those(log, Whole)
<1>1. w \in Seq(Lines) /\ Entries(w) = Entries(log) \intersect Whole
  BY ThoseEntries
<1>2. Logged = [k \in DOMAIN w |-> w[k].entry]
  BY DEF Logged
<1> HIDE DEF w
<1>3. Len(w) \in Nat /\ DOMAIN w = 1 .. Len(w) /\ \A k \in DOMAIN w : w[k].entry \in Reqs
  <2> HIDE DEF Lines
  <2>1. Len(w) \in Nat /\ DOMAIN w = 1 .. Len(w) /\ \A k \in DOMAIN w : w[k] \in Lines
    BY <1>1
  <2>2. QED  BY <2>1 DEF Lines
<1>4. Logged \in Seq(Reqs)
  BY <1>2, <1>3
<1>5. Entries(Logged) = {v.entry : v \in Entries(w)}
  BY <1>2 DEF Entries
<1>6. InFile = {v.entry : v \in Entries(log) \intersect Whole}
  BY DEF InFile, Entries
<1>7. QED  BY <1>1, <1>4, <1>5, <1>6

(* A line that is written is the last one, if it is whole.                   *)
LEMMA LoggedAppend ==
  ASSUME log \in Seq([entry : Reqs, whole : BOOLEAN]),
         NEW x \in Reqs, NEW b \in BOOLEAN,
         log' = Append(log, [entry |-> x, whole |-> b])
  PROVE  Logged' = IF b THEN Append(Logged, x) ELSE Logged
<1> DEFINE Lines == [entry : Reqs, whole : BOOLEAN]
           line == [entry |-> x, whole |-> b]
           w == Those(log, Whole)
<1>1. log \in Seq(Lines) /\ w \in Seq(Lines)
  BY ThoseEntries
<1>2. line \in Lines /\ line.entry = x /\ (line \in Whole <=> b = TRUE)
  BY DEF Whole
<1>3. /\ Logged = [k \in DOMAIN w |-> w[k].entry]
      /\ Logged' = LET v == Those(Append(log, line), Whole) IN [k \in DOMAIN v |-> v[k].entry]
  BY DEF Logged
<1> HIDE DEF line, Lines
<1>4. Those(Append(log, line), Whole) = IF line \in Whole THEN Append(w, line) ELSE w
  BY <1>1, <1>2, ThoseAppend
<1> HIDE DEF w
<1>5. CASE b = TRUE
  <2> DEFINE v == Append(w, line)
             n == Len(w)
             a == Append(Logged, x)
  <2>1. Logged' = [k \in DOMAIN v |-> v[k].entry]
    BY <1>2, <1>3, <1>4, <1>5
  <2>2. /\ n \in Nat /\ DOMAIN w = 1 .. n /\ DOMAIN v = 1 .. n + 1
        /\ \A k \in DOMAIN w : v[k] = w[k]
        /\ v[n + 1] = line
    BY <1>1, <1>2
  <2>3. Logged \in Seq(Reqs) /\ Len(Logged) = n
    BY <1>3, <2>2, LoggedType
  <2>4. /\ a = [k \in 1 .. n + 1 |-> a[k]]
        /\ a[n + 1] = x
        /\ \A k \in 1 .. n : a[k] = Logged[k]
    <3>1. a \in Seq(Reqs) /\ Len(a) = n + 1 /\ a[n + 1] = x /\ \A k \in 1 .. n : a[k] = Logged[k]
      BY <2>3, AppendProperties
    <3> HIDE DEF a, n
    <3>2. QED  BY <3>1
  <2> HIDE DEF v, n, a
  <2>5. \A k \in 1 .. n + 1 : a[k] = v[k].entry
    <3>1. TAKE k \in 1 .. n + 1
    <3>2. CASE k \in 1 .. n
      <4>1. a[k] = Logged[k] /\ Logged[k] = w[k].entry /\ v[k] = w[k]
        BY <1>3, <2>2, <2>4, <3>2
      <4>2. QED  BY <4>1
    <3>3. CASE k = n + 1
      BY <1>2, <2>2, <2>4, <3>3
    <3>4. k \in 1 .. n \/ k = n + 1
      BY <2>2, <3>1
    <3>5. QED  BY <3>2, <3>3, <3>4
  <2>6. [k \in 1 .. n + 1 |-> a[k]] = [k \in 1 .. n + 1 |-> v[k].entry]
    BY <2>5
  <2>7. Logged' = a
    BY <2>1, <2>2, <2>4, <2>6
  <2>8. QED  BY <1>5, <2>7 DEF a
<1>6. CASE b = FALSE
  BY <1>2, <1>3, <1>4, <1>6
<1>7. QED  BY <1>5, <1>6

-------------------------------------------------------------------------------
(* The order of the entries.                                                 *)

(* A process sends an entry once.                                            *)
SentOnce ==
  /\ NoTwice(sent)
  /\ \A r \in Reqs : hpc[r] \in {"new", "sending"} => r \notin Entries(sent)

(* What the logger gets to see was sent.                                     *)
FromSent == Entries(ch) \union Entries(hand) \union skipped \subseteq Entries(sent)

Fresh == SentOnce /\ FromSent

LEMMA InitFresh == Init => Fresh
<1>1. \A i, j \in DOMAIN <<>> : FALSE
  OBVIOUS
<1>2. QED
  BY <1>1, NoEntries DEF Init, Fresh, SentOnce, FromSent, NoTwice

LEMMA StepFresh ==
  ASSUME Shape, Fresh, [Next]_vars
  PROVE  Fresh'
<1> USE DEF Fresh
<1>1. ASSUME NEW r \in Reqs, Arrive(r) \/ UpdateBatch(r)
      PROVE  Fresh'
  BY <1>1 DEF SentOnce, FromSent, Arrive, UpdateBatch, loggerVars, Shape, TypeOK
<1>2. ASSUME NEW r \in Reqs, SendAudit(r)
      PROVE  Fresh'
  <2>1. Entries(sent') = Entries(sent) \union {r} /\ Entries(ch') = Entries(ch) \union {r}
    BY <1>2, EntriesAppend DEF SendAudit, Shape, TypeOK
  <2>2. NoTwice(sent')
    BY <1>2, NoTwiceAppend DEF SentOnce, SendAudit, Shape, TypeOK
  <2>3. SentOnce'
    BY <1>2, <2>1, <2>2 DEF SentOnce, SendAudit, Shape, TypeOK
  <2>4. FromSent'
    BY <1>2, <2>1 DEF FromSent, SendAudit, loggerVars
  <2>5. QED  BY <2>3, <2>4
<1>3. CASE Logger \/ Signal
  <2>1. SentOnce'
    BY <1>3 DEF SentOnce, Logger, Receive, WriteEntry, WriteNewline, Post, Signal, handlerVars
  <2>2. CASE Receive
    <3>1. Entries(ch) = Entries(ch') \union {Head(ch)}
      BY <2>2, EntriesHeadTail DEF Receive, Shape, TypeOK
    <3>2. Entries(hand') = {Head(ch)}
      BY <2>2 DEF Receive, Entries
    <3>3. FromSent'
      BY <2>2, <3>1, <3>2 DEF FromSent, Receive, handlerVars
    <3>4. QED  BY <2>1, <3>3
  <2>3. CASE WriteEntry
    <3>1. Entries(hand) = {Head(hand)}
      BY <2>3, HandType DEF WriteEntry, Shape
    <3>2. skipped' \subseteq skipped \union {Head(hand)} /\ hand' \in {hand, <<>>}
      BY <2>3 DEF WriteEntry, NextEntry
    <3>3. Entries(hand') \subseteq Entries(hand)
      BY <3>2, NoEntries
    <3>4. FromSent'
      BY <2>3, <3>1, <3>2, <3>3 DEF FromSent, WriteEntry, handlerVars
    <3>5. QED  BY <2>1, <3>4
  <2>4. CASE WriteNewline \/ Post \/ Signal
    <3>1. hand' \in {hand, <<>>} /\ UNCHANGED <<ch, sent, skipped>>
      BY <2>4 DEF WriteNewline, Post, Signal, NextEntry, handlerVars, loggerVars
    <3>2. FromSent'
      BY <3>1, NoEntries DEF FromSent
    <3>3. QED  BY <2>1, <3>2
  <2>5. QED  BY <1>3, <2>2, <2>3, <2>4 DEF Logger
<1>4. CASE PostFails \/ Exit \/ DrainTimeout \/ Kill
  <2>1. /\ \E how \in {"exited", "failed", "fault", "killed"} : Die(how)
        /\ UNCHANGED <<sent, skipped>>
    BY <1>4 DEF PostFails, Exit, DrainTimeout, Kill
  <2>2. ch' = <<>> /\ hand' = <<>>
    BY <2>1 DEF Die
  <2>3. \A r \in Reqs : hpc'[r] \in {"new", "sending"} => hpc[r] \in {"new", "sending"}
    BY <2>1 DEF Die, Shape, TypeOK
  <2>4. SentOnce'
    BY <2>1, <2>3 DEF SentOnce
  <2>5. FromSent'
    BY <2>1, <2>2, NoEntries DEF FromSent
  <2>6. QED  BY <2>4, <2>5
<1>5. CASE Start
  <2>1. sent' = <<>> /\ skipped' = {} /\ ch' = <<>> /\ hand' = <<>>
    <3>1. hand = <<>> /\ ch = <<>>
      BY <1>5 DEF Start, Shape, Stopped, TypeOK
    <3>2. QED  BY <1>5, <3>1 DEF Start
  <2>2. \A i, j \in DOMAIN <<>> : FALSE
    OBVIOUS
  <2>3. QED  BY <2>1, <2>2, NoEntries DEF SentOnce, FromSent, NoTwice
<1>6. CASE UNCHANGED vars
  BY <1>6 DEF vars, handlerVars, loggerVars, SentOnce, FromSent
<1>7. QED
  BY <1>1, <1>2, <1>3, <1>4, <1>5, <1>6 DEF Next

LEMMA FreshInvariant == Spec => []Fresh
<1>1. Shape /\ Fresh /\ [Next]_vars => Fresh'
  BY StepFresh
<1>2. QED  BY InitFresh, ShapeInvariant, <1>1, PTL DEF Spec

(* What still has to come into the file, and what was to come there.         *)
Waiting == IF lpc = "write" THEN hand \o ch ELSE ch
Due == Those(sent, Reqs \ skipped)

LEMMA QueueTypes ==
  ASSUME TypeOK
  PROVE  Logged \in Seq(Reqs) /\ Waiting \in Seq(Reqs) /\ Due \in Seq(Reqs)
<1>1. log \in Seq([entry : Reqs, whole : BOOLEAN]) /\ ch \in Seq(Reqs) /\ hand \in Seq(Reqs)
      /\ sent \in Seq(Reqs)
  BY DEF TypeOK
<1>2. QED
  BY <1>1, LoggedType, ThoseEntries DEF Waiting, Due

(* The logger's one entry comes before those on the channel.                 *)
LEMMA InHand ==
  ASSUME TypeOK, lpc \in {"write", "newline", "post"}
  PROVE  hand = <<Head(hand)>>
<1>1. hand \in Seq(Reqs) /\ Len(hand) = 1
  BY DEF TypeOK
<1>2. QED  BY <1>1

(* The entry the logger is about to write is not in the file yet, nor behind  *)
(* it on the channel.                                                        *)
LEMMA HandIsNew ==
  ASSUME Shape, Fresh, AuditOrder, conf.file, lpc = "write"
  PROVE  /\ Head(hand) \in Reqs
         /\ Head(hand) \notin Entries(Logged)
         /\ Head(hand) \notin Entries(ch)
<1> DEFINE x == Head(hand)
           l == Logged
<1>1. x \in Reqs /\ hand = <<x>>
  BY HandType, InHand DEF Shape
<1>2. Due = l \o (<<x>> \o ch)
  BY <1>1 DEF AuditOrder, Due, Shape, Stopped
<1>3. NoTwice(Due)
  BY NoTwiceThose DEF Due, Fresh, SentOnce, Shape, TypeOK
<1>4. l \in Seq(Reqs) /\ ch \in Seq(Reqs)
  BY QueueTypes DEF Shape, TypeOK
<1> HIDE DEF x, l
<1>5. x \notin Entries(l) /\ x \notin Entries(ch)
  BY <1>1, <1>2, <1>3, <1>4, NoTwiceBetween
<1>6. QED  BY <1>1, <1>5 DEF x, l

(* AuditOrder, by name.                                                      *)
LEMMA OrderIs ==
  AuditOrder <=> (conf.file /\ Running /\ lpc # "off" => Due = Logged \o Waiting)
BY DEF AuditOrder, Due, Waiting

LEMMA OrderIsNext ==
  AuditOrder' <=> (conf'.file /\ Running' /\ lpc' # "off" => Due' = Logged' \o Waiting')
BY DEF AuditOrder, Due, Waiting

(* An entry that is taken out of the middle of a queue leaves the rest.      *)
LEMMA MiddleLeaves ==
  ASSUME NEW a \in Seq(Reqs), NEW x \in Reqs, NEW b \in Seq(Reqs),
         x \notin Entries(a), x \notin Entries(b)
  PROVE  Those(a \o (<<x>> \o b), Reqs \ {x}) = a \o b
<1> DEFINE S == Reqs \ {x}
           m == <<x>> \o b
<1>1. S = Reqs \ {x}
  OBVIOUS
<1>2. \A q \in Seq(Reqs) : Entries(q) \subseteq Reqs
  BY DEF Entries
<1>3. Entries(a) \subseteq S /\ Entries(b) \subseteq S
  BY <1>2
<1>4. x \notin S
  OBVIOUS
<1> HIDE DEF S
<1>5. Those(a, S) = a /\ Those(b, S) = b
  BY <1>3, ThoseAll
<1>6. Those(<<x>>, S) = <<>>
  <2>1. <<>> \in Seq(Reqs) /\ <<x>> = Append(<<>>, x)
    BY EmptySeq
  <2>2. Those(Append(<<>>, x), S) = IF x \in S THEN Append(Those(<<>>, S), x) ELSE Those(<<>>, S)
    <3> DEFINE e == <<>>
    <3>1. e \in Seq(Reqs)
      BY <2>1
    <3> HIDE DEF e
    <3>2. Those(Append(e, x), S) = IF x \in S THEN Append(Those(e, S), x) ELSE Those(e, S)
      BY <3>1, ThoseAppend
    <3>3. QED  BY <3>2 DEF e
  <2>3. Those(<<>>, S) = <<>>
    BY ThoseEmpty
  <2>4. QED  BY <1>4, <2>1, <2>2, <2>3
<1>7. Those(m, S) = b
  <2>1. <<x>> \in Seq(Reqs)
    OBVIOUS
  <2>2. Those(m, S) = Those(<<x>>, S) \o Those(b, S)
    BY <2>1, ThoseBehind
  <2>3. \A q \in Seq(Reqs) : <<>> \o q = q
    OBVIOUS
  <2>4. QED  BY <1>5, <1>6, <2>2, <2>3
<1>8. m \in Seq(Reqs)
  OBVIOUS
<1> HIDE DEF m
<1>9. Those(a \o m, S) = a \o b
  <2>1. Those(a \o m, S) = Those(a, S) \o Those(m, S)
    BY <1>8, ThoseBehind
  <2>2. QED  BY <1>5, <1>7, <2>1
<1>10. QED  BY <1>1, <1>9 DEF m

(* Those entries but one more.                                               *)
LEMMA ThoseBut ==
  ASSUME NEW s \in Seq(Reqs), NEW K, NEW x
  PROVE  Those(s, Reqs \ (K \union {x})) = Those(Those(s, Reqs \ K), Reqs \ {x})
<1>1. (Reqs \ K) \intersect (Reqs \ {x}) = Reqs \ (K \union {x})
  OBVIOUS
<1>2. Those(Those(s, Reqs \ K), Reqs \ {x}) = Those(s, (Reqs \ K) \intersect (Reqs \ {x}))
  BY ThoseOfThose
<1>3. QED  BY <1>1, <1>2

LEMMA StepOrder ==
  ASSUME Shape, Fresh, AuditOrder, [Next]_vars
  PROVE  AuditOrder'
<1>1. ASSUME NEW r \in Reqs, Arrive(r) \/ UpdateBatch(r)
      PROVE  AuditOrder'
  <2>1. UNCHANGED <<conf, phase, lpc, sent, skipped, log, hand, ch>>
    BY <1>1 DEF Arrive, UpdateBatch, loggerVars
  <2>2. QED  BY <2>1 DEF AuditOrder, Running, Logged
<1>2. ASSUME NEW r \in Reqs, SendAudit(r)
      PROVE  AuditOrder'
  <2> SUFFICES ASSUME conf.file, Running, lpc # "off"
               PROVE  Due' = Logged' \o Waiting'
    BY <1>2, OrderIsNext DEF SendAudit, loggerVars, Running
  <2>1. UNCHANGED <<skipped, log, lpc, hand>> /\ sent' = Append(sent, r) /\ ch' = Append(ch, r)
    BY <1>2 DEF SendAudit, loggerVars
  <2>2. Logged' = Logged
    BY <2>1 DEF Logged
  <2>3. Logged \in Seq(Reqs) /\ Waiting \in Seq(Reqs) /\ Due = Logged \o Waiting
    BY QueueTypes, OrderIs DEF Shape
  <2>4. Waiting' = Append(Waiting, r)
    <3>1. ch \in Seq(Reqs) /\ hand \in Seq(Reqs)
      BY DEF Shape, TypeOK
    <3>2. hand \o Append(ch, r) = Append(hand \o ch, r)
      BY <3>1
    <3>3. QED  BY <2>1, <3>2 DEF Waiting
  <2>5. Due' = Append(Due, r)
    <3>1. r \notin skipped
      BY <1>2 DEF SendAudit, Fresh, SentOnce, FromSent
    <3>2. sent \in Seq(Reqs)
      BY DEF Shape, TypeOK
    <3>3. Those(Append(sent, r), Reqs \ skipped) = Append(Those(sent, Reqs \ skipped), r)
      BY <3>1, <3>2, ThoseAppend
    <3>4. QED  BY <2>1, <3>3 DEF Due
  <2>6. \A a, b \in Seq(Reqs) : Append(a \o b, r) = a \o Append(b, r)
    OBVIOUS
  <2>7. Append(Logged \o Waiting, r) = Logged \o Append(Waiting, r)
    BY <2>3, <2>6
  <2>8. QED  BY <2>2, <2>3, <2>4, <2>5, <2>7
<1>3. CASE Receive
  <2>1. UNCHANGED <<conf, phase, sent, skipped, log>> /\ lpc = "recv" /\ lpc' = "write"
    BY <1>3 DEF Receive, handlerVars
  <2>2. hand' \o ch' = ch
    <3>1. ch \in Seq(Reqs) /\ ch # <<>> /\ hand' = <<Head(ch)>> /\ ch' = Tail(ch)
      BY <1>3 DEF Receive, Shape, TypeOK
    <3>2. \A q \in Seq(Reqs) : q # <<>> => <<Head(q)>> \o Tail(q) = q
      OBVIOUS
    <3>3. QED  BY <3>1, <3>2
  <2>3. QED  BY <2>1, <2>2 DEF AuditOrder, Running, Logged
<1>4. CASE WriteEntry
  <2> SUFFICES ASSUME conf.file
               PROVE  Due' = Logged' \o Waiting'
    BY <1>4, OrderIsNext DEF WriteEntry
  <2> DEFINE x == Head(hand)
  <2>1. UNCHANGED <<conf, phase, ch, sent>> /\ lpc = "write" /\ lpc' \in {"recv", "newline"}
    BY <1>4 DEF WriteEntry, NextEntry, handlerVars
  <2>2. x \in Reqs /\ x \notin Entries(Logged) /\ x \notin Entries(ch)
    BY <2>1, HandIsNew
  <2>3. Running
    BY <2>1 DEF Shape, Stopped
  <2>4. hand = <<x>>
    BY <2>1, InHand DEF Shape
  <2>5. Logged \in Seq(Reqs) /\ ch \in Seq(Reqs) /\ sent \in Seq(Reqs)
        /\ log \in Seq([entry : Reqs, whole : BOOLEAN])
    BY QueueTypes DEF Shape, TypeOK
  <2>6. Those(sent, Reqs \ skipped) = Logged \o (<<x>> \o ch)
    BY <2>1, <2>3, <2>4 DEF AuditOrder
  <2>7. Waiting' = ch
    BY <2>1 DEF Waiting
  <2> HIDE DEF x
  <2>8. CASE log' = Append(log, [entry |-> x, whole |-> TRUE]) /\ skipped' = skipped
    <3>1. Logged' = Append(Logged, x)
      BY <2>2, <2>5, <2>8, LoggedAppend
    <3>2. Append(Logged, x) \o ch = Logged \o (<<x>> \o ch)
      <4>1. \A a, b \in Seq(Reqs), y \in Reqs : Append(a, y) \o b = a \o (<<y>> \o b)
        OBVIOUS
      <4>2. QED  BY <2>2, <2>5, <4>1
    <3>3. QED  BY <2>1, <2>6, <2>7, <2>8, <3>1, <3>2 DEF Due
  <2>9. CASE log' \in {log, Append(log, [entry |-> x, whole |-> FALSE])}
             /\ skipped' = skipped \union {x}
    <3>1. Logged' = Logged
      <4>1. CASE log' = log
        BY <4>1 DEF Logged
      <4>2. CASE log' = Append(log, [entry |-> x, whole |-> FALSE])
        BY <2>2, <2>5, <4>2, LoggedAppend
      <4>3. QED  BY <2>9, <4>1, <4>2
    <3>2. Due' = Logged \o ch
      <4>1. Those(sent, Reqs \ (skipped \union {x})) = Logged \o ch
        <5>1. Those(sent, Reqs \ (skipped \union {x})) = Those(Those(sent, Reqs \ skipped), Reqs \ {x})
          BY <2>5, ThoseBut
        <5> DEFINE l == Logged
                   c == ch
        <5>2. l \in Seq(Reqs) /\ c \in Seq(Reqs) /\ x \in Reqs /\ x \notin Entries(l) /\ x \notin Entries(c)
          BY <2>2, <2>5
        <5> HIDE DEF l, c
        <5>3. Those(l \o (<<x>> \o c), Reqs \ {x}) = l \o c
          BY <5>2, MiddleLeaves
        <5>4. QED  BY <2>6, <5>1, <5>3 DEF l, c
      <4>2. QED  BY <2>1, <2>9, <4>1 DEF Due
    <3>3. QED  BY <2>7, <3>1, <3>2
  <2>10. QED
    BY <1>4, <2>8, <2>9 DEF WriteEntry, Line, x
<1>5. CASE WriteNewline \/ Post \/ Signal
  <2>1. UNCHANGED <<conf, sent, skipped, log, ch>> /\ (Running' => Running)
    BY <1>5 DEF WriteNewline, Post, Signal, handlerVars, loggerVars, Running
  <2>2. CASE Signal
    BY <2>1, <2>2 DEF Signal, loggerVars, AuditOrder, Logged
  <2>3. CASE WriteNewline \/ Post
    <3>1. lpc \in {"newline", "post"} /\ lpc' \in {"post", "recv"}
      BY <2>3 DEF WriteNewline, Post, NextEntry
    <3>2. Due' = Due /\ Logged' = Logged /\ Waiting' = ch /\ Waiting = ch
      BY <2>1, <3>1 DEF Due, Logged, Waiting
    <3>3. QED  BY <2>1, <3>1, <3>2, OrderIs, OrderIsNext
  <2>4. QED  BY <1>5, <2>2, <2>3
<1>6. CASE PostFails \/ Exit \/ DrainTimeout \/ Kill
  BY <1>6 DEF PostFails, Exit, DrainTimeout, Kill, Die, AuditOrder
<1>7. CASE Start
  <2> SUFFICES ASSUME conf.file, lpc' # "off"
               PROVE  Due' = Logged' \o Waiting'
    BY <1>7, OrderIsNext DEF Start
  <2>1. log' = <<>> /\ lpc' = "recv" /\ ch' = <<>> /\ sent' = <<>> /\ skipped' = {}
    BY <1>7 DEF Start, OpenAudit, Shape, Stopped
  <2>2. Due' = <<>> /\ Waiting' = <<>>
    BY <2>1, ThoseEmpty DEF Due, Waiting
  <2>3. Logged' = <<>>
    <3>1. Logged' = LET w == Those(<<>>, Whole) IN [k \in DOMAIN w |-> w[k].entry]
      BY <2>1 DEF Logged
    <3>2. [k \in DOMAIN <<>> |-> <<>>[k].entry] = <<>>
      OBVIOUS
    <3>3. QED  BY <3>1, <3>2, ThoseEmpty
  <2>4. <<>> \o <<>> = <<>>
    OBVIOUS
  <2>5. QED  BY <2>2, <2>3, <2>4
<1>8. CASE UNCHANGED vars
  BY <1>8 DEF vars, handlerVars, loggerVars, AuditOrder, Running, Logged
<1>9. QED
  BY <1>1, <1>2, <1>3, <1>4, <1>5, <1>6, <1>7, <1>8 DEF Next, Logger

LEMMA InitOrder == Init => AuditOrder
<1> SUFFICES ASSUME Init PROVE AuditOrder
  OBVIOUS
<1>1. sent = <<>> /\ log = <<>> /\ ch = <<>> /\ lpc # "write"
  BY DEF Init
<1>2. Due = <<>> /\ Waiting = <<>>
  BY <1>1, ThoseEmpty DEF Due, Waiting
<1>3. Logged = <<>>
  <2>1. Logged = LET w == Those(<<>>, Whole) IN [k \in DOMAIN w |-> w[k].entry]
    BY <1>1 DEF Logged
  <2>2. [k \in DOMAIN <<>> |-> <<>>[k].entry] = <<>>
    OBVIOUS
  <2>3. QED  BY <2>1, <2>2, ThoseEmpty
<1>4. <<>> \o <<>> = <<>>
  OBVIOUS
<1>5. QED  BY <1>2, <1>3, <1>4, OrderIs

(* The entries come out of the channel into the file in the order they were   *)
(* sent, none twice and none left out but those whose write failed.           *)
THEOREM AuditOrderInvariant == Spec => []AuditOrder
<1>1. Shape /\ Fresh /\ AuditOrder /\ [Next]_vars => AuditOrder'
  BY StepOrder
<1>2. QED  BY InitOrder, ShapeInvariant, FreshInvariant, <1>1, PTL DEF Spec

-------------------------------------------------------------------------------
(* What the URL gets.                                                        *)

(* What the logger is about to post is the last entry in the file, which the  *)
(* URL has not got yet.                                                      *)
Written ==
  lpc \in {"newline", "post"} =>
    /\ conf.file
    /\ \E l \in Seq(Reqs) : /\ Logged = Append(l, Head(hand))
                            /\ Head(hand) \notin Entries(l) \union Entries(posted)

Followed == Written /\ PostedFollowsFile

LEMMA PostedIs ==
  PostedFollowsFile <=>
    (conf.file /\ Running =>
       Entries(posted) \subseteq InFile /\ posted = Those(Logged, Entries(posted)))
BY DEF PostedFollowsFile

(* Nothing is posted yet.                                                    *)
LEMMA NothingPosted ==
  ASSUME NEW l \in Seq(Reqs)
  PROVE  Those(l, Entries(<<>>)) = <<>>
<1> DEFINE k == Those(l, {})
<1>1. k \in Seq(Reqs) /\ Entries(k) = {}
  <2>1. Those(l, {}) \in Seq(Reqs) /\ Entries(Those(l, {})) = Entries(l) \intersect {}
    BY ThoseEntries
  <2>2. QED  BY <2>1
<1> HIDE DEF k
<1>2. Len(k) = 0
  <2>1. Len(k) \in Nat /\ DOMAIN k = 1 .. Len(k)
    BY <1>1
  <2>2. ASSUME Len(k) # 0 PROVE FALSE
    <3>1. 1 \in DOMAIN k
      BY <2>1, <2>2
    <3>2. QED  BY <1>1, <3>1 DEF Entries
  <2>3. QED  BY <2>2
<1>3. k = <<>>
  BY <1>1, <1>2
<1>4. QED  BY <1>3, NoEntries DEF k

(* An entry that is written does not change what was posted, if it was not.  *)
LEMMA WrittenNotPosted ==
  ASSUME NEW l \in Seq(Reqs), NEW x \in Reqs, NEW p, p = Those(l, Entries(p)), x \notin Entries(p)
  PROVE  p = Those(Append(l, x), Entries(p))
<1> DEFINE S == Entries(p)
<1>1. x \notin S /\ p = Those(l, S)
  OBVIOUS
<1> HIDE DEF S
<1>2. Those(Append(l, x), S) = IF x \in S THEN Append(Those(l, S), x) ELSE Those(l, S)
  BY ThoseAppend
<1>3. QED  BY <1>1, <1>2 DEF S

(* The last entry of the file is posted last.                                *)
LEMMA LastIsPosted ==
  ASSUME NEW l \in Seq(Reqs), NEW x \in Reqs, NEW p \in Seq(Reqs),
         x \notin Entries(l), x \notin Entries(p),
         p = Those(Append(l, x), Entries(p))
  PROVE  Append(p, x) = Those(Append(l, x), Entries(Append(p, x)))
<1> DEFINE S == Entries(p)
           U == S \union {x}
<1>1. Entries(Append(p, x)) = U
  BY EntriesAppend
<1>2. p = Those(Append(l, x), S) /\ x \notin S
  OBVIOUS
<1>3. x \in U /\ \A y \in Entries(l) : y \in S <=> y \in U
  OBVIOUS
<1> HIDE DEF S, U
<1>4. Those(Append(l, x), S) = IF x \in S THEN Append(Those(l, S), x) ELSE Those(l, S)
  BY ThoseAppend
<1>5. Those(Append(l, x), U) = IF x \in U THEN Append(Those(l, U), x) ELSE Those(l, U)
  BY ThoseAppend
<1>6. Those(l, S) = Those(l, U)
  BY <1>3, ThoseAgree
<1>7. QED  BY <1>1, <1>2, <1>3, <1>4, <1>5, <1>6

LEMMA InitFollowed == Init => Followed
<1> SUFFICES ASSUME Init PROVE Followed
  OBVIOUS
<1>1. Written
  BY DEF Init, Written
<1>2. posted = <<>> /\ Logged \in Seq(Reqs)
  BY InitShape, QueueTypes DEF Init, Shape
<1>3. PostedFollowsFile
  <2>1. Those(Logged, Entries(<<>>)) = <<>>
    BY <1>2, NothingPosted
  <2>2. QED  BY <1>2, <2>1, NoEntries, PostedIs
<1>4. QED  BY <1>1, <1>3 DEF Followed

LEMMA StepFollowed ==
  ASSUME Shape, Fresh, AuditOrder, Followed, [Next]_vars
  PROVE  Followed'
<1> USE DEF Followed
<1>1. ASSUME UNCHANGED <<conf, lpc, hand, log, posted>>, Running' => Running
      PROVE  Followed'
  <2>1. Logged' = Logged /\ InFile' = InFile
    BY <1>1 DEF Logged, InFile
  <2>2. Written'
    BY <1>1, <2>1 DEF Written
  <2>3. PostedFollowsFile'
    BY <1>1, <2>1 DEF PostedFollowsFile
  <2>4. QED  BY <2>2, <2>3
<1>2. ASSUME NEW r \in Reqs, Arrive(r) \/ SendAudit(r) \/ UpdateBatch(r)
      PROVE  Followed'
  <2>1. UNCHANGED <<conf, lpc, hand, log, posted>> /\ (Running' => Running)
    BY <1>2 DEF Arrive, SendAudit, UpdateBatch, loggerVars, Running
  <2>2. QED  BY <1>1, <2>1
<1>3. CASE Signal \/ UNCHANGED vars
  <2>1. UNCHANGED <<conf, lpc, hand, log, posted>> /\ (Running' => Running)
    BY <1>3 DEF Signal, vars, loggerVars, Running
  <2>2. QED  BY <1>1, <2>1
<1>4. CASE Receive
  <2>1. UNCHANGED <<conf, phase, log, posted>> /\ lpc' = "write"
    BY <1>4 DEF Receive
  <2>2. Logged' = Logged /\ InFile' = InFile
    BY <2>1 DEF Logged, InFile
  <2>3. Written'
    BY <2>1 DEF Written
  <2>4. PostedFollowsFile'
    BY <2>1, <2>2 DEF PostedFollowsFile, Running
  <2>5. QED  BY <2>3, <2>4
<1>5. CASE WriteEntry
  <2> DEFINE x == Head(hand)
  <2>1. UNCHANGED <<conf, phase, posted>> /\ lpc = "write"
    BY <1>5 DEF WriteEntry
  <2>2. Running /\ Running' /\ conf' = conf /\ posted' = posted
    BY <2>1 DEF Shape, Stopped, Running
  <2>3. /\ Logged \in Seq(Reqs) /\ posted \in Seq(Reqs)
        /\ log \in Seq([entry : Reqs, whole : BOOLEAN])
        /\ Entries(Logged) = InFile
    BY QueueTypes, LoggedType DEF Shape, TypeOK
  <2>4. x \in Reqs
    BY <2>1, HandType DEF Shape
  <2>5. CASE ~conf.file
    <3>1. lpc' = "recv" /\ ~conf'.file
      BY <1>5, <2>5 DEF WriteEntry, NextEntry
    <3>2. QED  BY <3>1 DEF Written, PostedFollowsFile
  <2>6. CASE conf.file /\ lpc' = "newline"
    <3>1. log' = Append(log, [entry |-> x, whole |-> TRUE]) /\ hand' = hand
      BY <1>5, <2>6 DEF WriteEntry, NextEntry, Line
    <3>2. x \notin Entries(Logged)
      BY <2>1, <2>6, HandIsNew
    <3> DEFINE l == Logged
               p == posted
    <3>3. Entries(p) \subseteq Entries(l) /\ p = Those(l, Entries(p))
      BY <2>2, <2>3, <2>6, PostedIs
    <3>4. l \in Seq(Reqs) /\ p \in Seq(Reqs) /\ x \notin Entries(l)
      BY <2>3, <3>2
    <3>5. Logged' = Append(l, x)
      <4> HIDE DEF x
      <4>1. QED  BY <2>3, <2>4, <3>1, LoggedAppend
    <3>6. InFile \subseteq InFile'
      <4>1. [entry |-> x, whole |-> TRUE] \in [entry : Reqs, whole : BOOLEAN]
        BY <2>4
      <4>2. QED  BY <2>3, <3>1, <4>1, InFileAppend
    <3>7. Entries(posted') \subseteq InFile'
      BY <2>2, <2>3, <3>3, <3>6
    <3>8. Written'
      <4>1. Head(hand') = x /\ Entries(posted') = Entries(p)
        BY <2>2, <3>1
      <4>2. x \notin Entries(l) \union Entries(p)
        BY <3>3, <3>4
      <4> HIDE DEF x, l, p
      <4>3. QED  BY <2>2, <2>6, <3>4, <3>5, <4>1, <4>2 DEF Written
    <3>9. p = Those(Append(l, x), Entries(p))
      <4> HIDE DEF x, l, p
      <4>1. x \notin Entries(p)
        BY <3>3, <3>4
      <4>2. QED  BY <2>4, <3>3, <3>4, <4>1, WrittenNotPosted
    <3>10. PostedFollowsFile'
      <4>1. posted' = Those(Logged', Entries(posted'))
        BY <2>2, <3>5, <3>9
      <4>2. QED  BY <3>7, <4>1 DEF PostedFollowsFile
    <3>11. QED  BY <3>8, <3>10
  <2>7. CASE conf.file /\ lpc' # "newline"
    <3>1. lpc' = "recv" /\ log' \in {log, Append(log, [entry |-> x, whole |-> FALSE])}
      BY <1>5, <2>7 DEF WriteEntry, NextEntry, Line
    <3>2. Logged' = Logged /\ InFile \subseteq InFile'
      <4>1. CASE log' = log
        BY <4>1 DEF Logged, InFile
      <4>2. CASE log' = Append(log, [entry |-> x, whole |-> FALSE])
        <5>1. [entry |-> x, whole |-> FALSE] \in [entry : Reqs, whole : BOOLEAN]
          BY <2>4
        <5>2. InFile \subseteq InFile'
          BY <2>3, <4>2, <5>1, InFileAppend
        <5> HIDE DEF x
        <5>3. Logged' = Logged
          BY <2>3, <2>4, <4>2, LoggedAppend
        <5>4. QED  BY <5>2, <5>3
      <4>3. QED  BY <3>1, <4>1, <4>2
    <3>3. Written'
      BY <3>1 DEF Written
    <3>4. PostedFollowsFile'
      BY <2>2, <3>2 DEF PostedFollowsFile
    <3>5. QED  BY <3>3, <3>4
  <2>8. QED  BY <2>5, <2>6, <2>7
<1>6. CASE WriteNewline
  <2>1. UNCHANGED <<conf, phase, log, posted>> /\ lpc = "newline"
    BY <1>6 DEF WriteNewline
  <2>2. lpc' = "recv" \/ (lpc' = "post" /\ hand' = hand)
    BY <1>6 DEF WriteNewline, NextEntry
  <2>3. Logged' = Logged /\ InFile' = InFile
    BY <2>1 DEF Logged, InFile
  <2>4. Written'
    BY <2>1, <2>2, <2>3 DEF Written
  <2>5. PostedFollowsFile'
    BY <2>1, <2>3 DEF PostedFollowsFile, Running
  <2>6. QED  BY <2>4, <2>5
<1>7. CASE Post
  <2> DEFINE x == Head(hand)
             p == posted
  <2>1. UNCHANGED <<conf, phase, log>> /\ lpc = "post" /\ lpc' = "recv" /\ posted' = Append(p, x)
    BY <1>7 DEF Post, NextEntry
  <2>2. Running /\ conf.file
    BY <2>1 DEF Shape, Stopped, Written
  <2>3. Logged' = Logged /\ InFile' = InFile
    BY <2>1 DEF Logged, InFile
  <2>4. PICK l \in Seq(Reqs) : Logged = Append(l, x) /\ x \notin Entries(l) \union Entries(p)
    BY <2>1 DEF Written
  <2>5. x \in Reqs /\ p \in Seq(Reqs)
    BY <2>1, HandType DEF Shape, TypeOK
  <2>6. /\ Entries(p) \subseteq InFile /\ p = Those(Append(l, x), Entries(p))
    BY <2>2, <2>4, PostedIs
  <2>7. Entries(Logged) = InFile
    BY LoggedType DEF Shape, TypeOK
  <2>8. Written'
    BY <2>1 DEF Written
  <2> HIDE DEF x, p
  <2>9. Append(p, x) = Those(Append(l, x), Entries(Append(p, x)))
    BY <2>4, <2>5, <2>6, LastIsPosted
  <2>10. Entries(Append(p, x)) \subseteq InFile
    <3>1. Entries(Append(p, x)) = Entries(p) \union {x} /\ Entries(Append(l, x)) = Entries(l) \union {x}
      BY <2>5, EntriesAppend
    <3>2. QED  BY <2>4, <2>6, <2>7, <3>1
  <2>11. PostedFollowsFile'
    BY <2>1, <2>3, <2>4, <2>9, <2>10 DEF PostedFollowsFile
  <2>12. QED  BY <2>8, <2>11
<1>8. CASE PostFails \/ Exit \/ DrainTimeout \/ Kill
  <2>1. ~Running' /\ lpc' = "off"
    BY <1>8 DEF PostFails, Exit, DrainTimeout, Kill, Die, Running
  <2>2. QED  BY <2>1 DEF Written, PostedFollowsFile
<1>9. CASE Start
  <2>1. posted' = <<>> /\ lpc' \in {"off", "recv"}
    BY <1>9 DEF Start, OpenAudit
  <2>2. Written'
    BY <2>1 DEF Written
  <2>3. Logged' \in Seq(Reqs)
    <3>1. TypeOK'
      BY StepType
    <3>2. (log \in Seq([entry : Reqs, whole : BOOLEAN]))'
      BY <3>1 DEF TypeOK
    <3>3. log' \in {log, <<>>}
      BY <1>9 DEF Start, OpenAudit
    <3>4. CASE log' = log
      <4>1. Logged' = Logged
        BY <3>4 DEF Logged
      <4>2. QED  BY <4>1, QueueTypes DEF Shape
    <3>5. CASE log' = <<>>
      <4>1. Logged' = LET w == Those(<<>>, Whole) IN [k \in DOMAIN w |-> w[k].entry]
        BY <3>5 DEF Logged
      <4>2. [k \in DOMAIN <<>> |-> <<>>[k].entry] = <<>>
        OBVIOUS
      <4>3. QED  BY <4>1, <4>2, ThoseEmpty, EmptySeq
    <3>6. QED  BY <3>3, <3>4, <3>5
  <2>4. Those(Logged', Entries(<<>>)) = <<>>
    <3> DEFINE l == Logged'
    <3>1. l \in Seq(Reqs)
      BY <2>3
    <3> HIDE DEF l
    <3>2. Those(l, Entries(<<>>)) = <<>>
      BY <3>1, NothingPosted
    <3>3. QED  BY <3>2 DEF l
  <2>5. PostedFollowsFile'
    BY <2>1, <2>4, NoEntries DEF PostedFollowsFile
  <2>6. QED  BY <2>2, <2>5
<1>10. QED
  BY <1>2, <1>3, <1>4, <1>5, <1>6, <1>7, <1>8, <1>9 DEF Next, Logger

(* With a file and a URL, the URL never knows of an entry the file has not    *)
(* got, and gets them in the same order.                                      *)
THEOREM PostedFollowsFileInvariant == Spec => []PostedFollowsFile
<1>1. Shape /\ Fresh /\ AuditOrder /\ Followed /\ [Next]_vars => Followed'
  BY StepFollowed
<1>2. Followed => PostedFollowsFile
  BY DEF Followed
<1>3. QED
  BY InitFollowed, ShapeInvariant, FreshInvariant, AuditOrderInvariant, <1>1, <1>2, PTL DEF Spec

=============================================================================
