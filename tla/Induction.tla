----------------------------- MODULE Induction -----------------------------
(***************************************************************************)
(* Induction without an operator as a parameter: what holds for all        *)
(* numbers is a set that has 0 and the successors of its elements, and the *)
(* body of a loop is a function.  Then what a sequence of sequences is     *)
(* when it is flattened.                                                   *)
(***************************************************************************)
EXTENDS Integers, SequencesExt, SequenceTheorems, WellFoundedInduction, TLAPS

(* Less than, as a relation on the natural numbers. *)
LessThan == OpToRel(<, Nat)

(* A set of natural numbers that is not empty has a least element. *)
LEMMA LeastElement ==
    ASSUME NEW S, S \subseteq Nat, S # {}
    PROVE  \E i \in S : \A j \in S : i <= j
<1>1. IsWellFoundedOn(LessThan, Nat)
  BY NatLessThanWellFounded DEF LessThan
<1>2. PICK i \in S : \A j \in S : ~(<<j, i>> \in LessThan)
  BY <1>1, WFMin
<1>3. ASSUME NEW j \in S PROVE i <= j
  <2>1. LessThan = {s \in Nat \X Nat : s[1] < s[2]}
    BY Zenon DEF LessThan, OpToRel
  <2>2. i \in Nat /\ j \in Nat /\ <<j, i>> \in Nat \X Nat
    OBVIOUS
  <2>3. <<j, i>>[1] = j /\ <<j, i>>[2] = i
    OBVIOUS
  <2>4. ~(j < i)
    BY <1>2, <2>1, <2>2, <2>3
  <2> QED
    BY <2>2, <2>4
<1> QED
  BY <1>3

(* A loop that counts to n keeps what holds at its start. *)
LEMMA CountingUp ==
    ASSUME NEW n \in Nat, NEW S, 0 \in S, \A k \in 0 .. n - 1 : k \in S => k + 1 \in S
    PROVE  0 .. n \subseteq S
<1> DEFINE Bad == {k \in 0 .. n : k \notin S}
<1>1. SUFFICES ASSUME Bad # {} PROVE FALSE
  OBVIOUS
<1>2. PICK k \in Bad : \A j \in Bad : k <= j
  <2>1. Bad \subseteq Nat
    OBVIOUS
  <2> HIDE DEF Bad
  <2> QED
    BY <1>1, <2>1, LeastElement
<1>3. k # 0 /\ k \in 0 .. n
  OBVIOUS
<1>4. k - 1 \in 0 .. n - 1 /\ k - 1 \in S
  BY <1>2, <1>3
<1>5. (k - 1) + 1 = k
  BY <1>3
<1> QED
  BY <1>4, <1>5

(* What holds at 0 and is passed on holds for every natural number. *)
LEMMA AllNumbers ==
    ASSUME NEW S, 0 \in S, \A k \in Nat : k \in S => k + 1 \in S
    PROVE  Nat \subseteq S
<1>1. ASSUME NEW n \in Nat PROVE n \in S
  <2>1. 0 .. n \subseteq S
    BY CountingUp
  <2> QED
    BY <2>1
<1> QED
  BY <1>1

(* g has the state of a loop after each of n rounds. *)
IsRun(g, n, base, step) ==
    g[0] = base /\ \A k \in 1 .. n : g[k] = step[k][g[k - 1]]

(* A loop has a state after each round. *)
LEMMA Loop ==
    ASSUME NEW n \in Nat, NEW T, NEW base \in T, NEW step \in [1 .. n -> [T -> T]]
    PROVE  \E g \in [0 .. n -> T] : IsRun(g, n, base, step)
<1> DEFINE Runs(g, m) == g[0] = base /\ \A k \in 1 .. m : g[k] = step[k][g[k - 1]]
           S == {m \in 0 .. n : \E g \in [0 .. m -> T] : Runs(g, m)}
<1>1. 0 \in S
  <2> DEFINE g == [k \in 0 .. 0 |-> base]
  <2>1. g \in [0 .. 0 -> T] /\ Runs(g, 0)
    OBVIOUS
  <2> HIDE DEF g, Runs
  <2> QED
    BY <2>1
<1>2. ASSUME NEW m \in 0 .. n - 1, m \in S PROVE m + 1 \in S
  <2>1. PICK g \in [0 .. m -> T] : Runs(g, m)
    BY <1>2
  <2> DEFINE h == [k \in 0 .. m + 1 |-> IF k <= m THEN g[k] ELSE step[m + 1][g[m]]]
  <2>2. step[m + 1][g[m]] \in T
    <3>1. m + 1 \in 1 .. n /\ g[m] \in T
      OBVIOUS
    <3> QED
      BY <3>1
  <2>3. h \in [0 .. m + 1 -> T]
    BY <2>2
  <2>4. Runs(h, m + 1)
    <3>1. h[0] = base
      BY <2>1
    <3>2. ASSUME NEW k \in 1 .. m + 1 PROVE h[k] = step[k][h[k - 1]]
      <4>1. CASE k <= m
        <5>1. k - 1 \in 0 .. m /\ k \in 1 .. m /\ h[k] = g[k] /\ h[k - 1] = g[k - 1]
          BY <4>1
        <5> QED
          BY <2>1, <5>1
      <4>2. CASE k = m + 1
        <5>1. k - 1 = m /\ h[k] = step[m + 1][g[m]] /\ h[m] = g[m]
          BY <4>2
        <5> QED
          BY <4>2, <5>1
      <4> QED
        BY <4>1, <4>2
    <3> QED
      BY <3>1, <3>2
  <2> HIDE DEF h, Runs
  <2> QED
    BY <2>3, <2>4
<1>3. 0 .. n \subseteq S
  <2> HIDE DEF S
  <2> QED
    BY <1>1, <1>2, CountingUp
<1> QED
  BY <1>3 DEF IsRun

(* Multiples of a positive number are apart. *)
LEMMA MultiplesApart ==
    ASSUME NEW r \in Nat, NEW i \in Nat, NEW j \in Nat, i < j
    PROVE  i * r \in Nat /\ j * r \in Nat /\ i * r + r <= j * r
<1>1. PICK k \in Nat : j = i + 1 + k
  <2>1. j - i - 1 \in Nat /\ j = i + 1 + (j - i - 1)
    OBVIOUS
  <2> QED
    BY <2>1
<1>2. k * r \in Nat /\ i * r \in Nat
  OBVIOUS
<1>3. j * r = i * r + r + k * r
  BY <1>1
<1> QED
  BY <1>2, <1>3

(* What a sequence is made of. *)
LEMMA SeqMade ==
    ASSUME NEW T, NEW n \in Nat, NEW f \in [1 .. n -> T]
    PROVE  f \in Seq(T) /\ Len(f) = n
OBVIOUS

-----------------------------------------------------------------------------
(* Texts, and texts that follow each other.                                *)
Text == Seq(Int)

(* f has what the first sequences of seqs are together. *)
IsFlat(f, seqs) ==
    /\ f \in [0 .. Len(seqs) -> Text]
    /\ f[0] = <<>>
    /\ \A k \in 1 .. Len(seqs) : f[k] = f[k - 1] \o seqs[k]

LEMMA Flattened ==
    ASSUME NEW seqs \in Seq(Text)
    PROVE  \E f : IsFlat(f, seqs) /\ FlattenSeq(seqs) = f[Len(seqs)]
<1> DEFINE n == Len(seqs)
           step == [k \in 1 .. n |-> [t \in Text |-> t \o seqs[k]]]
           body(f) == [i \in 1 .. n |-> IF i = 1 THEN seqs[i] ELSE f[i - 1] \o seqs[i]]
<1>1. n \in Nat /\ step \in [1 .. n -> [Text -> Text]] /\ <<>> \in Text
  <2>1. \A k \in 1 .. n : seqs[k] \in Text
    OBVIOUS
  <2>2. \A t \in Text : \A u \in Text : t \o u \in Text
    BY DEF Text
  <2>3. \A k \in 1 .. n : [t \in Text |-> t \o seqs[k]] \in [Text -> Text]
    BY <2>1, <2>2
  <2>4. n \in Nat /\ <<>> \in Text
    BY DEF Text
  <2> QED
    BY <2>3, <2>4
<1>2. PICK g \in [0 .. n -> Text] : IsRun(g, n, <<>>, step)
  <2> HIDE DEF n, step
  <2> QED
    BY <1>1, Loop
<1>3. g[0] = <<>> /\ \A k \in 1 .. n : g[k] = g[k - 1] \o seqs[k]
  <2>1. \A k \in 1 .. n : g[k] = g[k - 1] \o seqs[k]
    <3> TAKE k \in 1 .. n
    <3>1. k - 1 \in 0 .. n /\ g[k - 1] \in Text
      BY <1>1
    <3> QED
      BY <1>2, <3>1 DEF IsRun
  <2> QED
    BY <1>2, <2>1 DEF IsRun
<1>4. IsFlat(g, seqs)
  BY <1>3 DEF IsFlat
<1>5. CASE n = 0
  <2>1. seqs = <<>> /\ FlattenSeq(seqs) = seqs
    BY <1>5 DEF FlattenSeq
  <2> QED
    BY <1>3, <1>4, <1>5, <2>1
<1>6. CASE n # 0
  <2>1. g[1] = seqs[1]
    <3>1. 1 \in 1 .. n /\ g[1] = g[0] \o seqs[1]
      <4>1. 1 \in 1 .. n /\ 1 - 1 = 0
        BY <1>1, <1>6
      <4>2. g[1] = g[1 - 1] \o seqs[1]
        BY <1>3, <4>1
      <4> QED
        BY <4>1, <4>2
    <3>2. <<>> \o seqs[1] = seqs[1]
      BY <1>1, <3>1, ConcatEmptySeq DEF Text
    <3> QED
      BY <1>3, <3>1, <3>2
  <2> DEFINE h == [i \in 1 .. n |-> g[i]]
  <2>2. h = body(h)
    <3>1. ASSUME NEW i \in 1 .. n, i # 1 PROVE g[i] = h[i - 1] \o seqs[i]
      <4>1. i - 1 \in 1 .. n
        BY <1>1, <3>1
      <4> QED
        BY <1>3, <4>1
    <3>2. \A i \in 1 .. n : h[i] = body(h)[i]
      BY <2>1, <3>1
    <3>3. DOMAIN h = DOMAIN body(h)
      OBVIOUS
    <3> QED
      BY <3>2, <3>3
  <2> DEFINE f == CHOOSE f : f = body(f)
  <2>3. f = body(f)
    BY <2>2
  <2>4. FlattenSeq(seqs) = f[n]
    BY <1>6 DEF FlattenSeq
  <2> HIDE DEF f, h
  <2> DEFINE S == {k \in 0 .. n - 1 : f[k + 1] = g[k + 1]}
  <2>5. n - 1 \in Nat
    BY <1>1, <1>6
  <2>6. 0 \in S
    <3>1. 0 \in 0 .. n - 1 /\ 0 + 1 = 1 /\ 1 \in 1 .. n
      BY <2>5
    <3>2. f[1] = seqs[1]
      BY <2>3, <3>1
    <3> QED
      BY <2>1, <3>1, <3>2
  <2>7. \A k \in 0 .. (n - 1) - 1 : k \in S => k + 1 \in S
    <3> SUFFICES ASSUME NEW k \in 0 .. (n - 1) - 1, f[k + 1] = g[k + 1] PROVE k + 1 \in S
      OBVIOUS
    <3>1. k + 2 \in 1 .. n /\ k + 2 # 1 /\ (k + 2) - 1 = k + 1 /\ k + 1 \in 0 .. n - 1 /\ (k + 1) + 1 = k + 2
      BY <2>5
    <3>2. f[k + 2] = f[(k + 2) - 1] \o seqs[k + 2]
      BY <2>3, <3>1
    <3>3. g[k + 2] = g[(k + 2) - 1] \o seqs[k + 2]
      BY <1>3, <3>1
    <3> QED
      BY <3>1, <3>2, <3>3
  <2>8. 0 .. n - 1 \subseteq S
    <3> HIDE DEF S, n
    <3> QED
      BY <2>5, <2>6, <2>7, CountingUp
  <2>9. f[n] = g[n]
    <3>1. n - 1 \in 0 .. n - 1 /\ (n - 1) + 1 = n
      BY <2>5
    <3> QED
      BY <2>8, <3>1
  <2> QED
    BY <1>4, <2>4, <2>9
<1> QED
  BY <1>5, <1>6
=============================================================================
