----------------------------- MODULE ToolsProofs -----------------------------
(***************************************************************************)
(* Proofs about the codes of Codes, for every text of bytes, every size of *)
(* the blocks in which a file is read and of the lines of a dump.          *)
(***************************************************************************)
EXTENDS Tools, Induction

(* What a number divided by n is, and what is left.                        *)
LEMMA Quotient ==
    ASSUME NEW a \in Nat, NEW w \in Nat \ {0}
    PROVE  a \div w \in Nat /\ (a \div w) * w <= a /\ a < (a \div w) * w + w
<1> DEFINE i == a \div w
<1>1. i \in Nat /\ i * w <= a /\ a < i * w + w
  OBVIOUS
<1> QED
  BY <1>1

(* The end of the k-th piece, of n characters each, of l characters.       *)
PieceEnd(l, w, k) == IF k * w <= l THEN k * w ELSE l

Counted(l, w, q) ==
    /\ q \in Nat /\ (q = 0 <=> l = 0) /\ l <= q * w
    /\ \A k \in 1 .. q : (k - 1) * w \in Nat /\ (k - 1) * w < l /\ k * w = (k - 1) * w + w
    /\ \A k \in 0 .. q - 1 : k * w < l

LEMMA PieceCount ==
    ASSUME NEW l \in Nat, NEW w \in Nat \ {0}, NEW q, q = (l + w - 1) \div w
    PROVE  Counted(l, w, q)
<1>1. q \in Nat /\ q * w <= l + w - 1 /\ l + w - 1 < q * w + w
  <2>1. l + w - 1 \in Nat
    OBVIOUS
  <2> QED
    BY <2>1, Quotient
<1>2. \A k \in Nat : k < q => k * w <= q * w - w
  <2> SUFFICES ASSUME NEW k \in Nat, k < q PROVE k * w <= q * w - w
    OBVIOUS
  <2>1. k * w \in Nat /\ q * w \in Nat /\ k * w + w <= q * w
    BY <1>1, MultiplesApart
  <2> QED
    BY <2>1
<1>3. \A k \in 0 .. q - 1 : k * w \in Nat /\ k * w < l
  <2> TAKE k \in 0 .. q - 1
  <2>1. k \in Nat /\ k < q /\ k * w \in Nat /\ q * w \in Nat
    BY <1>1
  <2>2. k * w <= q * w - w
    BY <1>2, <2>1
  <2> QED
    BY <1>1, <2>1, <2>2
<1>4. l <= q * w
  BY <1>1
<1>5. \A k \in 1 .. q : k * w = (k - 1) * w + w
  BY <1>1
<1>6. q = 0 <=> l = 0
  <2>1. q = 0 => q * w = 0
    OBVIOUS
  <2>2. q # 0 => 0 \in 0 .. q - 1 /\ 0 * w = 0
    BY <1>1
  <2> QED
    BY <1>3, <1>4, <2>1, <2>2
<1>7. \A k \in 1 .. q : k - 1 \in 0 .. q - 1
  BY <1>1
<1> QED
  BY <1>1, <1>3, <1>4, <1>5, <1>6, <1>7 DEF Counted

LEMMA TextsJoined ==
    ASSUME NEW u \in Text, NEW v \in Text
    PROVE  /\ u \o v \in Text /\ Len(u \o v) = Len(u) + Len(v) /\ Len(u) \in Nat /\ Len(v) \in Nat
           /\ \A i \in 1 .. Len(u) : (u \o v)[i] = u[i]
           /\ \A i \in Len(u) + 1 .. Len(u) + Len(v) : (u \o v)[i] = v[i - Len(u)]
BY DEF Text

(* Sequences that are, one after another, what stands between the places   *)
(* of o in a text are the text when they are joined.                       *)
ArePieces(seqs, o, t) ==
    /\ o \in [0 .. Len(seqs) -> Nat] /\ o[0] = 0 /\ o[Len(seqs)] = Len(t)
    /\ \A k \in 1 .. Len(seqs) :
          o[k] = o[k - 1] + Len(seqs[k]) /\ \A j \in 1 .. Len(seqs[k]) : seqs[k][j] = t[o[k - 1] + j]

LEMMA JoinedPieces ==
    ASSUME NEW t \in Text, NEW seqs \in Seq(Text), NEW o, ArePieces(seqs, o, t)
    PROVE  FlattenSeq(seqs) = t
<1> DEFINE last == Len(seqs)
<1>1. PICK f : IsFlat(f, seqs) /\ FlattenSeq(seqs) = f[last]
  BY Flattened
<1>2. last \in Nat /\ \A k \in 1 .. last : seqs[k] \in Text
  OBVIOUS
<1> HIDE DEF last
<1> DEFINE Begins(u, c) == Len(u) = c /\ \A i \in 1 .. c : u[i] = t[i]
           S == {k \in 0 .. last : Begins(f[k], o[k])}
<1>3. 0 \in S
  BY <1>1, <1>2 DEF IsFlat, ArePieces, last
<1>4. ASSUME NEW k \in 0 .. last - 1, Begins(f[k], o[k]) PROVE k + 1 \in S
  <2>1. k + 1 \in 1 .. last /\ (k + 1) - 1 = k /\ k \in 0 .. last /\ k + 1 \in 0 .. last
    BY <1>2
  <2> DEFINE u == f[k]
             v == seqs[k + 1]
  <2>2. f[k + 1] = u \o v /\ u \in Text /\ v \in Text
    BY <1>1, <1>2, <2>1 DEF IsFlat, last
  <2>3. /\ o[k] \in Nat /\ o[k + 1] = o[k] + Len(v)
        /\ \A j \in 1 .. Len(v) : v[j] = t[o[k] + j]
    BY <2>1 DEF ArePieces, last
  <2>4. Len(u) = o[k] /\ \A i \in 1 .. o[k] : u[i] = t[i]
    BY <1>4
  <2> HIDE DEF u, v
  <2> DEFINE c == u \o v
             a == Len(u)
  <2>5. /\ c \in Text /\ Len(c) = a + Len(v) /\ a \in Nat /\ Len(v) \in Nat
        /\ \A i \in 1 .. a : c[i] = u[i]
        /\ \A i \in a + 1 .. a + Len(v) : c[i] = v[i - a]
    BY <2>2, TextsJoined
  <2> HIDE DEF c, a
  <2>6. a = o[k] /\ \A i \in 1 .. a : u[i] = t[i]
    BY <2>4 DEF a
  <2>7. ASSUME NEW i \in 1 .. a + Len(v) PROVE c[i] = t[i]
    <3>1. CASE i <= a
      <4>1. i \in 1 .. a
        BY <2>5, <3>1
      <4> QED
        BY <2>5, <2>6, <4>1
    <3>2. CASE i > a
      <4>1. i - a \in 1 .. Len(v) /\ i \in a + 1 .. a + Len(v) /\ a + (i - a) = i
        BY <2>5, <3>2
      <4> QED
        BY <2>3, <2>5, <2>6, <4>1
    <3> QED
      BY <2>5, <3>1, <3>2
  <2>8. Len(c) = o[k + 1] /\ \A i \in 1 .. o[k + 1] : c[i] = t[i]
    BY <2>3, <2>5, <2>6, <2>7
  <2> QED
    BY <2>1, <2>2, <2>8 DEF c
<1>5. 0 .. last \subseteq S
  <2> HIDE DEF S
  <2>1. \A k \in 0 .. last - 1 : k \in S => k + 1 \in S
    BY <1>4 DEF S
  <2> QED
    BY <1>2, <1>3, <2>1, CountingUp
<1>6. f[last] \in Text /\ Begins(f[last], Len(t))
  BY <1>1, <1>2, <1>5 DEF IsFlat, ArePieces, last
<1>7. f[last] = t
  BY <1>6, SeqEqual DEF Text
<1> QED
  BY <1>1, <1>7

LEMMA MinOfTwo ==
    ASSUME NEW a \in Int, NEW b \in Int
    PROVE  Min({a, b}) = IF a <= b THEN a ELSE b
<1> DEFINE least == IF a <= b THEN a ELSE b
<1>1. least \in {a, b} /\ \A y \in {a, b} : least <= y
  OBVIOUS
<1>2. \A x \in {a, b} : (\A y \in {a, b} : x <= y) => x = least
  OBVIOUS
<1> HIDE DEF least
<1>3. Min({a, b}) = least
  BY <1>1, <1>2 DEF Min
<1> QED
  BY <1>3 DEF least

(* The k-th of the groups of w characters of s.                            *)
IsGroup(g, s, w, k) ==
    /\ g \in Text /\ Len(g) \in 1 .. w
    /\ (k - 1) * w \in Nat
    /\ (k - 1) * w + Len(g) = PieceEnd(Len(s), w, k) /\ PieceEnd(Len(s), w, k) \in 1 .. Len(s)
    /\ \A j \in 1 .. Len(g) : g[j] = s[(k - 1) * w + j]

LEMMA TextBetween ==
    ASSUME NEW s \in Text, NEW a \in 1 .. Len(s), NEW b \in a .. Len(s)
    PROVE  /\ SubSeq(s, a, b) \in Text /\ Len(SubSeq(s, a, b)) = b - a + 1
           /\ \A j \in 1 .. b - a + 1 : SubSeq(s, a, b)[j] = s[(a - 1) + j]
BY DEF Text

LEMMA GroupFacts ==
    ASSUME NEW s \in Text, NEW w \in Nat \ {0}
    PROVE  /\ Groups(s, w) \in Seq(Text)
           /\ Len(Groups(s, w)) = (Len(s) + w - 1) \div w
           /\ \A k \in 1 .. Len(Groups(s, w)) : IsGroup(Groups(s, w)[k], s, w, k)
<1> DEFINE l == Len(s)
           q == (l + w - 1) \div w
           g(k) == SubSeq(s, (k - 1) * w + 1, Min({k * w, l}))
<1>1. l \in Nat
  BY DEF Text
<1>2. /\ q \in Nat
      /\ \A k \in 1 .. q : (k - 1) * w \in Nat /\ (k - 1) * w < l /\ k * w = (k - 1) * w + w
  <2> HIDE DEF l
  <2>1. Counted(l, w, q)
    BY <1>1, PieceCount
  <2> QED
    BY <2>1 DEF Counted
<1> HIDE DEF q
<1>3. ASSUME NEW k \in 1 .. q PROVE IsGroup(g(k), s, w, k)
  <2> DEFINE a == (k - 1) * w
             b == PieceEnd(l, w, k)
  <2>1. a \in Nat /\ a < l /\ k * w = a + w
    BY <1>2
  <2>2. b \in a + 1 .. l /\ b - a \in 1 .. w /\ b = IF a + w <= l THEN a + w ELSE l
    <3> HIDE DEF a, l
    <3> QED
      BY <1>1, <2>1 DEF PieceEnd
  <2>3. Min({k * w, l}) = b
    <3> HIDE DEF a, l
    <3>1. k * w \in Int /\ l \in Int
      BY <1>1, <2>1
    <3> QED
      BY <3>1, MinOfTwo DEF PieceEnd
  <2> HIDE DEF a, b
  <2>4. g(k) = SubSeq(s, a + 1, b)
    BY <2>3 DEF a
  <2>5. a + 1 \in 1 .. l /\ b \in a + 1 .. l /\ b - (a + 1) + 1 = b - a /\ (a + 1) - 1 = a
    <3> HIDE DEF l
    <3> QED
      BY <1>1, <2>1, <2>2
  <2> DEFINE p == SubSeq(s, a + 1, b)
  <2>6. p \in Text /\ Len(p) = b - a /\ \A j \in 1 .. b - a : p[j] = s[a + j]
    BY <2>5, TextBetween
  <2> HIDE DEF p
  <2>7. a + Len(p) = b /\ b \in 1 .. l
    <3> HIDE DEF l
    <3> QED
      BY <1>1, <2>1, <2>2, <2>6
  <2>8. IsGroup(p, s, w, k)
    BY <2>1, <2>2, <2>6, <2>7 DEF IsGroup, a, b
  <2> QED
    BY <2>4, <2>8 DEF p
<1>4. Groups(s, w) = [k \in 1 .. q |-> g(k)]
  BY DEF Groups, q
<1> HIDE DEF g
<1>5. [k \in 1 .. q |-> g(k)] \in [1 .. q -> Text]
  BY <1>3 DEF IsGroup
<1>6. [k \in 1 .. q |-> g(k)] \in Seq(Text) /\ Len([k \in 1 .. q |-> g(k)]) = q
  BY <1>2, <1>5, SeqMade
<1> QED
  BY <1>3, <1>4, <1>6 DEF q

LEMMA PieceEnds ==
    ASSUME NEW s \in Text, NEW w \in Nat \ {0}
    PROVE  /\ \A k \in 0 .. Len(Groups(s, w)) : PieceEnd(Len(s), w, k) \in Nat
           /\ PieceEnd(Len(s), w, 0) = 0 /\ PieceEnd(Len(s), w, Len(Groups(s, w))) = Len(s)
           /\ \A k \in 1 .. Len(Groups(s, w)) : PieceEnd(Len(s), w, k - 1) = (k - 1) * w
           /\ Len(Groups(s, w)) \in Nat /\ Len(s) \in Nat
<1> DEFINE q == Len(Groups(s, w))
           l == Len(s)
<1>1. l \in Nat /\ q = (l + w - 1) \div w
  BY GroupFacts DEF Text
<1> HIDE DEF q, l
<1>2. /\ q \in Nat /\ (q = 0 <=> l = 0) /\ l <= q * w
      /\ \A k \in 1 .. q : (k - 1) * w \in Nat /\ (k - 1) * w < l /\ k * w = (k - 1) * w + w
  <2>1. Counted(l, w, q)
    BY <1>1, PieceCount
  <2> QED
    BY <2>1 DEF Counted
<1>3. \A k \in 0 .. q : k * w \in Nat
  BY <1>2
<1>4. \A k \in 0 .. q : PieceEnd(l, w, k) \in Nat
  BY <1>1, <1>3 DEF PieceEnd
<1>5. PieceEnd(l, w, 0) = 0
  BY <1>1 DEF PieceEnd
<1>6. PieceEnd(l, w, q) = l
  <2>1. q * w \in Nat
    BY <1>2
  <2> QED
    BY <1>1, <1>2, <2>1 DEF PieceEnd
<1>7. \A k \in 1 .. q : PieceEnd(l, w, k - 1) = (k - 1) * w
  BY <1>1, <1>2 DEF PieceEnd
<1> QED
  BY <1>1, <1>2, <1>4, <1>5, <1>6, <1>7 DEF q, l

(* The groups are the string, in order. *)
LEMMA FlatGroups ==
    ASSUME NEW s \in Text, NEW w \in Nat \ {0}
    PROVE  FlattenSeq(Groups(s, w)) = s
<1> DEFINE G == Groups(s, w)
           q == Len(G)
           l == Len(s)
           o == [k \in 0 .. q |-> PieceEnd(l, w, k)]
<1>1. l \in Nat /\ G \in Seq(Text) /\ \A k \in 1 .. q : IsGroup(G[k], s, w, k)
  BY GroupFacts DEF Text
<1>2. /\ \A k \in 0 .. q : PieceEnd(l, w, k) \in Nat
      /\ PieceEnd(l, w, 0) = 0 /\ PieceEnd(l, w, q) = l
      /\ \A k \in 1 .. q : PieceEnd(l, w, k - 1) = (k - 1) * w
      /\ q \in Nat
  BY PieceEnds
<1> HIDE DEF G, q, l
<1>3. o \in [0 .. q -> Nat] /\ o[0] = 0 /\ o[q] = l
  BY <1>2
<1>4. ASSUME NEW k \in 1 .. q
      PROVE  o[k] = o[k - 1] + Len(G[k]) /\ \A j \in 1 .. Len(G[k]) : G[k][j] = s[o[k - 1] + j]
  <2>1. k \in 0 .. q /\ k - 1 \in 0 .. q
    BY <1>2
  <2>2. IsGroup(G[k], s, w, k)
    BY <1>1
  <2>3. o[k - 1] = (k - 1) * w
    BY <1>2, <2>1
  <2>4. o[k] = PieceEnd(l, w, k)
    BY <2>1
  <2> HIDE DEF o
  <2> QED
    BY <2>2, <2>3, <2>4 DEF IsGroup, l
<1> HIDE DEF o
<1>5. ArePieces(G, o, s)
  BY <1>3, <1>4 DEF ArePieces, q, l
<1> QED
  BY <1>1, <1>5, JoinedPieces DEF G

-----------------------------------------------------------------------------
(* Hexadecimal.                                                            *)
Bytes == Seq(Byte)

LEMMA BytesAreText ==
    ASSUME NEW s \in Bytes
    PROVE  /\ s \in Text /\ Len(s) \in Nat /\ DOMAIN s = 1 .. Len(s)
           /\ \A i \in 1 .. Len(s) : s[i] \in Byte /\ s[i] \in Int /\ 0 <= s[i] /\ s[i] < 256
<1>1. Byte \subseteq Int /\ \A b \in Byte : b \in Int /\ 0 <= b /\ b < 256
  BY DEF Byte
<1>2. Seq(Byte) \subseteq Seq(Int)
  BY <1>1, SeqMonotonic
<1>3. Len(s) \in Nat /\ DOMAIN s = 1 .. Len(s) /\ \A i \in 1 .. Len(s) : s[i] \in Byte
  BY DEF Bytes
<1> QED
  BY <1>1, <1>2, <1>3 DEF Bytes, Text

(* A half of a byte is written as a digit, of either case, and read back.  *)
LEMMA DigitRead ==
    ASSUME NEW v \in 0 .. 15
    PROVE  /\ Digit(v) \in HexChars /\ Value(Digit(v)) = v /\ Digit(v) \in Int
           /\ Lower(Digit(v)) \in HexChars /\ Value(Lower(Digit(v))) = v /\ Lower(Digit(v)) \in Int
           /\ Digit(v) # Colon /\ Digit(v) # 32 /\ Lower(Digit(v)) # 32
<1>1. v \in Int /\ 0 <= v /\ v < 16
  OBVIOUS
<1>2. CASE v < 10
  <2>1. Digit(v) = v + 48
    BY <1>2 DEF Digit
  <2>2. Lower(v + 48) = v + 48 /\ Value(v + 48) = v
    BY <1>1, <1>2 DEF Lower, Value
  <2>3. v + 48 \in HexChars
    BY <1>1, <1>2 DEF HexChars
  <2> QED
    BY <1>1, <1>2, <2>1, <2>2, <2>3 DEF Colon
<1>3. CASE v >= 10
  <2>1. Digit(v) = v + 55
    BY <1>1, <1>3 DEF Digit
  <2>2. Lower(v + 55) = v + 87 /\ Value(v + 55) = v /\ Value(v + 87) = v
    BY <1>1, <1>3 DEF Lower, Value
  <2>3. v + 55 \in HexChars /\ v + 87 \in HexChars
    BY <1>1, <1>3 DEF HexChars
  <2> QED
    BY <1>1, <1>3, <2>1, <2>2, <2>3 DEF Colon
<1> QED
  BY <1>1, <1>2, <1>3

LEMMA Halves ==
    ASSUME NEW b \in Byte
    PROVE  b \div 16 \in 0 .. 15 /\ b % 16 \in 0 .. 15 /\ 16 * (b \div 16) + 1 * (b % 16) = b
BY DEF Byte

(* A byte or-ed into a zero. *)
LEMMA OrZero == ASSUME NEW b \in Byte PROVE Or(0, b) = b
<1> DEFINE At(p) == IF Bit(b, p) = 1 THEN p ELSE 0
<1>1. b \in Int /\ 0 <= b /\ b < 256
  BY DEF Byte
<1>2. Or(0, b) = At(128) + At(64) + At(32) + At(16) + At(8) + At(4) + At(2) + At(1)
  <2>1. \A p \in {128, 64, 32, 16, 8, 4, 2, 1} : Bit(0, p) # 1
    BY DEF Bit
  <2> QED
    BY <2>1 DEF Or, OfBits
<1>3. At(128) + At(64) + At(32) + At(16) + At(8) + At(4) + At(2) + At(1) = b
  BY <1>1 DEF Bit
<1> QED
  BY <1>2, <1>3

(* d has the digits of the bytes of s. *)
IsHexOf(d, s) ==
    /\ d \in Text /\ Len(d) = 2 * Len(s)
    /\ \A i \in 1 .. Len(s) :
          /\ d[2 * i - 1] \in HexChars /\ Value(d[2 * i - 1]) = s[i] \div 16
          /\ d[2 * i] \in HexChars /\ Value(d[2 * i]) = s[i] % 16

(* Every place is the first or the second of a pair. *)
LEMMA Paired ==
    ASSUME NEW l \in Nat, NEW i \in Nat, 1 <= i, i <= 2 * l
    PROVE  \E k \in 1 .. l : i = 2 * k - 1 \/ i = 2 * k
<1>1. CASE i % 2 = 0
  <2>1. i = 2 * (i \div 2)
    BY <1>1
  <2>2. i \div 2 \in 1 .. l
    BY <2>1
  <2> QED
    BY <2>1, <2>2
<1>2. CASE i % 2 # 0
  <2>1. i = 2 * (i \div 2) + 1
    BY <1>2
  <2>2. (i \div 2) + 1 \in 1 .. l /\ i = 2 * ((i \div 2) + 1) - 1
    BY <2>1
  <2> QED
    BY <2>2
<1> QED
  BY <1>1, <1>2

(* c bytes that were zero begin with s when the digits of s are or-ed in.  *)
LEMMA DigitsRead ==
    ASSUME NEW s \in Bytes, NEW d, IsHexOf(d, s), NEW c \in Nat, Len(s) <= c
    PROVE  /\ Digits(d) = d
           /\ OrDigits(d, Zeros(c)) \in Text /\ Len(OrDigits(d, Zeros(c))) = c
           /\ \A k \in 1 .. Len(s) : OrDigits(d, Zeros(c))[k] = s[k]
<1> DEFINE l == Len(s)
           Half(i, shift) == IF i \in DOMAIN d THEN shift * Value(d[i]) ELSE 0
           At(k) == Or(Zeros(c)[k], Half(2 * k - 1, 16) + Half(2 * k, 1))
           r == [k \in 1 .. c |-> At(k)]
<1>1. l \in Nat /\ \A i \in 1 .. l : s[i] \in Byte
  BY BytesAreText
<1>2. Len(d) = 2 * l /\ DOMAIN d = 1 .. 2 * l /\ d \in Text
  BY DEF IsHexOf, Text
<1> HIDE DEF l
<1>3. ASSUME NEW i \in DOMAIN d PROVE d[i] \in HexChars
  <2>1. PICK k \in 1 .. l : i = 2 * k - 1 \/ i = 2 * k
    <3>1. i \in Nat /\ 1 <= i /\ i <= 2 * l
      BY <1>1, <1>2
    <3> QED
      BY <1>1, <3>1, Paired
  <2> QED
    BY <2>1 DEF IsHexOf, l
<1>4. Digits(d) = d
  BY <1>3 DEF Digits
<1>5. DOMAIN Zeros(c) = 1 .. c /\ \A k \in 1 .. c : Zeros(c)[k] = 0
  BY DEF Zeros
<1>6. OrDigits(d, Zeros(c)) = r
  BY <1>5 DEF OrDigits
<1>7. \A k \in 1 .. c : r[k] = At(k)
  OBVIOUS
<1>8. \A x, y : Or(x, y) \in Int
  BY DEF Or, OfBits
<1>9. r \in [1 .. c -> Int]
  BY <1>8
<1>10. r \in Text /\ Len(r) = c
  BY <1>9, SeqMade DEF Text
<1>11. ASSUME NEW k \in 1 .. l PROVE At(k) = s[k]
  <2>1. 2 * k - 1 \in DOMAIN d /\ 2 * k \in DOMAIN d /\ k \in 1 .. c
    BY <1>1, <1>2 DEF l
  <2>2. Value(d[2 * k - 1]) = s[k] \div 16 /\ Value(d[2 * k]) = s[k] % 16
    BY DEF IsHexOf, l
  <2>3. Half(2 * k - 1, 16) = 16 * (s[k] \div 16) /\ Half(2 * k, 1) = 1 * (s[k] % 16)
    BY <2>1, <2>2
  <2> HIDE DEF Half
  <2>4. s[k] \in Byte /\ Zeros(c)[k] = 0
    BY <1>1, <1>5, <2>1
  <2>5. Half(2 * k - 1, 16) + Half(2 * k, 1) = s[k]
    BY <2>3, <2>4, Halves
  <2> QED
    BY <2>4, <2>5, OrZero
<1> HIDE DEF r, At
<1>12. \A k \in 1 .. l : k \in 1 .. c
  BY <1>1 DEF l
<1> QED
  BY <1>4, <1>6, <1>7, <1>10, <1>11, <1>12 DEF l

(* Digits are read back as the bytes they were written of. *)
LEMMA HexRead == ASSUME NEW s \in Bytes, NEW d, IsHexOf(d, s) PROVE Digits(d) = d /\ hex2bin(d) = s
<1> DEFINE c == Len(d) \div 2
           r == OrDigits(d, Zeros(c))
<1>1. Len(s) \in Nat /\ c = Len(s)
  BY BytesAreText DEF IsHexOf
<1> HIDE DEF c
<1>2. Digits(d) = d /\ r \in Text /\ Len(r) = c /\ \A k \in 1 .. Len(s) : r[k] = s[k]
  BY <1>1, DigitsRead
<1> HIDE DEF r
<1>3. r = s
  BY <1>1, <1>2, BytesAreText, SeqEqual DEF Text
<1> QED
  BY <1>2, <1>3 DEF hex2bin, r, c

(* bin2hex writes two digits for each byte. *)
LEMMA HexPlaces ==
    ASSUME NEW s \in Bytes
    PROVE  /\ bin2hex(s) \in Text /\ Len(bin2hex(s)) = 2 * Len(s)
           /\ \A i \in 1 .. Len(s) : /\ bin2hex(s)[2 * i - 1] = Digit(s[i] \div 16)
                                     /\ bin2hex(s)[2 * i] = Digit(s[i] % 16)
<1> DEFINE l == Len(s)
           At(i) == IF i % 2 = 1 THEN Digit(s[(i + 1) \div 2] \div 16) ELSE Digit(s[i \div 2] % 16)
           d == [i \in 1 .. 2 * l |-> At(i)]
<1>1. l \in Nat /\ 2 * l \in Nat /\ \A i \in 1 .. l : s[i] \in Byte
  BY BytesAreText
<1>2. bin2hex(s) = d
  BY DEF bin2hex
<1> HIDE DEF l
<1>3. \A i \in 1 .. 2 * l : At(i) \in Int
  <2> TAKE i \in 1 .. 2 * l
  <2>1. i % 2 = 1 => (i + 1) \div 2 \in 1 .. l
    BY <1>1
  <2>2. i % 2 # 1 => i \div 2 \in 1 .. l
    BY <1>1
  <2> QED
    BY <1>1, <2>1, <2>2, Halves, DigitRead
<1>4. d \in [1 .. 2 * l -> Int]
  BY <1>3
<1>5. d \in Text /\ Len(d) = 2 * l
  BY <1>1, <1>4, SeqMade DEF Text
<1>6. ASSUME NEW i \in 1 .. l
      PROVE  d[2 * i - 1] = Digit(s[i] \div 16) /\ d[2 * i] = Digit(s[i] % 16)
  <2>1. /\ 2 * i - 1 \in 1 .. 2 * l /\ 2 * i \in 1 .. 2 * l
        /\ (2 * i - 1) % 2 = 1 /\ ((2 * i - 1) + 1) \div 2 = i
        /\ (2 * i) % 2 = 0 /\ (2 * i) \div 2 = i
    BY <1>1
  <2>2. At(2 * i - 1) = Digit(s[i] \div 16)
    BY <2>1
  <2>3. At(2 * i) = Digit(s[i] % 16)
    BY <2>1
  <2> HIDE DEF At
  <2> QED
    BY <2>1, <2>2, <2>3
<1> HIDE DEF d
<1> QED
  BY <1>2, <1>5, <1>6 DEF l

LEMMA HexWritten == ASSUME NEW s \in Bytes PROVE IsHexOf(bin2hex(s), s)
<1>1. \A i \in 1 .. Len(s) : s[i] \div 16 \in 0 .. 15 /\ s[i] % 16 \in 0 .. 15
  BY BytesAreText, Halves
<1> QED
  BY <1>1, HexPlaces, DigitRead DEF IsHexOf

LEMMA HexReadBack ==
    ASSUME NEW s \in Bytes PROVE Digits(bin2hex(s)) = bin2hex(s) /\ hex2bin(bin2hex(s)) = s
  BY HexRead, HexWritten

-----------------------------------------------------------------------------
(* Orthogonal codes.  The bits of a sum of different powers of two.        *)
LEMMA BitsOfSum ==
    ASSUME NEW a \in {0, 128}, NEW b \in {0, 64}, NEW c \in {0, 32}, NEW d \in {0, 16},
           NEW e \in {0, 8}, NEW f \in {0, 4}, NEW g \in {0, 2}, NEW h \in {0, 1},
           NEW x, x = a + b + c + d + e + f + g + h
    PROVE  /\ Bit(x, 128) = 1 <=> a = 128
           /\ Bit(x, 64) = 1 <=> b = 64
           /\ Bit(x, 32) = 1 <=> c = 32
           /\ Bit(x, 16) = 1 <=> d = 16
           /\ Bit(x, 8) = 1 <=> e = 8
           /\ Bit(x, 4) = 1 <=> f = 4
           /\ Bit(x, 2) = 1 <=> g = 2
           /\ Bit(x, 1) = 1 <=> h = 1
           /\ x \in Byte
<1>1. x \in Int /\ 0 <= x /\ x < 256
  OBVIOUS
<1>2. /\ x \div 128 = a \div 128
      /\ x \div 64 = 2 * (x \div 128) + b \div 64
      /\ x \div 32 = 2 * (x \div 64) + c \div 32
      /\ x \div 16 = 2 * (x \div 32) + d \div 16
      /\ x \div 8 = 2 * (x \div 16) + e \div 8
      /\ x \div 4 = 2 * (x \div 8) + f \div 4
      /\ x \div 2 = 2 * (x \div 4) + g \div 2
      /\ x \div 1 = 2 * (x \div 2) + h
  OBVIOUS
<1> QED
  BY <1>1, <1>2 DEF Bit, Byte

(* A byte is the sum of its bits. *)
LEMMA SumOfBits ==
    ASSUME NEW b \in Byte
    PROVE  b = OfBits(LAMBDA p : Bit(b, p) = 1)
<1>1. b \in Int /\ 0 <= b /\ b < 256
  BY DEF Byte
<1> QED
  BY <1>1 DEF OfBits, Bit

(* What is xor-ed twice is what it was. *)
LEMMA XorBack == ASSUME NEW b \in Byte, NEW c \in Byte PROVE Xor(b, c) \in Byte /\ Xor(Xor(b, c), c) = b
<1> DEFINE At(p) == IF Bit(b, p) # Bit(c, p) THEN p ELSE 0
           x == Xor(b, c)
           Again(p) == IF Bit(x, p) # Bit(c, p) THEN p ELSE 0
<1>1. x = At(128) + At(64) + At(32) + At(16) + At(8) + At(4) + At(2) + At(1)
  BY DEF Xor, OfBits
<1>2. Xor(x, c) = Again(128) + Again(64) + Again(32) + Again(16) + Again(8) + Again(4) + Again(2) + Again(1)
  BY DEF Xor, OfBits
<1> HIDE DEF x
<1>3. \A p \in {128, 64, 32, 16, 8, 4, 2, 1} : At(p) \in {0, p} /\ (At(p) = p <=> Bit(b, p) # Bit(c, p))
  OBVIOUS
<1> HIDE DEF At
<1>4. x \in Byte /\ \A p \in {128, 64, 32, 16, 8, 4, 2, 1} : Bit(x, p) = 1 <=> At(p) = p
  <2>1. /\ At(128) \in {0, 128} /\ At(64) \in {0, 64} /\ At(32) \in {0, 32} /\ At(16) \in {0, 16}
        /\ At(8) \in {0, 8} /\ At(4) \in {0, 4} /\ At(2) \in {0, 2} /\ At(1) \in {0, 1}
    BY <1>3
  <2> QED
    BY <1>1, <2>1, BitsOfSum
<1>5. \A p \in {128, 64, 32, 16, 8, 4, 2, 1} : Bit(x, p) \in {0, 1} /\ Bit(b, p) \in {0, 1} /\ Bit(c, p) \in {0, 1}
  BY <1>4 DEF Bit, Byte
<1>6. \A p \in {128, 64, 32, 16, 8, 4, 2, 1} : Again(p) = IF Bit(b, p) = 1 THEN p ELSE 0
  BY <1>3, <1>4, <1>5
<1> HIDE DEF Again
<1>7. Xor(x, c) = b
  BY <1>2, <1>6, SumOfBits DEF OfBits
<1> QED
  BY <1>4, <1>7 DEF x

LEMMA OrthoBack ==
    ASSUME NEW s \in Bytes, NEW c \in Byte
    PROVE  ortho_decode(c, ortho_encode(c, s)) = s
<1>1. \A i \in DOMAIN s : Xor(Xor(s[i], c), c) = s[i]
  BY BytesAreText, XorBack
<1>2. s = [i \in DOMAIN s |-> s[i]]
  BY DEF Bytes
<1> QED
  BY <1>1, <1>2 DEF ortho_encode, ortho_decode

-----------------------------------------------------------------------------
(* Integers.                                                               *)
LEMMA BytesMade ==
    ASSUME NEW l \in Nat, NEW s \in [1 .. l -> Byte]
    PROVE  s \in Bytes /\ s \in Text /\ Len(s) = l
<1>1. s \in Bytes /\ Len(s) = l
  BY SeqMade DEF Bytes
<1> QED
  BY <1>1, BytesAreText

LEMMA BytesEqual ==
    ASSUME NEW s \in Text, NEW t \in Text, Len(s) = Len(t), \A i \in 1 .. Len(t) : s[i] = t[i]
    PROVE  s = t
BY SeqEqual DEF Text

LEMMA Reversed ==
    ASSUME NEW s \in Bytes
    PROVE  Reverse(s) \in Bytes /\ Reverse(Reverse(s)) = s
<1> DEFINE l == Len(s)
           r == [i \in 1 .. l |-> s[(l - i) + 1]]
           t == Reverse(r)
<1>1. l \in Nat /\ \A i \in 1 .. l : s[i] \in Byte
  BY BytesAreText
<1>2. Reverse(s) = r
  BY DEF Reverse
<1> HIDE DEF l
<1>3. \A i \in 1 .. l : (l - i) + 1 \in 1 .. l /\ (l - ((l - i) + 1)) + 1 = i
  BY <1>1
<1>4. r \in [1 .. l -> Byte] /\ \A i \in 1 .. l : r[i] = s[(l - i) + 1]
  BY <1>1, <1>3
<1> HIDE DEF r
<1>5. r \in Bytes /\ Len(r) = l
  BY <1>1, <1>4, BytesMade
<1>6. t = [i \in 1 .. l |-> r[(l - i) + 1]]
  BY <1>5 DEF Reverse
<1>7. t = [i \in 1 .. l |-> s[i]]
  BY <1>3, <1>4, <1>6
<1>8. s = [i \in 1 .. l |-> s[i]]
  BY BytesAreText DEF Bytes, l
<1> QED
  BY <1>2, <1>5, <1>7, <1>8

LEMMA GreatestPlace ==
    ASSUME NEW l \in Nat, NEW S, S \subseteq 1 .. l, S # {}
    PROVE  Max(S) \in S /\ \A i \in S : i <= Max(S)
<1> DEFINE T == {l - i : i \in S}
<1>1. T \subseteq Nat /\ T # {}
  <2>1. \A i \in S : i \in Int /\ i <= l /\ l - i \in Nat
    OBVIOUS
  <2>2. T \subseteq Nat
    BY <2>1
  <2>3. PICK i \in S : TRUE
    OBVIOUS
  <2>4. l - i \in T
    OBVIOUS
  <2> QED
    BY <2>2, <2>4
<1>2. PICK j \in T : \A i \in T : j <= i
  <2> HIDE DEF T
  <2> QED
    BY <1>1, LeastElement
<1>3. PICK k \in S : j = l - k
  BY <1>2
<1>4. \A i \in S : k >= i
  <2> TAKE i \in S
  <2>1. l - i \in T
    OBVIOUS
  <2>2. l - k <= l - i
    BY <1>2, <1>3, <2>1
  <2> QED
    BY <2>2
<1> DEFINE x == Max(S)
<1>5. x \in S /\ \A i \in S : x >= i
  BY <1>4 DEF Max
<1> QED
  BY <1>5

(* Zeros behind what is used of an integer. *)
LEMMA Padded ==
    ASSUME NEW s \in Bytes, NEW c \in 0 .. Len(s), NEW u \in Bytes, Len(u) = c,
           \A i \in 1 .. c : u[i] = s[i], \A i \in c + 1 .. Len(s) : s[i] = 0
    PROVE  u \o Zeros(Len(s) - Len(u)) = s
<1> DEFINE l == Len(s)
           z == Zeros(l - c)
           r == u \o z
<1>1. l \in Nat /\ s \in Text /\ u \in Text
  BY BytesAreText
<1>2. z \in [1 .. l - c -> Int] /\ l - c \in Nat /\ \A i \in 1 .. l - c : z[i] = 0
  BY <1>1 DEF Zeros
<1> HIDE DEF z
<1>3. z \in Text /\ Len(z) = l - c
  BY <1>2, SeqMade DEF Text
<1>4. /\ r \in Text /\ Len(r) = c + (l - c)
      /\ \A i \in 1 .. c : r[i] = u[i]
      /\ \A i \in c + 1 .. c + (l - c) : r[i] = z[i - c]
  <2> HIDE DEF l
  <2>1. /\ r \in Text /\ Len(r) = Len(u) + Len(z)
        /\ \A i \in 1 .. Len(u) : r[i] = u[i]
        /\ \A i \in Len(u) + 1 .. Len(u) + Len(z) : r[i] = z[i - Len(u)]
    BY <1>1, <1>3, TextsJoined
  <2> HIDE DEF r
  <2> QED
    BY <1>3, <2>1
<1> HIDE DEF r, l
<1>5. c + (l - c) = l /\ c \in Nat
  BY <1>1 DEF l
<1>6. ASSUME NEW i \in 1 .. l PROVE r[i] = s[i]
  <2>1. CASE i <= c
    BY <1>4, <1>5, <2>1
  <2>2. CASE i > c
    <3>1. i - c \in 1 .. l - c /\ i \in c + 1 .. l
      BY <1>1, <1>5, <2>2
    <3> QED
      BY <1>2, <1>4, <1>5, <3>1 DEF l
  <2> QED
    BY <1>5, <2>1, <2>2
<1>7. r = s
  BY <1>1, <1>4, <1>5, <1>6, BytesEqual DEF l
<1> QED
  BY <1>7 DEF r, z, l

LEMMA IntegralBack ==
    ASSUME NEW s \in Bytes, s # <<>>
    PROVE  hex2integral(integral2hex(s), Len(s)) = s
<1> DEFINE l == Len(s)
           used == {i \in DOMAIN s : s[i] # 0}
<1>1. l \in Nat /\ l # 0 /\ DOMAIN s = 1 .. l /\ \A i \in 1 .. l : s[i] \in Byte
  BY BytesAreText DEF Bytes
<1>2. CASE used = {}
  <2>1. integral2hex(s) = <<48, 48>>
    BY <1>2 DEF integral2hex
  <2>2. <<0>> \in Bytes /\ Len(<<0>>) = 1 /\ <<0>>[1] = 0
    BY DEF Bytes, Byte
  <2>3. IsHexOf(<<48, 48>>, <<0>>)
    <3>1. <<48, 48>> \in Text /\ Len(<<48, 48>>) = 2 * 1
      BY DEF Text
    <3>2. \A i \in 1 .. 1 : <<48, 48>>[2 * i - 1] = 48 /\ <<48, 48>>[2 * i] = 48 /\ <<0>>[i] = 0
      OBVIOUS
    <3>3. 48 \in HexChars /\ Value(48) = 0 /\ 0 \div 16 = 0 /\ 0 % 16 = 0
      BY DEF HexChars, Value
    <3> QED
      BY <2>2, <3>1, <3>2, <3>3 DEF IsHexOf
  <2>4. Digits(<<48, 48>>) = <<48, 48>> /\ hex2bin(<<48, 48>>) = <<0>>
    BY <2>2, <2>3, HexRead
  <2>5. Reverse(<<0>>) = <<0>>
    BY DEF Reverse
  <2>6. /\ 1 \in 0 .. l
        /\ \A i \in 1 .. 1 : <<0>>[i] = s[i]
        /\ \A i \in 1 + 1 .. l : s[i] = 0
    BY <1>1, <1>2, <2>2
  <2>7. <<0>> \o Zeros(Len(s) - Len(<<0>>)) = s
    BY <2>2, <2>6, Padded
  <2> QED
    BY <2>1, <2>4, <2>5, <2>7 DEF hex2integral
<1>3. CASE used # {}
  <2> DEFINE c == Max(used)
             u == SubSeq(s, 1, c)
  <2>1. c \in used /\ \A i \in used : i <= c
    <3>1. used \subseteq 1 .. l
      BY <1>1
    <3> HIDE DEF used
    <3> QED
      BY <1>1, <1>3, <3>1, GreatestPlace
  <2>2. c \in 1 .. l /\ \A i \in c + 1 .. l : s[i] = 0
    <3>1. c \in 1 .. l
      BY <1>1, <2>1
    <3> SUFFICES ASSUME NEW i \in c + 1 .. l, s[i] # 0 PROVE FALSE
      BY <3>1
    <3>2. i \in used
      BY <1>1, <3>1
    <3>3. i <= c
      BY <2>1, <3>2
    <3> QED
      BY <3>1, <3>3
  <2>3. integral2hex(s) = bin2hex(Reverse(u))
    BY <1>3 DEF integral2hex
  <2> HIDE DEF c
  <2>4. u \in [1 .. c -> Byte] /\ \A i \in 1 .. c : u[i] = s[i]
    <3>1. 1 \in 1 .. l /\ c \in 1 .. l /\ c - 1 + 1 = c /\ s \in Text
      BY <1>1, <2>2, BytesAreText
    <3>2. u \in Text /\ Len(u) = c /\ \A j \in 1 .. c : u[j] = s[(1 - 1) + j]
      BY <3>1, TextBetween
    <3> HIDE DEF u
    <3>3. \A j \in 1 .. c : (1 - 1) + j = j /\ j \in 1 .. l
      BY <1>1, <3>1
    <3>4. u \in [1 .. c -> Int]
      BY <3>2 DEF Text
    <3> QED
      BY <1>1, <3>2, <3>3, <3>4
  <2> HIDE DEF u
  <2>5. u \in Bytes /\ Len(u) = c
    <3>1. c \in Nat
      BY <2>2
    <3> QED
      BY <2>4, <3>1, BytesMade
  <2>6. Digits(integral2hex(s)) = integral2hex(s) /\ Reverse(hex2bin(integral2hex(s))) = u
    BY <2>3, <2>5, Reversed, HexReadBack
  <2>7. c \in 0 .. l
    BY <2>2
  <2>8. u \o Zeros(Len(s) - Len(u)) = s
    BY <2>2, <2>4, <2>5, <2>7, Padded
  <2> QED
    BY <2>6, <2>8 DEF hex2integral
<1> QED
  BY <1>2, <1>3

-----------------------------------------------------------------------------
(* Files.  How many pieces there are.                                      *)
LEMMA CountIs ==
    ASSUME NEW l \in Nat, NEW w \in Nat \ {0}, NEW q \in Nat, l <= q * w,
           q = 0 \/ (q - 1) * w < l
    PROVE  (l + w - 1) \div w = q
<1> DEFINE r == (l + w - 1) \div w
<1>1. Counted(l, w, r)
  BY PieceCount
<1> HIDE DEF r
<1>2. r \in Nat /\ l <= r * w /\ \A k \in 0 .. r - 1 : k * w < l
  BY <1>1 DEF Counted
<1>3. ~(q < r)
  <2> SUFFICES ASSUME q < r PROVE FALSE
    OBVIOUS
  <2>1. q \in 0 .. r - 1 /\ q * w \in Nat
    BY <1>2
  <2> QED
    BY <1>2, <2>1
<1>4. ~(r < q)
  <2> SUFFICES ASSUME r < q PROVE FALSE
    OBVIOUS
  <2>1. (q - 1) * w < l /\ q - 1 \in Nat /\ (q - 1) * w \in Nat /\ r * w \in Nat
    BY <1>2
  <2>2. r * w <= (q - 1) * w
    <3>1. CASE r = q - 1
      BY <2>1, <3>1
    <3>2. CASE r < q - 1
      <4>1. r * w + w <= (q - 1) * w
        BY <1>2, <2>1, <3>2, MultiplesApart
      <4> QED
        BY <2>1, <4>1
    <3> QED
      BY <1>2, <3>1, <3>2
  <2> QED
    BY <1>2, <2>1, <2>2
<1> QED
  BY <1>2, <1>3, <1>4 DEF r

(* The digits of a group are those of the text at its place. *)
LEMMA GroupDigits ==
    ASSUME NEW s \in Bytes, NEW w \in Nat \ {0}, NEW k \in Nat, NEW g, IsGroup(g, s, w, k)
    PROVE  /\ g \in Bytes
           /\ \A j \in 1 .. 2 * Len(g) :
                 2 * ((k - 1) * w) + j \in 1 .. 2 * Len(s) /\ bin2hex(g)[j] = bin2hex(s)[2 * ((k - 1) * w) + j]
<1> DEFINE a == (k - 1) * w
           c == Len(g)
           l == Len(s)
<1>1. /\ a \in Nat /\ g \in Text /\ c \in Nat /\ l \in Nat /\ a + c <= l
      /\ \A j \in 1 .. c : g[j] = s[a + j] /\ a + j \in 1 .. l
  <2>1. /\ a \in Nat /\ g \in Text /\ c \in 1 .. w /\ a + c = PieceEnd(l, w, k) /\ PieceEnd(l, w, k) \in 1 .. l
        /\ \A j \in 1 .. c : g[j] = s[a + j]
    BY DEF IsGroup
  <2>2. l \in Nat
    BY BytesAreText
  <2> HIDE DEF a, c, l
  <2> QED
    BY <2>1, <2>2
<1>2. g \in Bytes
  <2>1. \A i \in 1 .. l : s[i] \in Byte
    BY BytesAreText
  <2>2. g \in [1 .. c -> Int]
    BY <1>1 DEF Text
  <2> HIDE DEF a, c, l
  <2>3. g \in [1 .. c -> Byte]
    BY <1>1, <2>1, <2>2
  <2> QED
    BY <1>1, <2>3, BytesMade
<1> HIDE DEF a, c, l
<1>3. ASSUME NEW j \in 1 .. 2 * c PROVE 2 * a + j \in 1 .. 2 * l /\ bin2hex(g)[j] = bin2hex(s)[2 * a + j]
  <2>1. PICK i \in 1 .. c : j = 2 * i - 1 \/ j = 2 * i
    <3>1. c \in Nat /\ j \in Nat /\ 1 <= j /\ j <= 2 * c
      BY <1>1
    <3> QED
      BY <3>1, Paired
  <2>2. a + i \in 1 .. l /\ 2 * (a + i) - 1 = 2 * a + (2 * i - 1) /\ 2 * (a + i) = 2 * a + 2 * i
    BY <1>1
  <2>3. bin2hex(g)[2 * i - 1] = Digit(g[i] \div 16) /\ bin2hex(g)[2 * i] = Digit(g[i] % 16)
    BY <1>2, HexPlaces DEF c
  <2>4. /\ bin2hex(s)[2 * (a + i) - 1] = Digit(s[a + i] \div 16)
        /\ bin2hex(s)[2 * (a + i)] = Digit(s[a + i] % 16)
    BY <2>2, HexPlaces DEF l
  <2>5. g[i] = s[a + i]
    BY <1>1
  <2>6. 2 * a + j \in 1 .. 2 * l
    BY <1>1
  <2> QED
    BY <2>1, <2>2, <2>3, <2>4, <2>5, <2>6
<1> QED
  BY <1>2, <1>3 DEF a, c, l

(* Two runs of a loop from the same state. *)
LEMMA SameRuns ==
    ASSUME NEW q \in Nat, NEW g, NEW h, g[0] = h[0],
           \A k \in 1 .. q : g[k - 1] = h[k - 1] => g[k] = h[k]
    PROVE  g[q] = h[q]
<1> DEFINE S == {k \in 0 .. q : g[k] = h[k]}
<1>1. 0 \in S
  OBVIOUS
<1>2. \A k \in 0 .. q - 1 : k \in S => k + 1 \in S
  <2> SUFFICES ASSUME NEW k \in 0 .. q - 1, g[k] = h[k] PROVE k + 1 \in S
    OBVIOUS
  <2>1. k + 1 \in 1 .. q /\ (k + 1) - 1 = k /\ k + 1 \in 0 .. q
    OBVIOUS
  <2> QED
    BY <2>1
<1>3. 0 .. q \subseteq S
  <2> HIDE DEF S
  <2> QED
    BY <1>1, <1>2, CountingUp
<1> QED
  BY <1>3

(* What was written so far, with the buffer clear for the next block. *)
Written(x) == [out |-> x, wbuf |-> Zeros(WBUFSIZE)]

LEMMA HexFile ==
    ASSUME NEW in, NEW seqs \in Seq(Text), Len(seqs) = Len(Blocks(in)),
           \A k \in 1 .. Len(seqs) : \A x \in Text : BlockToHex(Written(x), Blocks(in)[k]) = Written(x \o seqs[k])
    PROVE  FileToHex(in) = FlattenSeq(seqs)
<1> DEFINE q == Len(seqs)
           body(g) == [k \in 0 .. q |-> IF k = 0 THEN Written(<<>>) ELSE BlockToHex(g[k - 1], Blocks(in)[k])]
           after == CHOOSE g : g = body(g)
<1>1. PICK f : IsFlat(f, seqs) /\ FlattenSeq(seqs) = f[q]
  BY Flattened
<1>2. q \in Nat
  OBVIOUS
<1>3. FileToHex(in) = after[q].out
  BY DEF FileToHex, Converted, Written
<1>4. f \in [0 .. q -> Text] /\ f[0] = <<>> /\ \A k \in 1 .. q : f[k] = f[k - 1] \o seqs[k]
  BY <1>1 DEF IsFlat
<1> HIDE DEF q
<1> DEFINE run == [k \in 0 .. q |-> Written(f[k])]
<1>5. ASSUME NEW k \in 1 .. q PROVE BlockToHex(Written(f[k - 1]), Blocks(in)[k]) = Written(f[k])
  <2>1. k - 1 \in 0 .. q
    BY <1>2
  <2>2. f[k - 1] \in Text
    BY <1>4, <2>1
  <2> QED
    BY <1>4, <2>2 DEF q
<1>6. run = body(run)
  <2>1. ASSUME NEW k \in 0 .. q PROVE run[k] = body(run)[k]
    <3>1. CASE k = 0
      BY <1>4, <3>1
    <3>2. CASE k # 0
      <4>1. k \in 1 .. q /\ k - 1 \in 0 .. q
        BY <1>2, <3>2
      <4>2. run[k - 1] = Written(f[k - 1]) /\ run[k] = Written(f[k])
        BY <4>1
      <4>3. body(run)[k] = BlockToHex(run[k - 1], Blocks(in)[k])
        BY <3>2
      <4> QED
        BY <1>5, <4>1, <4>2, <4>3
    <3> QED
      BY <3>1, <3>2
  <2>2. DOMAIN run = 0 .. q /\ run = [k \in 0 .. q |-> run[k]] /\ body(run) = [k \in 0 .. q |-> body(run)[k]]
    OBVIOUS
  <2> HIDE DEF run, body
  <2> QED
    BY <2>1, <2>2
<1>7. after = body(after)
  BY <1>6
<1>8. after[q] = run[q]
  <2> HIDE DEF after, run
  <2>1. 0 \in 0 .. q /\ \A k \in 1 .. q : k \in 0 .. q /\ k # 0
    BY <1>2
  <2> DEFINE Follows(g) == g[0] = Written(<<>>) /\ \A k \in 1 .. q : g[k] = BlockToHex(g[k - 1], Blocks(in)[k])
  <2>2. ASSUME NEW g, g = body(g) PROVE Follows(g)
    <3>1. g[0] = Written(<<>>)
      BY <2>1, <2>2
    <3>2. ASSUME NEW k \in 1 .. q PROVE g[k] = BlockToHex(g[k - 1], Blocks(in)[k])
      <4>1. k \in 0 .. q /\ k # 0
        BY <2>1
      <4>2. body(g)[k] = BlockToHex(g[k - 1], Blocks(in)[k])
        BY <4>1
      <4> HIDE DEF body
      <4> QED
        BY <2>2, <4>2
    <3> QED
      BY <3>1, <3>2
  <2> HIDE DEF body
  <2>3. Follows(after)
    BY <1>7, <2>2
  <2>4. Follows(run)
    BY <1>6, <2>2
  <2> HIDE DEF body
  <2> QED
    BY <1>2, <2>3, <2>4, SameRuns
<1>9. run[q] = Written(f[q])
  BY <1>2
<1> HIDE DEF after, run
<1> QED
  BY <1>1, <1>3, <1>8, <1>9 DEF Written

LEMMA BinFile ==
    ASSUME NEW in, NEW seqs \in Seq(Text), Len(seqs) = Len(Blocks(in)),
           \A k \in 1 .. Len(seqs) : \A x \in Text : BlockToBin(Written(x), Blocks(in)[k]) = Written(x \o seqs[k])
    PROVE  FileToBin(in) = FlattenSeq(seqs)
<1> DEFINE q == Len(seqs)
           body(g) == [k \in 0 .. q |-> IF k = 0 THEN Written(<<>>) ELSE BlockToBin(g[k - 1], Blocks(in)[k])]
           after == CHOOSE g : g = body(g)
<1>1. PICK f : IsFlat(f, seqs) /\ FlattenSeq(seqs) = f[q]
  BY Flattened
<1>2. q \in Nat
  OBVIOUS
<1>3. FileToBin(in) = after[q].out
  BY DEF FileToBin, Converted, Written
<1>4. f \in [0 .. q -> Text] /\ f[0] = <<>> /\ \A k \in 1 .. q : f[k] = f[k - 1] \o seqs[k]
  BY <1>1 DEF IsFlat
<1> HIDE DEF q
<1> DEFINE run == [k \in 0 .. q |-> Written(f[k])]
<1>5. ASSUME NEW k \in 1 .. q PROVE BlockToBin(Written(f[k - 1]), Blocks(in)[k]) = Written(f[k])
  <2>1. k - 1 \in 0 .. q
    BY <1>2
  <2>2. f[k - 1] \in Text
    BY <1>4, <2>1
  <2> QED
    BY <1>4, <2>2 DEF q
<1>6. run = body(run)
  <2>1. ASSUME NEW k \in 0 .. q PROVE run[k] = body(run)[k]
    <3>1. CASE k = 0
      BY <1>4, <3>1
    <3>2. CASE k # 0
      <4>1. k \in 1 .. q /\ k - 1 \in 0 .. q
        BY <1>2, <3>2
      <4>2. run[k - 1] = Written(f[k - 1]) /\ run[k] = Written(f[k])
        BY <4>1
      <4>3. body(run)[k] = BlockToBin(run[k - 1], Blocks(in)[k])
        BY <3>2
      <4> QED
        BY <1>5, <4>1, <4>2, <4>3
    <3> QED
      BY <3>1, <3>2
  <2>2. DOMAIN run = 0 .. q /\ run = [k \in 0 .. q |-> run[k]] /\ body(run) = [k \in 0 .. q |-> body(run)[k]]
    OBVIOUS
  <2> HIDE DEF run, body
  <2> QED
    BY <2>1, <2>2
<1>7. after = body(after)
  BY <1>6
<1>8. after[q] = run[q]
  <2> HIDE DEF after, run
  <2>1. 0 \in 0 .. q /\ \A k \in 1 .. q : k \in 0 .. q /\ k # 0
    BY <1>2
  <2> DEFINE Follows(g) == g[0] = Written(<<>>) /\ \A k \in 1 .. q : g[k] = BlockToBin(g[k - 1], Blocks(in)[k])
  <2>2. ASSUME NEW g, g = body(g) PROVE Follows(g)
    <3>1. g[0] = Written(<<>>)
      BY <2>1, <2>2
    <3>2. ASSUME NEW k \in 1 .. q PROVE g[k] = BlockToBin(g[k - 1], Blocks(in)[k])
      <4>1. k \in 0 .. q /\ k # 0
        BY <2>1
      <4>2. body(g)[k] = BlockToBin(g[k - 1], Blocks(in)[k])
        BY <4>1
      <4> HIDE DEF body
      <4> QED
        BY <2>2, <4>2
    <3> QED
      BY <3>1, <3>2
  <2> HIDE DEF body
  <2>3. Follows(after)
    BY <1>7, <2>2
  <2>4. Follows(run)
    BY <1>6, <2>2
  <2> HIDE DEF body
  <2> QED
    BY <1>2, <2>3, <2>4, SameRuns
<1>9. run[q] = Written(f[q])
  BY <1>2
<1> HIDE DEF after, run
<1> QED
  BY <1>1, <1>3, <1>8, <1>9 DEF Written
(* A file in hexadecimal is the digits of its bytes. *)
LEMMA FileWritten == ASSUME NEW s \in Bytes PROVE FileToHex(s) = bin2hex(s)
<1> DEFINE w == RBUFSIZE
           G == Groups(s, w)
           q == Len(G)
           d == bin2hex(s)
           seqs == [k \in 1 .. q |-> bin2hex(G[k])]
           o == [k \in 0 .. q |-> 2 * PieceEnd(Len(s), w, k)]
<1>1. s \in Text /\ w \in Nat \ {0} /\ d \in Text /\ Len(d) = 2 * Len(s)
  BY BytesAreText, HexPlaces, CodesAssumption
<1> HIDE DEF w, d
<1>2. \A k \in 1 .. q : IsGroup(G[k], s, w, k)
  BY <1>1, GroupFacts
<1>3. /\ \A k \in 0 .. q : PieceEnd(Len(s), w, k) \in Nat
      /\ PieceEnd(Len(s), w, 0) = 0 /\ PieceEnd(Len(s), w, q) = Len(s)
      /\ \A k \in 1 .. q : PieceEnd(Len(s), w, k - 1) = (k - 1) * w
      /\ q \in Nat
  BY <1>1, PieceEnds
<1>4. Blocks(s) = G
  BY DEF Blocks, w
<1> HIDE DEF G, q
<1>5. \A k \in 1 .. q : G[k] \in Bytes
  BY <1>1, <1>2, GroupDigits
<1>6. seqs \in [1 .. q -> Text]
  BY <1>5, HexPlaces
<1>7. seqs \in Seq(Text) /\ Len(seqs) = q /\ \A k \in 1 .. q : seqs[k] = bin2hex(G[k])
  BY <1>3, <1>6, SeqMade
<1> HIDE DEF seqs
<1>8. o \in [0 .. q -> Nat] /\ o[0] = 0 /\ o[q] = Len(d) /\ \A k \in 0 .. q : o[k] = 2 * PieceEnd(Len(s), w, k)
  BY <1>1, <1>3
<1> HIDE DEF o
<1>9. ASSUME NEW k \in 1 .. q
      PROVE  o[k] = o[k - 1] + Len(seqs[k]) /\ \A j \in 1 .. Len(seqs[k]) : seqs[k][j] = d[o[k - 1] + j]
  <2>1. k \in 0 .. q /\ k - 1 \in 0 .. q /\ k \in Nat
    BY <1>3
  <2>2. o[k - 1] = 2 * ((k - 1) * w) /\ o[k] = 2 * PieceEnd(Len(s), w, k)
    BY <1>3, <1>8, <2>1
  <2>3. Len(seqs[k]) = 2 * Len(G[k])
    BY <1>5, <1>7, HexPlaces
  <2>4. (k - 1) * w \in Nat /\ Len(G[k]) \in Nat /\ (k - 1) * w + Len(G[k]) = PieceEnd(Len(s), w, k)
    BY <1>2 DEF IsGroup
  <2>5. \A j \in 1 .. 2 * Len(G[k]) : bin2hex(G[k])[j] = bin2hex(s)[2 * ((k - 1) * w) + j]
    BY <1>1, <1>2, <2>1, GroupDigits
  <2>6. \A j \in 1 .. Len(seqs[k]) : seqs[k][j] = d[o[k - 1] + j]
    BY <1>7, <2>2, <2>3, <2>5 DEF d
  <2>7. o[k] = o[k - 1] + Len(seqs[k])
    BY <2>2, <2>3, <2>4
  <2> QED
    BY <2>6, <2>7
<1>10. ArePieces(seqs, o, d)
  BY <1>7, <1>8, <1>9 DEF ArePieces
<1>11. FlattenSeq(seqs) = d
  BY <1>1, <1>7, <1>10, JoinedPieces
<1>12. \A k \in 1 .. Len(seqs) : \A x \in Text : BlockToHex(Written(x), Blocks(s)[k]) = Written(x \o seqs[k])
  BY <1>4, <1>7 DEF BlockToHex, Written, Wiped
<1>13. FileToHex(s) = FlattenSeq(seqs)
  <2>1. Len(seqs) = Len(Blocks(s))
    BY <1>4, <1>7 DEF q
  <2> QED
    BY <1>7, <1>12, <2>1, HexFile
<1> QED
  BY <1>11, <1>13 DEF d

(* The blocks of a file in hexadecimal are the digits of half as many bytes. *)
LEMMA HexBlocks ==
    ASSUME NEW s \in Bytes, NEW h \in Nat \ {0}, RBUFSIZE = 2 * h
    PROVE  /\ Len(Blocks(bin2hex(s))) = Len(Groups(s, h))
           /\ \A k \in 1 .. Len(Groups(s, h)) : IsHexOf(Blocks(bin2hex(s))[k], Groups(s, h)[k])
<1> DEFINE w == 2 * h
           l == Len(s)
           d == bin2hex(s)
           G == Groups(s, h)
           q == Len(G)
           B == Groups(d, w)
<1>1. l \in Nat /\ s \in Text /\ d \in Text /\ Len(d) = 2 * l /\ w \in Nat \ {0}
  BY BytesAreText, HexPlaces
<1>2. B = Blocks(d)
  BY DEF Blocks
<1>3. q = (l + h - 1) \div h /\ \A k \in 1 .. q : IsGroup(G[k], s, h, k)
  BY <1>1, GroupFacts
<1>4. Len(B) = (2 * l + w - 1) \div w /\ \A k \in 1 .. Len(B) : IsGroup(B[k], d, w, k)
  <2> HIDE DEF w, d
  <2> QED
    BY <1>1, GroupFacts
<1> HIDE DEF d, G, q, B, l
<1>5. Len(B) = q
  <2>1. Counted(l, h, q)
    BY <1>1, <1>3, PieceCount
  <2>2. q \in Nat /\ l <= q * h /\ (q = 0 \/ (q - 1) * h < l)
    BY <2>1 DEF Counted
  <2>3. q * h \in Nat /\ q * w = 2 * (q * h) /\ (q - 1) * w = 2 * ((q - 1) * h) /\ (q - 1) * h \in Int
    BY <2>2
  <2>4. 2 * l \in Nat /\ 2 * l <= q * w /\ (q = 0 \/ (q - 1) * w < 2 * l)
    BY <1>1, <2>2, <2>3
  <2> HIDE DEF w
  <2>5. (2 * l + w - 1) \div w = q
    BY <1>1, <2>2, <2>4, CountIs
  <2> QED
    BY <1>4, <2>5
<1>6. ASSUME NEW k \in 1 .. q PROVE IsHexOf(B[k], G[k])
  <2> DEFINE a == (k - 1) * h
             g == G[k]
             b == B[k]
  <2>1. q \in Nat /\ k \in Nat
    <3>1. Counted(l, h, q)
      BY <1>1, <1>3, PieceCount
    <3> QED
      BY <3>1 DEF Counted
  <2>2. IsGroup(g, s, h, k) /\ IsGroup(b, d, w, k)
    BY <1>3, <1>4, <1>5
  <2>3. g \in Bytes /\ \A j \in 1 .. 2 * Len(g) : bin2hex(g)[j] = d[2 * a + j]
    BY <2>1, <2>2, GroupDigits DEF d
  <2>4. (k - 1) * w = 2 * a /\ k * w = 2 * (k * h) /\ k * h \in Nat
    BY <2>1
  <2>5. PieceEnd(2 * l, w, k) = 2 * PieceEnd(l, h, k)
    <3> HIDE DEF w, a
    <3>1. k * w <= 2 * l <=> k * h <= l
      BY <1>1, <2>4
    <3> QED
      BY <2>4, <3>1 DEF PieceEnd
  <2>6. a \in Nat /\ Len(g) \in Nat /\ a + Len(g) = PieceEnd(l, h, k)
    <3>1. IsGroup(g, s, h, k)
      BY <2>2
    <3> HIDE DEF g
    <3>2. Len(g) \in 1 .. h /\ a \in Nat /\ a + Len(g) = PieceEnd(l, h, k)
      BY <3>1 DEF IsGroup, l
    <3> QED
      BY <3>2
  <2>7. b \in Text /\ Len(b) \in Nat /\ (k - 1) * w + Len(b) = PieceEnd(2 * l, w, k)
    <3>1. IsGroup(b, d, w, k) /\ Len(d) = 2 * l
      BY <1>1, <2>2
    <3> HIDE DEF b, w
    <3>2. b \in Text /\ Len(b) \in 1 .. w /\ (k - 1) * w + Len(b) = PieceEnd(2 * l, w, k)
      BY <3>1 DEF IsGroup
    <3> QED
      BY <3>2
  <2>8. \A j \in 1 .. Len(b) : b[j] = d[2 * a + j]
    BY <2>2, <2>4 DEF IsGroup
  <2> HIDE DEF w, a, g, b
  <2>9. Len(b) = 2 * Len(g)
    BY <2>4, <2>5, <2>6, <2>7
  <2>10. bin2hex(g) \in Text /\ Len(bin2hex(g)) = 2 * Len(g)
    BY <2>3, HexPlaces
  <2>11. \A j \in 1 .. 2 * Len(g) : b[j] = bin2hex(g)[j]
    BY <2>3, <2>8, <2>9
  <2>12. b = bin2hex(g)
    BY <2>7, <2>9, <2>10, <2>11, BytesEqual
  <2> QED
    BY <2>3, <2>12, HexWritten DEF g, b
<1> QED
  BY <1>2, <1>5, <1>6 DEF d, G, q

(* A file is read back, in blocks. *)
LEMMA FileReadBack == ASSUME NEW s \in Bytes PROVE FileToBin(FileToHex(s)) = s
<1> DEFINE h == RBUFSIZE \div 2
           G == Groups(s, h)
           d == bin2hex(s)
<1>1. h \in Nat \ {0} /\ RBUFSIZE = 2 * h
  BY CodesAssumption
<1> HIDE DEF h
<1>2. s \in Text /\ G \in Seq(Text) /\ \A k \in 1 .. Len(G) : IsGroup(G[k], s, h, k)
  BY <1>1, BytesAreText, GroupFacts
<1>3. Len(Blocks(d)) = Len(G) /\ \A k \in 1 .. Len(G) : IsHexOf(Blocks(d)[k], G[k])
  BY <1>1, HexBlocks
<1> HIDE DEF G, d
<1>4. ASSUME NEW k \in 1 .. Len(G), NEW x \in Text
      PROVE  BlockToBin(Written(x), Blocks(d)[k]) = Written(x \o G[k])
  <2> DEFINE b == Blocks(d)[k]
             g == G[k]
             c == WBUFSIZE
             r == OrDigits(b, Zeros(c))
  <2>1. IsHexOf(b, g)
    BY <1>3
  <2>2. g \in Bytes /\ Len(g) \in 1 .. h
    <3>1. IsGroup(g, s, h, k) /\ k \in Nat
      BY <1>2
    <3> QED
      BY <1>1, <3>1, GroupDigits DEF IsGroup
  <2>3. c \in Nat /\ Len(g) <= c
    BY <1>1, <2>2 DEF WBUFSIZE
  <2> HIDE DEF b, g, c
  <2>4. Digits(b) = b /\ r \in Text /\ Len(r) = c /\ \A i \in 1 .. Len(g) : r[i] = g[i]
    BY <2>1, <2>2, <2>3, DigitsRead
  <2>5. Len(b) \div 2 = Len(g)
    BY <2>1, <2>2 DEF IsHexOf
  <2> HIDE DEF r
  <2>6. SubSeq(r, 1, Len(g)) = g
    <3> DEFINE e == SubSeq(r, 1, Len(g))
    <3>1. 1 \in 1 .. Len(r) /\ Len(g) \in 1 .. Len(r) /\ Len(g) - 1 + 1 = Len(g)
      BY <2>2, <2>3, <2>4
    <3>2. e \in Text /\ Len(e) = Len(g) /\ \A j \in 1 .. Len(g) : e[j] = r[(1 - 1) + j]
      BY <2>4, <3>1, TextBetween
    <3> HIDE DEF e
    <3>3. \A j \in 1 .. Len(g) : (1 - 1) + j = j
      BY <2>2
    <3>4. e = g
      BY <2>2, <2>4, <3>2, <3>3, BytesEqual, BytesAreText
    <3> QED
      BY <3>4 DEF e
  <2>7. BlockToBin(Written(x), b) = Written(x \o SubSeq(r, 1, Len(g)))
    BY <2>4, <2>5 DEF BlockToBin, Written, Wiped, r, c
  <2> QED
    BY <2>6, <2>7 DEF b, g
<1>5. FileToBin(d) = FlattenSeq(G)
  <2>1. \A k \in 1 .. Len(G) : \A x \in Text : BlockToBin(Written(x), Blocks(d)[k]) = Written(x \o G[k])
    BY <1>4
  <2> QED
    BY <1>2, <1>3, <2>1, BinFile
<1>6. FlattenSeq(G) = s
  BY <1>1, <1>2, FlatGroups DEF G
<1> QED
  BY <1>5, <1>6, FileWritten DEF d

-----------------------------------------------------------------------------
(* Captures.  d is what is left of s without a character: a character of s *)
(* is that one, or the next of d.                                          *)
Leaves(s, ch, o, d) ==
    /\ o \in [0 .. Len(s) -> 0 .. Len(d)] /\ o[0] = 0 /\ o[Len(s)] = Len(d)
    /\ \A k \in 1 .. Len(s) :
          \/ s[k] = ch /\ o[k] = o[k - 1]
          \/ s[k] # ch /\ o[k] = o[k - 1] + 1 /\ s[k] = d[o[k]]

LEMMA Appended ==
    ASSUME NEW d \in Text, NEW c \in 0 .. Len(d) - 1
    PROVE  [i \in 1 .. c + 1 |-> d[i]] = Append([i \in 1 .. c |-> d[i]], d[c + 1])
<1> DEFINE u == [i \in 1 .. c |-> d[i]]
           v == [i \in 1 .. c + 1 |-> d[i]]
<1>1. c \in Nat /\ c + 1 \in 1 .. Len(d) /\ \A i \in 1 .. Len(d) : d[i] \in Int
  BY DEF Text
<1>2. u \in [1 .. c -> Int] /\ v \in [1 .. c + 1 -> Int]
  BY <1>1
<1>3. u \in Text /\ Len(u) = c /\ v \in Text /\ Len(v) = c + 1
  BY <1>1, <1>2, SeqMade DEF Text
<1>4. \A i \in 1 .. c : u[i] = d[i]
  OBVIOUS
<1>5. \A i \in 1 .. c + 1 : v[i] = d[i]
  OBVIOUS
<1> HIDE DEF u, v
<1>6. /\ Append(u, d[c + 1]) \in Text /\ Len(Append(u, d[c + 1])) = c + 1
      /\ \A i \in 1 .. c : Append(u, d[c + 1])[i] = u[i]
      /\ Append(u, d[c + 1])[c + 1] = d[c + 1]
  BY <1>1, <1>3 DEF Text
<1>7. \A i \in 1 .. c + 1 : i \in 1 .. c \/ i = c + 1
  BY <1>1
<1>8. v = Append(u, d[c + 1])
  BY <1>3, <1>4, <1>5, <1>6, <1>7, BytesEqual
<1> QED
  BY <1>8 DEF u, v

LEMMA WithoutLeaves ==
    ASSUME NEW s \in Text, NEW ch, NEW d \in Text, NEW o, Leaves(s, ch, o, d)
    PROVE  Without(ch, s) = d
<1> DEFINE q == Len(s)
           Step(u, k) == IF s[k] = ch THEN u ELSE Append(u, s[k])
           body(g) == [k \in 0 .. q |-> IF k = 0 THEN <<>> ELSE Step(g[k - 1], k)]
           kept == CHOOSE g : g = body(g)
           Prefix(c) == [i \in 1 .. c |-> d[i]]
           run == [k \in 0 .. q |-> Prefix(o[k])]
<1>1. q \in Nat /\ Len(d) \in Nat
  BY DEF Text
<1>2. Without(ch, s) = kept[q]
  BY DEF Without
<1> HIDE DEF q
<1>3. /\ o \in [0 .. q -> 0 .. Len(d)] /\ o[0] = 0 /\ o[q] = Len(d)
      /\ \A k \in 1 .. q : \/ s[k] = ch /\ o[k] = o[k - 1]
                           \/ s[k] # ch /\ o[k] = o[k - 1] + 1 /\ s[k] = d[o[k]]
  BY DEF Leaves, q
<1>4. Prefix(0) = <<>> /\ Prefix(Len(d)) = d
  BY DEF Text
<1>5. ASSUME NEW k \in 1 .. q PROVE Prefix(o[k]) = Step(Prefix(o[k - 1]), k)
  <2>1. k \in 0 .. q /\ k - 1 \in 0 .. q
    BY <1>1
  <2>2. o[k] \in 0 .. Len(d) /\ o[k - 1] \in 0 .. Len(d)
    BY <1>3, <2>1
  <2>3. CASE s[k] = ch /\ o[k] = o[k - 1]
    BY <2>3
  <2>4. CASE s[k] # ch /\ o[k] = o[k - 1] + 1 /\ s[k] = d[o[k]]
    <3>1. o[k - 1] \in 0 .. Len(d) - 1
      BY <1>1, <2>2, <2>4
    <3>2. Prefix(o[k - 1] + 1) = Append(Prefix(o[k - 1]), d[o[k - 1] + 1])
      BY <3>1, Appended
    <3> HIDE DEF Prefix
    <3> QED
      BY <2>4, <3>2
  <2> QED
    BY <1>3, <2>3, <2>4
<1> HIDE DEF Prefix, Step
<1>6. run = body(run)
  <2>1. ASSUME NEW k \in 0 .. q PROVE run[k] = body(run)[k]
    <3>1. CASE k = 0
      BY <1>3, <1>4, <3>1
    <3>2. CASE k # 0
      <4>1. k \in 1 .. q /\ k - 1 \in 0 .. q
        BY <1>1, <3>2
      <4>2. run[k - 1] = Prefix(o[k - 1]) /\ run[k] = Prefix(o[k])
        BY <4>1
      <4>3. body(run)[k] = Step(run[k - 1], k)
        BY <3>2
      <4> QED
        BY <1>5, <4>1, <4>2, <4>3
    <3> QED
      BY <3>1, <3>2
  <2>2. run = [k \in 0 .. q |-> run[k]] /\ body(run) = [k \in 0 .. q |-> body(run)[k]]
    OBVIOUS
  <2> HIDE DEF run, body
  <2> QED
    BY <2>1, <2>2
<1>7. kept = body(kept)
  BY <1>6 DEF Step
<1>8. kept[q] = run[q]
  <2> HIDE DEF kept, run
  <2>1. 0 \in 0 .. q /\ \A k \in 1 .. q : k \in 0 .. q /\ k # 0
    BY <1>1
  <2> DEFINE Follows(g) == g[0] = <<>> /\ \A k \in 1 .. q : g[k] = Step(g[k - 1], k)
  <2>2. ASSUME NEW g, g = body(g) PROVE Follows(g)
    <3>1. g[0] = <<>>
      BY <2>1, <2>2
    <3>2. ASSUME NEW k \in 1 .. q PROVE g[k] = Step(g[k - 1], k)
      <4>1. k \in 0 .. q /\ k # 0
        BY <2>1
      <4>2. body(g)[k] = Step(g[k - 1], k)
        BY <4>1
      <4> HIDE DEF body
      <4> QED
        BY <2>2, <4>2
    <3> QED
      BY <3>1, <3>2
  <2> HIDE DEF body
  <2>3. Follows(kept)
    BY <1>7, <2>2
  <2>4. Follows(run)
    BY <1>6, <2>2
  <2> QED
    BY <1>1, <2>3, <2>4, SameRuns
<1>9. run[q] = Prefix(o[q])
  BY <1>1
<1> HIDE DEF kept, run
<1> QED
  BY <1>2, <1>3, <1>4, <1>8, <1>9

LEMMA LeastIs ==
    ASSUME NEW S, S \subseteq Int, NEW x \in S, \A y \in S : x <= y
    PROVE  Min(S) = x
<1>1. \A z \in S : (\A y \in S : z <= y) => z = x
  OBVIOUS
<1> QED
  BY <1>1 DEF Min

(* A capture: two digits and a colon for each byte. *)
Captured(s) ==
    [i \in 1 .. 3 * Len(s) |->
        IF i % 3 = 0 THEN Colon
        ELSE IF i % 3 = 1 THEN Digit(s[(i + 2) \div 3] \div 16) ELSE Digit(s[(i + 1) \div 3] % 16)]

LEMMA Tripled ==
    ASSUME NEW l \in Nat, NEW i \in 1 .. 3 * l
    PROVE  \E k \in 1 .. l : i = 3 * k - 2 \/ i = 3 * k - 1 \/ i = 3 * k
<1>1. CASE i % 3 = 0
  <2>1. i = 3 * (i \div 3)
    BY <1>1
  <2> QED
    BY <2>1
<1>2. CASE i % 3 # 0
  <2>1. i = 3 * (i \div 3) + 1 \/ i = 3 * (i \div 3) + 2
    BY <1>2
  <2>2. (i \div 3) + 1 \in 1 .. l
    BY <2>1
  <2>3. i = 3 * ((i \div 3) + 1) - 2 \/ i = 3 * ((i \div 3) + 1) - 1
    BY <2>1
  <2> QED
    BY <2>2, <2>3
<1> QED
  BY <1>1, <1>2

LEMMA CapturedPlaces ==
    ASSUME NEW s \in Bytes
    PROVE  /\ Captured(s) \in Text /\ Len(Captured(s)) = 3 * Len(s)
           /\ \A k \in 1 .. Len(s) :
                 /\ Captured(s)[3 * k - 2] = Digit(s[k] \div 16)
                 /\ Captured(s)[3 * k - 1] = Digit(s[k] % 16)
                 /\ Captured(s)[3 * k] = Colon
<1> DEFINE l == Len(s)
           At(i) == IF i % 3 = 0 THEN Colon
                    ELSE IF i % 3 = 1 THEN Digit(s[(i + 2) \div 3] \div 16) ELSE Digit(s[(i + 1) \div 3] % 16)
           t == [i \in 1 .. 3 * l |-> At(i)]
<1>1. l \in Nat /\ 3 * l \in Nat /\ \A k \in 1 .. l : s[k] \in Byte
  BY BytesAreText
<1>2. Captured(s) = t
  BY DEF Captured
<1> HIDE DEF l
<1>3. ASSUME NEW k \in 1 .. l
      PROVE  /\ 3 * k - 2 \in 1 .. 3 * l /\ 3 * k - 1 \in 1 .. 3 * l /\ 3 * k \in 1 .. 3 * l
             /\ At(3 * k - 2) = Digit(s[k] \div 16) /\ At(3 * k - 1) = Digit(s[k] % 16) /\ At(3 * k) = Colon
  <2>1. 3 * k - 2 \in 1 .. 3 * l /\ 3 * k - 1 \in 1 .. 3 * l /\ 3 * k \in 1 .. 3 * l
    BY <1>1
  <2>2. /\ (3 * k - 2) % 3 = 1 /\ ((3 * k - 2) + 2) \div 3 = k
        /\ (3 * k - 1) % 3 = 2 /\ ((3 * k - 1) + 1) \div 3 = k
        /\ (3 * k) % 3 = 0
    BY <1>1
  <2>3. At(3 * k - 2) = Digit(s[k] \div 16)
    BY <2>2
  <2>4. At(3 * k - 1) = Digit(s[k] % 16)
    BY <2>2
  <2>5. At(3 * k) = Colon
    BY <2>2
  <2> QED
    BY <2>1, <2>3, <2>4, <2>5
<1> HIDE DEF At
<1>4. \A k \in 1 .. l : Digit(s[k] \div 16) \in Int /\ Digit(s[k] % 16) \in Int /\ Colon \in Int
  BY <1>1, Halves, DigitRead DEF Colon
<1>5. \A i \in 1 .. 3 * l : At(i) \in Int
  <2> TAKE i \in 1 .. 3 * l
  <2>1. PICK k \in 1 .. l : i = 3 * k - 2 \/ i = 3 * k - 1 \/ i = 3 * k
    BY <1>1, Tripled
  <2> QED
    BY <1>3, <1>4, <2>1
<1>6. t \in [1 .. 3 * l -> Int] /\ \A i \in 1 .. 3 * l : t[i] = At(i)
  BY <1>5
<1> HIDE DEF t
<1>7. t \in Text /\ Len(t) = 3 * l
  BY <1>1, <1>6, SeqMade DEF Text
<1> QED
  BY <1>2, <1>3, <1>6, <1>7 DEF l

LEMMA CaptureWritten ==
    ASSUME NEW s \in Bytes
    PROVE  FlattenSeq([k \in DOMAIN s |-> bin2hex(<<s[k]>>) \o <<Colon>>]) = Captured(s)
<1> DEFINE l == Len(s)
           t == Captured(s)
           seqs == [k \in 1 .. l |-> bin2hex(<<s[k]>>) \o <<Colon>>]
           o == [k \in 0 .. l |-> 3 * k]
<1>1. l \in Nat /\ DOMAIN s = 1 .. l /\ \A k \in 1 .. l : s[k] \in Byte
  BY BytesAreText
<1>2. /\ t \in Text /\ Len(t) = 3 * l
      /\ \A k \in 1 .. l :
            t[3 * k - 2] = Digit(s[k] \div 16) /\ t[3 * k - 1] = Digit(s[k] % 16) /\ t[3 * k] = Colon
  BY CapturedPlaces
<1> HIDE DEF l, t
<1>3. ASSUME NEW b \in Byte
      PROVE  LET p == bin2hex(<<b>>) \o <<Colon>>
             IN p \in Text /\ Len(p) = 3 /\ p[1] = Digit(b \div 16) /\ p[2] = Digit(b % 16) /\ p[3] = Colon
  <2> DEFINE d == bin2hex(<<b>>)
  <2>1. <<b>> \in Bytes /\ Len(<<b>>) = 1 /\ <<b>>[1] = b
    BY DEF Bytes
  <2>2. d \in Text /\ Len(d) = 2 * 1 /\ d[2 * 1 - 1] = Digit(b \div 16) /\ d[2 * 1] = Digit(b % 16)
    <3>1. 1 \in 1 .. Len(<<b>>)
      BY <2>1
    <3> QED
      BY <2>1, <3>1, HexPlaces
  <2>3. d \in Text /\ Len(d) = 2 /\ d[1] = Digit(b \div 16) /\ d[2] = Digit(b % 16)
    BY <2>2
  <2> HIDE DEF d
  <2>4. <<Colon>> \in Text /\ Len(<<Colon>>) = 1 /\ <<Colon>>[1] = Colon
    BY DEF Colon, Text
  <2> DEFINE e == <<Colon>>
  <2> HIDE DEF e
  <2>5. e \in Text /\ Len(e) = 1 /\ e[1] = Colon
    BY <2>4 DEF e
  <2>6. /\ d \o e \in Text /\ Len(d \o e) = Len(d) + Len(e)
        /\ \A i \in 1 .. Len(d) : (d \o e)[i] = d[i]
        /\ \A i \in Len(d) + 1 .. Len(d) + Len(e) : (d \o e)[i] = e[i - Len(d)]
    BY <2>3, <2>5, TextsJoined
  <2>7. Len(d \o e) = 3 /\ (d \o e)[1] = d[1] /\ (d \o e)[2] = d[2] /\ (d \o e)[3] = e[1]
    BY <2>3, <2>5, <2>6
  <2> QED
    BY <2>3, <2>5, <2>6, <2>7 DEF d, e
<1>4. \A k \in 1 .. l : /\ seqs[k] \in Text /\ Len(seqs[k]) = 3 /\ seqs[k][1] = Digit(s[k] \div 16)
                        /\ seqs[k][2] = Digit(s[k] % 16) /\ seqs[k][3] = Colon
  BY <1>1, <1>3
<1>5. DOMAIN seqs = 1 .. l /\ seqs = [k \in DOMAIN s |-> bin2hex(<<s[k]>>) \o <<Colon>>]
  BY <1>1
<1>6. seqs = [k \in 1 .. l |-> seqs[k]]
  OBVIOUS
<1> HIDE DEF seqs
<1>7. seqs \in [1 .. l -> Text]
  BY <1>4, <1>6
<1>8. seqs \in Seq(Text) /\ Len(seqs) = l
  BY <1>1, <1>7, SeqMade
<1>9. o \in [0 .. l -> Nat] /\ o[0] = 0 /\ o[l] = Len(t) /\ \A k \in 0 .. l : o[k] = 3 * k
  BY <1>1, <1>2
<1> HIDE DEF o
<1>10. ASSUME NEW k \in 1 .. l
       PROVE  o[k] = o[k - 1] + Len(seqs[k]) /\ \A j \in 1 .. Len(seqs[k]) : seqs[k][j] = t[o[k - 1] + j]
  <2>1. k \in 0 .. l /\ k - 1 \in 0 .. l /\ o[k] = 3 * k /\ o[k - 1] = 3 * k - 3
    BY <1>1, <1>9
  <2>2. o[k - 1] + 1 = 3 * k - 2 /\ o[k - 1] + 2 = 3 * k - 1 /\ o[k - 1] + 3 = 3 * k
    BY <2>1
  <2>3. Len(seqs[k]) = 3 /\ \A j \in 1 .. 3 : j = 1 \/ j = 2 \/ j = 3
    BY <1>4
  <2> QED
    BY <1>2, <1>4, <2>1, <2>2, <2>3
<1>11. ArePieces(seqs, o, t)
  BY <1>8, <1>9, <1>10 DEF ArePieces
<1>12. FlattenSeq(seqs) = t
  BY <1>2, <1>8, <1>11, JoinedPieces
<1> QED
  BY <1>5, <1>12 DEF t

LEMMA CaptureLeaves ==
    ASSUME NEW s \in Bytes
    PROVE  Without(Colon, Captured(s)) = bin2hex(s)
<1> DEFINE l == Len(s)
           t == Captured(s)
           d == bin2hex(s)
           o == [i \in 0 .. 3 * l |-> 2 * (i \div 3) + (i % 3)]
<1>1. l \in Nat /\ \A k \in 1 .. l : s[k] \in Byte
  BY BytesAreText
<1>2. /\ t \in Text /\ Len(t) = 3 * l
      /\ \A k \in 1 .. l :
            t[3 * k - 2] = Digit(s[k] \div 16) /\ t[3 * k - 1] = Digit(s[k] % 16) /\ t[3 * k] = Colon
  BY CapturedPlaces
<1>3. /\ d \in Text /\ Len(d) = 2 * l
      /\ \A k \in 1 .. l : d[2 * k - 1] = Digit(s[k] \div 16) /\ d[2 * k] = Digit(s[k] % 16)
  BY HexPlaces
<1> HIDE DEF l, t, d
<1>4. \A k \in 1 .. l : Digit(s[k] \div 16) # Colon /\ Digit(s[k] % 16) # Colon
  BY <1>1, Halves, DigitRead
<1>5. \A i \in 0 .. 3 * l : 2 * (i \div 3) + (i % 3) \in 0 .. 2 * l
  BY <1>1
<1>6. o \in [0 .. 3 * l -> 0 .. 2 * l] /\ \A i \in 0 .. 3 * l : o[i] = 2 * (i \div 3) + (i % 3)
  BY <1>5
<1>7. o[0] = 0 /\ o[3 * l] = 2 * l
  BY <1>1
<1> HIDE DEF o
<1>8. ASSUME NEW i \in 1 .. 3 * l
      PROVE  \/ t[i] = Colon /\ o[i] = o[i - 1]
             \/ t[i] # Colon /\ o[i] = o[i - 1] + 1 /\ t[i] = d[o[i]]
  <2>1. PICK k \in 1 .. l : i = 3 * k - 2 \/ i = 3 * k - 1 \/ i = 3 * k
    BY <1>1, Tripled
  <2>2. /\ 3 * k - 3 \in 0 .. 3 * l /\ 3 * k - 2 \in 0 .. 3 * l /\ 3 * k - 1 \in 0 .. 3 * l /\ 3 * k \in 0 .. 3 * l
        /\ (3 * k - 3) \div 3 = k - 1 /\ (3 * k - 3) % 3 = 0
        /\ (3 * k - 2) \div 3 = k - 1 /\ (3 * k - 2) % 3 = 1
        /\ (3 * k - 1) \div 3 = k - 1 /\ (3 * k - 1) % 3 = 2
        /\ (3 * k) \div 3 = k /\ (3 * k) % 3 = 0
    BY <1>1
  <2>3. o[3 * k - 3] = 2 * k - 2 /\ o[3 * k - 2] = 2 * k - 1 /\ o[3 * k - 1] = 2 * k /\ o[3 * k] = 2 * k
    <3>1. /\ o[3 * k - 3] = 2 * ((3 * k - 3) \div 3) + ((3 * k - 3) % 3)
          /\ o[3 * k - 2] = 2 * ((3 * k - 2) \div 3) + ((3 * k - 2) % 3)
          /\ o[3 * k - 1] = 2 * ((3 * k - 1) \div 3) + ((3 * k - 1) % 3)
          /\ o[3 * k] = 2 * ((3 * k) \div 3) + ((3 * k) % 3)
      BY <1>6, <2>2
    <3>2. 2 * (k - 1) + 0 = 2 * k - 2 /\ 2 * (k - 1) + 1 = 2 * k - 1 /\ 2 * (k - 1) + 2 = 2 * k /\ 2 * k + 0 = 2 * k
      BY <1>1
    <3> QED
      BY <2>2, <3>1, <3>2
  <2>4. (3 * k - 2) - 1 = 3 * k - 3 /\ (3 * k - 1) - 1 = 3 * k - 2
    BY <1>1
  <2>5. /\ t[3 * k - 2] = d[2 * k - 1] /\ t[3 * k - 1] = d[2 * k] /\ t[3 * k] = Colon
        /\ t[3 * k - 2] # Colon /\ t[3 * k - 1] # Colon
        /\ 2 * k - 1 = (2 * k - 2) + 1 /\ 2 * k = (2 * k - 1) + 1
    <3>1. k \in Int
      BY <1>1
    <3> QED
      BY <1>2, <1>3, <1>4, <3>1
  <2>6. CASE i = 3 * k - 2
    BY <2>3, <2>4, <2>5, <2>6
  <2>8. CASE i = 3 * k - 1
    BY <2>3, <2>4, <2>5, <2>8
  <2>7. CASE i = 3 * k
    BY <2>3, <2>5, <2>7
  <2> QED
    BY <2>1, <2>6, <2>7, <2>8
<1>9. Leaves(t, Colon, o, d)
  BY <1>2, <1>3, <1>6, <1>7, <1>8 DEF Leaves
<1> QED
  BY <1>2, <1>3, <1>9, WithoutLeaves DEF t, d

(* The digits are read back from the capture. *)
LEMMA CaptureReadBack ==
    ASSUME NEW s \in Bytes
    PROVE  hex2bin(wipeoff_colon(Captured(s))) = s
<1> DEFINE l == Len(s)
           t == Captured(s)
           e == Len(t)
           ink == {i \in DOMAIN t : t[i] # 32}
           blank == {i \in Min(ink) .. Len(t) : t[i] = 32}
<1>1. l \in Nat /\ \A k \in 1 .. l : s[k] \in Byte
  BY BytesAreText
<1>2. /\ t \in Text /\ e = 3 * l
      /\ \A k \in 1 .. l :
            t[3 * k - 2] = Digit(s[k] \div 16) /\ t[3 * k - 1] = Digit(s[k] % 16) /\ t[3 * k] = Colon
  BY CapturedPlaces
<1>3. DOMAIN t = 1 .. e /\ e \in Nat
  BY <1>2 DEF Text
<1> HIDE DEF l, t, e
<1>4. \A i \in 1 .. e : t[i] # 32
  <2> TAKE i \in 1 .. e
  <2>1. PICK k \in 1 .. l : i = 3 * k - 2 \/ i = 3 * k - 1 \/ i = 3 * k
    BY <1>1, <1>2, Tripled
  <2>2. Digit(s[k] \div 16) # 32 /\ Digit(s[k] % 16) # 32 /\ Colon # 32
    BY <1>1, Halves, DigitRead DEF Colon
  <2> QED
    BY <1>2, <2>1, <2>2
<1>5. ink = 1 .. e
  BY <1>3, <1>4
<1>6. CASE l = 0
  <2>1. ink = {}
    BY <1>2, <1>5, <1>6
  <2>2. wipeoff_colon(t) = <<>>
    BY <2>1 DEF wipeoff_colon
  <2>3. s = <<>>
    BY <1>6, BytesAreText, EmptySeq DEF l, Text
  <2>4. IsHexOf(<<>>, s)
    BY <2>3 DEF IsHexOf, Text
  <2> QED
    BY <2>2, <2>4, HexRead DEF t
<1>7. CASE l # 0
  <2>1. Min(ink) = 1 /\ ink # {}
    <3>1. 1 \in 1 .. e /\ 1 .. e \subseteq Int /\ \A i \in 1 .. e : 1 <= i
      BY <1>1, <1>2, <1>7
    <3> QED
      BY <1>5, <3>1, LeastIs
  <2>2. blank = {}
    BY <1>4, <2>1 DEF e
  <2>3. Min(blank \cup {e + 1}) = e + 1
    <3>1. {} \cup {e + 1} \subseteq Int /\ e + 1 \in {} \cup {e + 1} /\ \A i \in {} \cup {e + 1} : e + 1 <= i
      BY <1>3
    <3> QED
      BY <2>2, <3>1, LeastIs
  <2> HIDE DEF ink, blank
  <2>4. SubSeq(t, 1, (e + 1) - 1) = t
    <3>1. (e + 1) - 1 = e
      BY <1>3
    <3> QED
      BY <1>2, <3>1, SubSeqFull DEF e, Text
  <2>5. wipeoff_colon(t) = Without(Colon, SubSeq(t, Min(ink), Min(blank \cup {e + 1}) - 1))
    BY <2>1 DEF wipeoff_colon, ink, blank, e
  <2>6. wipeoff_colon(t) = bin2hex(s)
    BY <2>1, <2>3, <2>4, <2>5, CaptureLeaves DEF t
  <2> QED
    BY <2>6, HexReadBack DEF t
<1> QED
  BY <1>6, <1>7

-----------------------------------------------------------------------------
(* Dumps.  The column of digits: those of the text, and blanks.            *)
DumpedDigits(s) == [i \in 1 .. 2 * Len(s) |-> Lower(bin2hex(s)[i])]
Column(s) ==
    [i \in 1 .. 2 * (Len(Groups(s, DumpSize)) * DumpSize) |->
        IF i <= 2 * Len(s) THEN Lower(bin2hex(s)[i]) ELSE 32]

LEMMA DumpedHex ==
    ASSUME NEW s \in Bytes
    PROVE  /\ IsHexOf(DumpedDigits(s), s)
           /\ \A i \in 1 .. 2 * Len(s) : /\ Lower(bin2hex(s)[i]) \in Int /\ Lower(bin2hex(s)[i]) # 32
                                         /\ DumpedDigits(s)[i] = Lower(bin2hex(s)[i])
<1> DEFINE l == Len(s)
           d == bin2hex(s)
           u == [i \in 1 .. 2 * l |-> Lower(d[i])]
<1>1. l \in Nat /\ \A k \in 1 .. l : s[k] \div 16 \in 0 .. 15 /\ s[k] % 16 \in 0 .. 15
  BY BytesAreText, Halves
<1>2. \A k \in 1 .. l : d[2 * k - 1] = Digit(s[k] \div 16) /\ d[2 * k] = Digit(s[k] % 16)
  BY HexPlaces
<1>3. DumpedDigits(s) = u
  BY DEF DumpedDigits
<1> HIDE DEF l, d
<1>4. ASSUME NEW k \in 1 .. l
      PROVE  /\ Lower(d[2 * k - 1]) \in HexChars /\ Value(Lower(d[2 * k - 1])) = s[k] \div 16
             /\ Lower(d[2 * k]) \in HexChars /\ Value(Lower(d[2 * k])) = s[k] % 16
             /\ Lower(d[2 * k - 1]) \in Int /\ Lower(d[2 * k]) \in Int
             /\ Lower(d[2 * k - 1]) # 32 /\ Lower(d[2 * k]) # 32
  BY <1>1, <1>2, DigitRead
<1>5. \A i \in 1 .. 2 * l : Lower(d[i]) \in Int /\ Lower(d[i]) # 32
  <2> TAKE i \in 1 .. 2 * l
  <2>1. i \in Nat /\ 1 <= i /\ i <= 2 * l
    BY <1>1
  <2>2. PICK k \in 1 .. l : i = 2 * k - 1 \/ i = 2 * k
    BY <1>1, <2>1, Paired
  <2> QED
    BY <1>4, <2>2
<1>6. u \in [1 .. 2 * l -> Int] /\ 2 * l \in Nat /\ \A i \in 1 .. 2 * l : u[i] = Lower(d[i])
  BY <1>1, <1>5
<1> HIDE DEF u
<1>7. u \in Text /\ Len(u) = 2 * l
  BY <1>6, SeqMade DEF Text
<1>8. \A k \in 1 .. l : 2 * k - 1 \in 1 .. 2 * l /\ 2 * k \in 1 .. 2 * l
  BY <1>1
<1>9. IsHexOf(u, s)
  BY <1>4, <1>6, <1>7, <1>8 DEF IsHexOf, l
<1> QED
  BY <1>3, <1>5, <1>6, <1>9 DEF l, d

LEMMA ColumnType ==
    ASSUME NEW s \in Bytes
    PROVE  /\ Column(s) \in Text /\ Len(Column(s)) = 2 * (Len(Groups(s, DumpSize)) * DumpSize)
           /\ 2 * Len(s) <= Len(Column(s)) /\ Len(Column(s)) \in Nat /\ Len(s) \in Nat
           /\ \A i \in 1 .. Len(Column(s)) :
                 Column(s)[i] = IF i <= 2 * Len(s) THEN Lower(bin2hex(s)[i]) ELSE 32
<1> DEFINE l == Len(s)
           q == Len(Groups(s, DumpSize))
           c == 2 * (q * DumpSize)
           t == [i \in 1 .. c |-> IF i <= 2 * l THEN Lower(bin2hex(s)[i]) ELSE 32]
<1>1. l \in Nat /\ s \in Text /\ DumpSize \in Nat \ {0}
  BY BytesAreText, CodesAssumption
<1>2. q = (l + DumpSize - 1) \div DumpSize
  BY <1>1, GroupFacts
<1>3. Column(s) = t
  BY DEF Column
<1>4. \A i \in 1 .. 2 * l : Lower(bin2hex(s)[i]) \in Int
  BY DumpedHex
<1> HIDE DEF q, l
<1>5. q \in Nat /\ l <= q * DumpSize
  <2>1. Counted(l, DumpSize, q)
    BY <1>1, <1>2, PieceCount
  <2> QED
    BY <2>1 DEF Counted
<1>6. c \in Nat /\ 2 * l <= c
  BY <1>1, <1>5
<1> HIDE DEF c
<1>7. t \in [1 .. c -> Int] /\ \A i \in 1 .. c : t[i] = IF i <= 2 * l THEN Lower(bin2hex(s)[i]) ELSE 32
  BY <1>1, <1>4, <1>6
<1> HIDE DEF t
<1>8. t \in Text /\ Len(t) = c
  BY <1>6, <1>7, SeqMade DEF Text
<1> QED
  BY <1>1, <1>3, <1>6, <1>7, <1>8 DEF l, c, q

LEMMA ColumnLeaves ==
    ASSUME NEW s \in Bytes
    PROVE  Without(32, Column(s)) = DumpedDigits(s)
<1> DEFINE l == 2 * Len(s)
           t == Column(s)
           u == DumpedDigits(s)
           c == Len(t)
           o == [i \in 0 .. c |-> IF i <= l THEN i ELSE l]
<1>1. /\ t \in Text /\ c \in Nat /\ l \in Nat /\ l <= c
      /\ \A i \in 1 .. c : t[i] = IF i <= l THEN Lower(bin2hex(s)[i]) ELSE 32
  BY ColumnType
<1>2. /\ u \in Text /\ Len(u) = l
      /\ \A i \in 1 .. l : Lower(bin2hex(s)[i]) # 32 /\ u[i] = Lower(bin2hex(s)[i])
  BY DumpedHex DEF IsHexOf
<1> HIDE DEF l, t, u, c
<1>3. /\ o \in [0 .. c -> 0 .. l] /\ o[0] = 0 /\ o[c] = l
      /\ \A i \in 0 .. c : o[i] = IF i <= l THEN i ELSE l
  BY <1>1
<1> HIDE DEF o
<1>4. ASSUME NEW i \in 1 .. c
      PROVE  \/ t[i] = 32 /\ o[i] = o[i - 1]
             \/ t[i] # 32 /\ o[i] = o[i - 1] + 1 /\ t[i] = u[o[i]]
  <2>1. i \in 0 .. c /\ i - 1 \in 0 .. c /\ i \in Int
    BY <1>1
  <2>2. CASE i <= l
    <3>1. i \in 1 .. l /\ i - 1 <= l /\ (i - 1) + 1 = i
      BY <1>1, <2>2
    <3>2. o[i] = i /\ o[i - 1] = i - 1
      BY <1>3, <2>1, <2>2, <3>1
    <3> QED
      BY <1>1, <1>2, <2>2, <3>1, <3>2
  <2>3. CASE ~(i <= l)
    <3>1. o[i] = l /\ o[i - 1] = l
      BY <1>1, <1>3, <2>1, <2>3
    <3> QED
      BY <1>1, <2>3, <3>1
  <2> QED
    BY <2>2, <2>3
<1>5. Leaves(t, 32, o, u)
  BY <1>2, <1>3, <1>4 DEF Leaves, c
<1> QED
  BY <1>1, <1>2, <1>5, WithoutLeaves DEF t, u

(* A line, at its place. *)
LEMMA LineFacts ==
    ASSUME NEW s \in Bytes, NEW k \in Nat, NEW g, IsGroup(g, s, DumpSize, k)
    PROVE  /\ Line(g).hex \in Text /\ Len(Line(g).hex) = 2 * DumpSize
           /\ \A j \in 1 .. 2 * DumpSize :
                 Line(g).hex[j] = IF 2 * ((k - 1) * DumpSize) + j <= 2 * Len(s)
                                  THEN Lower(bin2hex(s)[2 * ((k - 1) * DumpSize) + j]) ELSE 32
           /\ Line(g).text \in Text /\ Len(Line(g).text) = Len(g)
           /\ \A j \in 1 .. Len(g) : Line(g).text[j] = Shown(s[(k - 1) * DumpSize + j])
<1> DEFINE w == DumpSize
           a == (k - 1) * w
           c == Len(g)
           l == Len(s)
           d == bin2hex(s)
           x == [i \in 1 .. 2 * w |-> IF i > 2 * c THEN 32 ELSE Lower(bin2hex(g)[i])]
           y == [j \in DOMAIN g |-> Shown(g[j])]
<1>1. Line(g).hex = x /\ Line(g).text = y
  BY DEF Line
<1>2. /\ a \in Nat /\ g \in Text /\ c \in 1 .. w /\ a + c = PieceEnd(l, w, k) /\ PieceEnd(l, w, k) \in 1 .. l
      /\ \A j \in 1 .. c : g[j] = s[a + j]
  BY DEF IsGroup
<1>3. l \in Nat /\ w \in Nat \ {0} /\ 2 * w \in Nat
  BY BytesAreText, CodesAssumption
<1>4. /\ g \in Bytes
      /\ \A j \in 1 .. 2 * c : 2 * a + j \in 1 .. 2 * l /\ bin2hex(g)[j] = d[2 * a + j]
  BY <1>3, GroupDigits
<1>5. k * w = a + w
  BY <1>3
<1>6. \A i \in 1 .. 2 * l : Lower(d[i]) \in Int
  BY DumpedHex
<1>7. DOMAIN g = 1 .. c
  BY <1>2 DEF Text
<1>8. y = [j \in 1 .. c |-> Shown(s[a + j])] /\ \A j \in 1 .. c : s[a + j] \in Int
  <2>1. \A j \in 1 .. c : g[j] \in Int
    BY <1>2 DEF Text
  <2>2. \A j \in 1 .. c : g[j] = s[a + j]
    BY Zenon, <1>2
  <2> HIDE DEF a, c
  <2>3. \A j \in 1 .. c : s[a + j] \in Int
    BY Zenon, <2>1, <2>2
  <2>4. y = [j \in 1 .. c |-> Shown(s[a + j])]
    BY <1>7, <2>2
  <2> QED
    BY <2>3, <2>4
<1> HIDE DEF w, a, c, l, d
<1>9. y \in [1 .. c -> Int] /\ c \in Nat /\ \A j \in 1 .. c : y[j] = Shown(s[a + j])
  BY <1>2, <1>8 DEF Shown
<1> HIDE DEF y
<1>10. y \in Text /\ Len(y) = c
  BY <1>9, SeqMade DEF Text
<1>11. ASSUME NEW j \in 1 .. 2 * w
       PROVE  x[j] = (IF 2 * a + j <= 2 * l THEN Lower(d[2 * a + j]) ELSE 32) /\ x[j] \in Int
  <2>1. j \in Int /\ 1 <= j /\ j <= 2 * w
    BY <1>3
  <2>2. CASE j > 2 * c
    <3>1. x[j] = 32
      BY <2>2
    <3>2. a + c = l
      BY <1>2, <1>3, <1>5, <2>1, <2>2 DEF PieceEnd
    <3>3. ~(2 * a + j <= 2 * l)
      BY <1>2, <1>3, <2>1, <2>2, <3>2
    <3> QED
      BY <3>1, <3>3
  <2>3. CASE ~(j > 2 * c)
    <3>1. j \in 1 .. 2 * c
      BY <1>2, <2>1, <2>3
    <3>2. 2 * a + j \in 1 .. 2 * l /\ bin2hex(g)[j] = d[2 * a + j]
      BY <1>4, <3>1
    <3>3. x[j] = Lower(d[2 * a + j])
      BY <2>3, <3>2
    <3> QED
      BY <1>3, <1>6, <3>2, <3>3
  <2> QED
    BY <2>2, <2>3
<1>12. x \in [1 .. 2 * w -> Int]
  <2>1. x = [i \in 1 .. 2 * w |-> x[i]]
    OBVIOUS
  <2> HIDE DEF x
  <2> QED
    BY <1>11, <2>1
<1> HIDE DEF x
<1>13. x \in Text /\ Len(x) = 2 * w
  BY <1>3, <1>12, SeqMade DEF Text
<1> QED
  BY <1>1, <1>9, <1>10, <1>11, <1>13 DEF w, a, c, l, d

LEMMA DumpWritten ==
    ASSUME NEW s \in Bytes
    PROVE  /\ FlattenSeq([k \in DOMAIN hexdumpbuf(s) |-> hexdumpbuf(s)[k].hex]) = Column(s)
           /\ Len(FlattenSeq([k \in DOMAIN hexdumpbuf(s) |-> hexdumpbuf(s)[k].text])) = Len(s)
<1> DEFINE w == DumpSize
           G == Groups(s, w)
           q == Len(G)
           l == Len(s)
           t == Column(s)
           shown == [i \in 1 .. l |-> Shown(s[i])]
           H == [k \in 1 .. q |-> Line(G[k]).hex]
           X == [k \in 1 .. q |-> Line(G[k]).text]
           o == [k \in 0 .. q |-> 2 * (k * w)]
           e == [k \in 0 .. q |-> PieceEnd(l, w, k)]
<1>1. s \in Text /\ l \in Nat /\ w \in Nat \ {0} /\ 2 * w \in Nat /\ \A i \in 1 .. l : s[i] \in Int
  BY BytesAreText, CodesAssumption
<1>2. G \in Seq(Text) /\ \A k \in 1 .. q : IsGroup(G[k], s, w, k)
  BY <1>1, GroupFacts
<1>3. /\ \A k \in 0 .. q : PieceEnd(l, w, k) \in Nat
      /\ PieceEnd(l, w, 0) = 0 /\ PieceEnd(l, w, q) = l
      /\ \A k \in 1 .. q : PieceEnd(l, w, k - 1) = (k - 1) * w
      /\ q \in Nat
  BY <1>1, PieceEnds
<1>4. /\ t \in Text /\ Len(t) = 2 * (q * w)
      /\ \A i \in 1 .. Len(t) : t[i] = IF i <= 2 * l THEN Lower(bin2hex(s)[i]) ELSE 32
  BY ColumnType
<1>5. ASSUME NEW k \in 1 .. q
      PROVE  /\ Line(G[k]).hex \in Text /\ Len(Line(G[k]).hex) = 2 * w
             /\ \A j \in 1 .. 2 * w :
                   Line(G[k]).hex[j] = IF 2 * ((k - 1) * w) + j <= 2 * l
                                       THEN Lower(bin2hex(s)[2 * ((k - 1) * w) + j]) ELSE 32
             /\ Line(G[k]).text \in Text /\ Len(Line(G[k]).text) = Len(G[k])
             /\ \A j \in 1 .. Len(G[k]) : Line(G[k]).text[j] = Shown(s[(k - 1) * w + j])
  <2>1. k \in Nat /\ IsGroup(G[k], s, w, k)
    BY <1>2, <1>3
  <2> QED
    BY <2>1, LineFacts
<1>6. /\ [k \in DOMAIN hexdumpbuf(s) |-> hexdumpbuf(s)[k].hex] = H
      /\ [k \in DOMAIN hexdumpbuf(s) |-> hexdumpbuf(s)[k].text] = X
  <2>1. DOMAIN G = 1 .. q
    BY <1>2
  <2>2. hexdumpbuf(s) = [k \in 1 .. q |-> Line(G[k])]
    BY <2>1 DEF hexdumpbuf
  <2> HIDE DEF G, q
  <2> QED
    BY <2>2
<1> HIDE DEF G, q, l, t, w
<1>7. /\ H \in [1 .. q -> Text] /\ \A k \in 1 .. q : H[k] = Line(G[k]).hex
      /\ X \in [1 .. q -> Text] /\ \A k \in 1 .. q : X[k] = Line(G[k]).text
  BY <1>5
<1> HIDE DEF H, X
<1>8. H \in Seq(Text) /\ Len(H) = q /\ X \in Seq(Text) /\ Len(X) = q
  BY <1>3, <1>7, SeqMade
<1>9. \A k \in 0 .. q : k * w \in Nat
  BY <1>1, <1>3
<1>10. o \in [0 .. q -> Nat] /\ o[0] = 0 /\ o[q] = Len(t) /\ \A k \in 0 .. q : o[k] = 2 * (k * w)
  BY <1>1, <1>3, <1>4, <1>9
<1>11. e \in [0 .. q -> Nat] /\ e[0] = 0 /\ e[q] = l /\ \A k \in 0 .. q : e[k] = PieceEnd(l, w, k)
  BY <1>3
<1> HIDE DEF o, e
<1>12. ASSUME NEW k \in 1 .. q
       PROVE  o[k] = o[k - 1] + Len(H[k]) /\ \A j \in 1 .. Len(H[k]) : H[k][j] = t[o[k - 1] + j]
  <2> DEFINE a == (k - 1) * w
  <2>1. k \in 0 .. q /\ k - 1 \in 0 .. q
    BY <1>3
  <2>2. o[k - 1] = 2 * a /\ o[k] = 2 * (k * w) /\ k * w = a + w /\ a \in Nat
    BY <1>1, <1>9, <1>10, <2>1
  <2>3. Len(H[k]) = 2 * w
    BY <1>5, <1>7
  <2>4. o[k] = 2 * a + 2 * w /\ o[k] <= Len(t)
    <3>1. k * w <= q * w
      <4>1. CASE k = q
        BY <1>9, <2>1, <4>1
      <4>2. CASE k < q
        <5>1. k * w + w <= q * w /\ k * w \in Nat /\ q * w \in Nat
          BY <1>1, <1>3, <4>2, MultiplesApart
        <5> QED
          BY <1>1, <5>1
      <4> QED
        BY <1>3, <4>1, <4>2
    <3>2. k * w \in Nat /\ q * w \in Nat /\ q \in 0 .. q
      BY <1>3, <1>9, <2>1
    <3> QED
      BY <1>1, <1>4, <2>2, <3>1, <3>2
  <2>5. \A j \in 1 .. 2 * w : H[k][j] = IF 2 * a + j <= 2 * l THEN Lower(bin2hex(s)[2 * a + j]) ELSE 32
    BY <1>5, <1>7
  <2> HIDE DEF a
  <2>6. ASSUME NEW j \in 1 .. 2 * w PROVE H[k][j] = t[2 * a + j]
    <3>1. 2 * a + j \in 1 .. Len(t)
      <4>1. Len(t) \in Nat
        BY <1>4 DEF Text
      <4> QED
        BY <1>1, <2>2, <2>4, <4>1
    <3> QED
      BY <1>4, <2>5, <3>1
  <2>7. o[k] = o[k - 1] + Len(H[k])
    BY <1>1, <2>2, <2>3, <2>4
  <2> QED
    BY <2>2, <2>3, <2>6, <2>7
<1>13. ArePieces(H, o, t)
  BY <1>8, <1>10, <1>12 DEF ArePieces
<1>14. FlattenSeq(H) = t
  BY <1>4, <1>8, <1>13, JoinedPieces
<1>15. shown \in [1 .. l -> Int] /\ \A i \in 1 .. l : shown[i] = Shown(s[i])
  BY <1>1 DEF Shown
<1> HIDE DEF shown
<1>16. shown \in Text /\ Len(shown) = l
  BY <1>1, <1>15, SeqMade DEF Text
<1>17. ASSUME NEW k \in 1 .. q
       PROVE  e[k] = e[k - 1] + Len(X[k]) /\ \A j \in 1 .. Len(X[k]) : X[k][j] = shown[e[k - 1] + j]
  <2> DEFINE a == (k - 1) * w
             c == Len(G[k])
  <2>1. k \in 0 .. q /\ k - 1 \in 0 .. q
    BY <1>3
  <2>2. /\ a \in Nat /\ c \in 1 .. w /\ a + c = PieceEnd(l, w, k) /\ PieceEnd(l, w, k) \in 1 .. l
    BY <1>2 DEF IsGroup, l
  <2>3. e[k] = a + c /\ e[k - 1] = a
    BY <1>3, <1>11, <2>1, <2>2
  <2>4. Len(X[k]) = c /\ \A j \in 1 .. c : X[k][j] = Shown(s[a + j])
    BY <1>5, <1>7
  <2> HIDE DEF a, c
  <2>5. \A j \in 1 .. c : a + j \in 1 .. l
    BY <1>1, <2>2
  <2> QED
    BY <1>15, <2>3, <2>4, <2>5
<1>18. ArePieces(X, e, shown)
  BY <1>8, <1>11, <1>16, <1>17 DEF ArePieces
<1>19. FlattenSeq(X) = shown
  BY <1>8, <1>16, <1>18, JoinedPieces
<1> QED
  BY <1>6, <1>14, <1>16, <1>19 DEF t, l

(* The digits are read back from the dump. *)
LEMMA DumpReadBack ==
    ASSUME NEW s \in Bytes
    PROVE  hex2bin(Without(32, Column(s))) = s
BY ColumnLeaves, DumpedHex, HexRead

-----------------------------------------------------------------------------
(* Base64.  Each of the 64 characters is found at its place.               *)
LEMMA CharacterFound ==
    ASSUME NEW v \in 0 .. 63
    PROVE  /\ base64_chars[v + 1] \in Int /\ is_base64(base64_chars[v + 1])
           /\ base64_chars[v + 1] # Equals /\ Find(base64_chars[v + 1]) = v
<1> DEFINE At(i) == IF i <= 26 THEN 64 + i ELSE IF i <= 52 THEN 70 + i
                    ELSE IF i <= 62 THEN i - 5 ELSE IF i = 63 THEN 43 ELSE 47
<1>1. v + 1 \in 1 .. 64 /\ (v + 1) - 1 = v
  OBVIOUS
<1>2. DOMAIN base64_chars = 1 .. 64 /\ \A i \in 1 .. 64 : base64_chars[i] = At(i)
  BY DEF base64_chars
<1>3. \A i \in 1 .. 64 : \A j \in 1 .. 64 : At(i) = At(j) => i = j
  <2> SUFFICES ASSUME NEW i \in 1 .. 64, NEW j \in 1 .. 64, At(i) = At(j) PROVE i = j
    OBVIOUS
  <2>1. i \in Int /\ 1 <= i /\ i <= 64 /\ j \in Int /\ 1 <= j /\ j <= 64
    OBVIOUS
  <2> QED
    BY <2>1
<1>4. \A i \in 1 .. 64 : At(i) \in Int /\ At(i) # 61
  OBVIOUS
<1> HIDE DEF At
<1> DEFINE c == base64_chars[v + 1]
           x == CHOOSE i \in 1 .. 64 : base64_chars[i] = c
<1>5. c = At(v + 1) /\ is_base64(c)
  BY <1>1, <1>2 DEF is_base64, ToSet
<1>6. x \in 1 .. 64 /\ base64_chars[x] = c
  BY <1>1
<1>7. Find(c) = x - 1
  BY <1>5 DEF Find
<1> HIDE DEF x, c
<1>8. x = v + 1
  <2>1. At(x) = At(v + 1)
    BY <1>2, <1>5, <1>6
  <2> QED
    BY <1>1, <1>3, <1>6, <2>1
<1>9. c \in Int /\ c # Equals
  BY <1>1, <1>4, <1>5 DEF Equals
<1> QED
  BY <1>1, <1>5, <1>7, <1>8, <1>9 DEF c

(* Three bytes are four numbers below 64, from which they are made again.  *)
LEMMA SextetFacts ==
    ASSUME NEW a \in Byte, NEW b \in Byte, NEW c \in Byte,
           NEW w, w = a \div 4, NEW x, x = (a % 4) * 16 + (b \div 16),
           NEW y, y = (b % 16) * 4 + (c \div 64), NEW z, z = c % 64
    PROVE  /\ w \in 0 .. 63 /\ x \in 0 .. 63 /\ y \in 0 .. 63 /\ z \in 0 .. 63
           /\ (w * 4 + ((x \div 16) % 4)) % 256 = a
           /\ ((x % 16) * 16 + ((y \div 4) % 16)) % 256 = b
           /\ ((y % 4) * 64 + z) % 256 = c
<1>1. a \in Int /\ 0 <= a /\ a < 256 /\ b \in Int /\ 0 <= b /\ b < 256 /\ c \in Int /\ 0 <= c /\ c < 256
  BY DEF Byte
<1>2. /\ w \in 0 .. 63 /\ a % 4 \in 0 .. 3 /\ a = 4 * w + (a % 4)
      /\ b \div 16 \in 0 .. 15 /\ b % 16 \in 0 .. 15 /\ b = 16 * (b \div 16) + (b % 16)
      /\ c \div 64 \in 0 .. 3 /\ z \in 0 .. 63 /\ c = 64 * (c \div 64) + z
  BY <1>1
<1>3. x \in 0 .. 63 /\ x \div 16 = a % 4 /\ x % 16 = b \div 16
  <2>1. \A h \in 0 .. 3 : \A k \in 0 .. 15 :
           h * 16 + k \in 0 .. 63 /\ (h * 16 + k) \div 16 = h /\ (h * 16 + k) % 16 = k
    OBVIOUS
  <2>2. a % 4 \in 0 .. 3 /\ b \div 16 \in 0 .. 15
    BY <1>2
  <2> QED
    BY <2>1, <2>2, Zenon
<1>4. y \in 0 .. 63 /\ y \div 4 = b % 16 /\ y % 4 = c \div 64
  <2>1. \A h \in 0 .. 15 : \A k \in 0 .. 3 :
           h * 4 + k \in 0 .. 63 /\ (h * 4 + k) \div 4 = h /\ (h * 4 + k) % 4 = k
    OBVIOUS
  <2>2. b % 16 \in 0 .. 15 /\ c \div 64 \in 0 .. 3
    BY <1>2
  <2> QED
    BY <2>1, <2>2, Zenon
<1>5. (w * 4 + ((x \div 16) % 4)) % 256 = a
  <2>1. (a % 4) % 4 = a % 4
    BY <1>1
  <2> QED
    BY <1>1, <1>2, <1>3, <2>1
<1>6. ((x % 16) * 16 + ((y \div 4) % 16)) % 256 = b
  <2>1. (b % 16) % 16 = b % 16
    BY <1>1
  <2> QED
    BY <1>1, <1>2, <1>3, <1>4, <2>1
<1>7. ((y % 4) * 64 + z) % 256 = c
  BY <1>1, <1>2, <1>4
<1> QED
  BY <1>2, <1>3, <1>4, <1>5, <1>6, <1>7

(* The sextets of a group of one to three bytes.                           *)
Four(g) == Sextets(g \o Zeros(3 - Len(g)))

LEMMA FourFacts ==
    ASSUME NEW g \in Bytes, Len(g) \in 1 .. 3
    PROVE  /\ \A j \in 1 .. 4 : Four(g)[j] \in 0 .. 63
           /\ \A x : (\A j \in 1 .. Len(g) + 1 : x[j] = Four(g)[j]) =>
                 \A j \in 1 .. Len(g) : Octets(x)[j] = g[j]
<1> DEFINE i == Len(g)
           z == Zeros(3 - i)
           p == g \o z
           f == Sextets(p)
<1>1. i \in 1 .. 3 /\ g \in Text /\ \A j \in 1 .. i : g[j] \in Byte
  BY BytesAreText
<1>2. z \in [1 .. 3 - i -> Int] /\ 3 - i \in Nat /\ \A j \in 1 .. 3 - i : z[j] = 0
  BY <1>1 DEF Zeros
<1> HIDE DEF z
<1>3. z \in Text /\ Len(z) = 3 - i
  BY <1>2, SeqMade DEF Text
<1>4. /\ \A j \in 1 .. i : p[j] = g[j]
      /\ \A j \in i + 1 .. i + (3 - i) : p[j] = z[j - i]
  <2>1. /\ \A j \in 1 .. Len(g) : p[j] = g[j]
        /\ \A j \in Len(g) + 1 .. Len(g) + Len(z) : p[j] = z[j - Len(g)]
    BY <1>1, <1>3, TextsJoined
  <2> HIDE DEF p
  <2> QED
    BY <1>3, <2>1
<1> HIDE DEF p, i
<1>5. \A j \in 1 .. 3 : p[j] \in Byte
  <2> TAKE j \in 1 .. 3
  <2>1. CASE j <= i
    <3>1. j \in 1 .. i
      BY <1>1, <2>1
    <3> QED
      BY <1>1, <1>4, <3>1
  <2>2. CASE j > i
    <3>1. j \in i + 1 .. i + (3 - i) /\ j - i \in 1 .. 3 - i
      BY <1>1, <2>2
    <3>2. p[j] = 0
      BY <1>2, <1>4, <3>1
    <3> QED
      BY <3>2 DEF Byte
  <2> QED
    BY <1>1, <2>1, <2>2
<1>6. /\ f[1] = p[1] \div 4 /\ f[2] = (p[1] % 4) * 16 + (p[2] \div 16)
      /\ f[3] = (p[2] % 16) * 4 + (p[3] \div 64) /\ f[4] = p[3] % 64
  BY DEF Sextets
<1>7. p[1] \in Byte /\ p[2] \in Byte /\ p[3] \in Byte
  BY <1>5
<1> HIDE DEF f
<1>8. /\ f[1] \in 0 .. 63 /\ f[2] \in 0 .. 63 /\ f[3] \in 0 .. 63 /\ f[4] \in 0 .. 63
      /\ (f[1] * 4 + ((f[2] \div 16) % 4)) % 256 = p[1]
      /\ ((f[2] % 16) * 16 + ((f[3] \div 4) % 16)) % 256 = p[2]
      /\ ((f[3] % 4) * 64 + f[4]) % 256 = p[3]
  BY <1>6, <1>7, SextetFacts
<1>9. \A j \in 1 .. 4 : f[j] \in 0 .. 63
  <2>1. \A j \in 1 .. 4 : j = 1 \/ j = 2 \/ j = 3 \/ j = 4
    OBVIOUS
  <2> QED
    BY <1>8, <2>1
<1>10. ASSUME NEW x, \A j \in 1 .. i + 1 : x[j] = f[j], NEW j \in 1 .. i PROVE Octets(x)[j] = g[j]
  <2>1. i \in Int /\ j \in Int /\ 1 <= j /\ j <= i /\ i <= 3 /\ j \in 1 .. i + 1 /\ j + 1 \in 1 .. i + 1
    BY <1>1
  <2>2. x[j] = f[j] /\ x[j + 1] = f[j + 1] /\ p[j] = g[j]
    BY <1>4, <1>10, <2>1
  <2>3. /\ Octets(x)[1] = (x[1] * 4 + ((x[2] \div 16) % 4)) % 256
        /\ Octets(x)[2] = ((x[2] % 16) * 16 + ((x[3] \div 4) % 16)) % 256
        /\ Octets(x)[3] = ((x[3] % 4) * 64 + x[4]) % 256
    BY DEF Octets
  <2>4. CASE j = 1
    <3>1. x[1] = f[1] /\ x[2] = f[2] /\ p[1] = g[1]
      BY <2>2, <2>4
    <3> QED
      BY <1>8, <2>3, <2>4, <3>1
  <2>5. CASE j = 2
    <3>1. x[2] = f[2] /\ x[3] = f[3] /\ p[2] = g[2]
      BY <2>2, <2>5
    <3> QED
      BY <1>8, <2>3, <2>5, <3>1
  <2>6. CASE j = 3
    <3>1. x[3] = f[3] /\ x[4] = f[4] /\ p[3] = g[3]
      BY <2>2, <2>6
    <3> QED
      BY <1>8, <2>3, <2>6, <3>1
  <2> QED
    BY <2>1, <2>4, <2>5, <2>6
<1> QED
  BY <1>9, <1>10 DEF Four, f, p, i, z

LEMMA EncodedGroup ==
    ASSUME NEW g \in Bytes, Len(g) \in 1 .. 3
    PROVE  /\ EncodeGroup(g) \in Text /\ Len(EncodeGroup(g)) = 4
           /\ \A j \in 1 .. Len(g) + 1 :
                 /\ is_base64(EncodeGroup(g)[j]) /\ EncodeGroup(g)[j] # Equals
                 /\ Find(EncodeGroup(g)[j]) = Four(g)[j]
           /\ \A j \in Len(g) + 2 .. 4 : EncodeGroup(g)[j] = Equals
<1> DEFINE i == Len(g)
           f == Four(g)
           At(j) == IF j <= i + 1 THEN base64_chars[f[j] + 1] ELSE Equals
           e == [j \in 1 .. 4 |-> At(j)]
<1>1. EncodeGroup(g) = e
  BY DEF EncodeGroup, Four
<1>2. i \in 1 .. 3 /\ \A j \in 1 .. 4 : f[j] \in 0 .. 63
  BY FourFacts
<1> HIDE DEF i, f
<1>3. ASSUME NEW j \in 1 .. i + 1
      PROVE  j \in 1 .. 4 /\ At(j) \in Int /\ is_base64(At(j)) /\ At(j) # Equals /\ Find(At(j)) = f[j]
  <2>1. j \in 1 .. 4 /\ j <= i + 1
    BY <1>2
  <2>2. At(j) = base64_chars[f[j] + 1] /\ f[j] \in 0 .. 63
    BY <1>2, <2>1
  <2> HIDE DEF At
  <2> QED
    BY <2>1, <2>2, CharacterFound
<1>4. ASSUME NEW j \in i + 2 .. 4 PROVE j \in 1 .. 4 /\ At(j) = Equals
  BY <1>2
<1>5. \A j \in 1 .. 4 : j \in 1 .. i + 1 \/ j \in i + 2 .. 4
  BY <1>2
<1> HIDE DEF At
<1>6. \A j \in 1 .. 4 : At(j) \in Int
  BY <1>3, <1>4, <1>5 DEF Equals
<1>7. e \in [1 .. 4 -> Int] /\ \A j \in 1 .. 4 : e[j] = At(j)
  BY <1>6
<1> HIDE DEF e
<1>8. e \in Text /\ Len(e) = 4
  <2>1. 4 \in Nat /\ e \in [1 .. 4 -> Int]
    BY <1>7
  <2> QED
    BY <2>1, SeqMade DEF Text
<1> QED
  BY <1>1, <1>3, <1>4, <1>7, <1>8 DEF i, f

LEMMA FindType == ASSUME NEW c PROVE Find(c) \in Int
<1>1. DOMAIN base64_chars = 1 .. 64
  BY DEF base64_chars
<1>2. CASE is_base64(c)
  <2> DEFINE x == CHOOSE i \in 1 .. 64 : base64_chars[i] = c
  <2>1. \E i \in 1 .. 64 : base64_chars[i] = c
    BY <1>1, <1>2 DEF is_base64, ToSet
  <2>2. x \in 1 .. 64
    BY <2>1
  <2>3. Find(c) = x - 1
    BY <1>2 DEF Find
  <2> HIDE DEF x
  <2> QED
    BY <2>2, <2>3
<1>3. CASE ~is_base64(c)
  BY <1>3 DEF Find
<1> QED
  BY <1>2, <1>3

LEMMA OctetTypes ==
    ASSUME NEW a \in Int, NEW b \in Int, NEW c \in Int, NEW d \in Int
    PROVE  /\ (a * 4 + ((b \div 16) % 4)) % 256 \in Int
           /\ ((b % 16) * 16 + ((c \div 4) % 16)) % 256 \in Int
           /\ ((c % 4) * 64 + d) % 256 \in Int
<1>1. /\ \A v \in Int : v \div 16 \in Int /\ v % 16 \in Int /\ v \div 4 \in Int /\ v % 4 \in Int
      /\ \A v \in Int : v % 256 \in Int /\ v * 4 \in Int /\ v * 16 \in Int /\ v * 64 \in Int
  OBVIOUS
<1>2. \A v \in Int : \A w \in Int : v + w \in Int
  OBVIOUS
<1>3. /\ (b \div 16) % 4 \in Int /\ b % 16 \in Int /\ (c \div 4) % 16 \in Int /\ c % 4 \in Int /\ a * 4 \in Int
  BY Zenon, <1>1
<1>4. (b % 16) * 16 \in Int /\ (c % 4) * 64 \in Int
  BY Zenon, <1>1, <1>3
<1>5. /\ a * 4 + ((b \div 16) % 4) \in Int
      /\ (b % 16) * 16 + ((c \div 4) % 16) \in Int
      /\ (c % 4) * 64 + d \in Int
  BY Zenon, <1>2, <1>3, <1>4
<1>6. \A v \in Int : v % 256 \in Int
  BY <1>1
<1> DEFINE u == a * 4 + ((b \div 16) % 4)
           v == (b % 16) * 16 + ((c \div 4) % 16)
           w == (c % 4) * 64 + d
<1>7. u \in Int /\ v \in Int /\ w \in Int
  BY <1>5
<1> HIDE DEF u, v, w
<1>8. u % 256 \in Int /\ v % 256 \in Int /\ w % 256 \in Int
  BY <1>6, <1>7
<1> QED
  BY <1>8 DEF u, v, w

(* Characters that begin as the group was encoded, one more than its bytes,*)
(* are decoded to it.                                                      *)
LEMMA DecodedGroup ==
    ASSUME NEW g \in Bytes, Len(g) \in 1 .. 3, NEW r \in Text, Len(r) = Len(g) + 1,
           \A j \in 1 .. Len(r) : r[j] = EncodeGroup(g)[j]
    PROVE  DecodeGroup(r) = g
<1> DEFINE i == Len(r)
           z == Zeros(4 - i)
           p == r \o z
           x == [j \in 1 .. 4 |-> Find(p[j])]
           o == Octets(x)
           l == Len(g)
<1>1. l \in 1 .. 3 /\ i = l + 1 /\ g \in Text
  BY BytesAreText
<1>2. DecodeGroup(r) = SubSeq(o, 1, i - 1)
  BY DEF DecodeGroup
<1>3. z \in Text
  <2> HIDE DEF l
  <2>1. i \in 2 .. 4
    BY <1>1
  <2> HIDE DEF i
  <2>2. z \in [1 .. 4 - i -> Int] /\ 4 - i \in Nat
    BY <2>1 DEF Zeros
  <2> HIDE DEF z
  <2> QED
    BY <2>2, SeqMade DEF Text
<1> HIDE DEF z
<1>4. \A j \in 1 .. i : p[j] = r[j]
  BY <1>3, TextsJoined
<1> HIDE DEF p
<1>5. \A j \in 1 .. l + 1 : x[j] = Four(g)[j]
  <2> TAKE j \in 1 .. l + 1
  <2>1. j \in 1 .. 4 /\ j \in 1 .. i
    <3> HIDE DEF l, i
    <3> QED
      BY <1>1
  <2>2. p[j] = EncodeGroup(g)[j]
    BY <1>4, <2>1
  <2>3. Find(EncodeGroup(g)[j]) = Four(g)[j]
    BY EncodedGroup
  <2> QED
    BY <2>1, <2>2, <2>3
<1>6. \A j \in 1 .. 4 : x[j] \in Int
  BY FindType
<1> HIDE DEF x
<1>7. \A j \in 1 .. l : o[j] = g[j]
  BY <1>5, FourFacts
<1>8. o \in Text /\ Len(o) = 3
  <2> DEFINE A(u, v) == (u * 4 + ((v \div 16) % 4)) % 256
             B(u, v) == ((u % 16) * 16 + ((v \div 4) % 16)) % 256
             C(u, v) == ((u % 4) * 64 + v) % 256
  <2>1. o = <<A(x[1], x[2]), B(x[2], x[3]), C(x[3], x[4])>>
    BY DEF Octets
  <2>2. x[1] \in Int /\ x[2] \in Int /\ x[3] \in Int /\ x[4] \in Int
    BY <1>6
  <2>3. ASSUME NEW u \in Int, NEW v \in Int PROVE A(u, v) \in Int /\ B(u, v) \in Int /\ C(u, v) \in Int
    <3>1. A(u, v) \in Int
      BY OctetTypes
    <3>2. B(u, v) \in Int
      BY OctetTypes
    <3>3. C(u, v) \in Int
      BY OctetTypes
    <3> QED
      BY <3>1, <3>2, <3>3
  <2> HIDE DEF A, B, C
  <2>4. A(x[1], x[2]) \in Int /\ B(x[2], x[3]) \in Int /\ C(x[3], x[4]) \in Int
    BY <2>2, <2>3
  <2> QED
    BY <2>1, <2>4 DEF Text
<1> HIDE DEF o
<1> DEFINE e == SubSeq(o, 1, l)
<1>9. 1 \in 1 .. Len(o) /\ l \in 1 .. Len(o) /\ l - 1 + 1 = l
  BY <1>1, <1>8
<1>10. e \in Text /\ Len(e) = l /\ \A j \in 1 .. l : e[j] = o[(1 - 1) + j]
  BY <1>8, <1>9, TextBetween
<1>11. \A j \in 1 .. l : (1 - 1) + j = j
  BY <1>1
<1>12. i - 1 = l
  BY <1>1
<1> HIDE DEF e
<1>13. e = g
  BY <1>1, <1>7, <1>10, <1>11, BytesEqual
<1> QED
  BY <1>2, <1>12, <1>13 DEF e

(* A position is in one group of four. *)
FourOf(i) == ((i - 1) \div 4) + 1
PlaceOf(i) == ((i - 1) % 4) + 1

LEMMA PlaceOfFour ==
    ASSUME NEW k \in Nat, k > 0, NEW j \in 1 .. 4, NEW i, i = 4 * (k - 1) + j
    PROVE  FourOf(i) = k /\ PlaceOf(i) = j
BY DEF FourOf, PlaceOf

LEMMA FourOfPlace ==
    ASSUME NEW q \in Nat, NEW i \in 1 .. 4 * q
    PROVE  \E k \in 1 .. q : \E j \in 1 .. 4 : i = 4 * (k - 1) + j
<1> DEFINE k == ((i - 1) \div 4) + 1
           j == ((i - 1) % 4) + 1
<1>1. k \in 1 .. q /\ j \in 1 .. 4 /\ i = 4 * (k - 1) + j
  OBVIOUS
<1> HIDE DEF k, j
<1> QED
  BY <1>1

(* The groups of three of a string of bytes; all but the last are full.    *)
LEMMA Threes ==
    ASSUME NEW s \in Bytes, NEW G, G = Groups(s, 3)
    PROVE  /\ G \in Seq(Text) /\ Len(G) \in Nat /\ Len(G) = (Len(s) + 2) \div 3 /\ FlattenSeq(G) = s
           /\ \A k \in 1 .. Len(G) : G[k] \in Bytes /\ Len(G[k]) \in 1 .. 3
           /\ \A k \in 1 .. Len(G) : k < Len(G) => Len(G[k]) = 3
<1> DEFINE q == Len(G)
           l == Len(s)
<1>1. s \in Text /\ l \in Nat
  BY BytesAreText
<1>2. 3 \in Nat \ {0}
  OBVIOUS
<1>3. G \in Seq(Text) /\ q = (l + 3 - 1) \div 3 /\ \A k \in 1 .. q : IsGroup(G[k], s, 3, k)
  BY <1>1, <1>2, GroupFacts
<1>4. FlattenSeq(G) = s
  BY <1>1, <1>2, FlatGroups
<1>5. /\ \A k \in 1 .. q : PieceEnd(l, 3, k - 1) = (k - 1) * 3
      /\ q \in Nat
  BY <1>1, <1>2, PieceEnds
<1>6. l + 3 - 1 = l + 2
  BY <1>1
<1> HIDE DEF q, l
<1>7. ASSUME NEW k \in 1 .. q PROVE G[k] \in Bytes /\ Len(G[k]) \in 1 .. 3 /\ (k < q => Len(G[k]) = 3)
  <2>1. IsGroup(G[k], s, 3, k) /\ k \in Nat
    BY <1>3, <1>5
  <2>2. G[k] \in Bytes
    BY <1>2, <2>1, GroupDigits
  <2>3. Len(G[k]) \in 1 .. 3 /\ (k - 1) * 3 + Len(G[k]) = PieceEnd(l, 3, k)
    BY <2>1 DEF IsGroup, l
  <2>4. CASE k < q
    <3>1. k + 1 \in 1 .. q /\ (k + 1) - 1 = k
      BY <1>5, <2>4
    <3>2. PieceEnd(l, 3, k) = k * 3
      BY <1>5, <3>1
    <3>3. Len(G[k]) = 3
      <4> DEFINE c == Len(G[k])
      <4>1. c \in 1 .. 3 /\ (k - 1) * 3 + c = k * 3
        BY Zenon, <2>3, <3>2
      <4> HIDE DEF c
      <4>2. c = 3
        BY <1>5, <4>1
      <4> QED
        BY <4>2 DEF c
    <3> QED
      BY <2>2, <2>3, <3>3
  <2> QED
    BY <2>2, <2>3, <2>4
<1> QED
  BY <1>3, <1>4, <1>5, <1>6, <1>7 DEF q, l

(* base64_encode: four characters for each group. *)
LEMMA EncodedWhole ==
    ASSUME NEW s \in Bytes, NEW G, G = Groups(s, 3)
    PROVE  /\ base64_encode(s) \in Text /\ Len(base64_encode(s)) = 4 * Len(G)
           /\ \A k \in 1 .. Len(G) : \A j \in 1 .. 4 :
                 base64_encode(s)[4 * (k - 1) + j] = EncodeGroup(G[k])[j]
<1> DEFINE q == Len(G)
           E == [k \in DOMAIN G |-> EncodeGroup(G[k])]
           u == [i \in 1 .. 4 * q |-> EncodeGroup(G[FourOf(i)])[PlaceOf(i)]]
           o == [k \in 0 .. q |-> 4 * k]
<1>1. G \in Seq(Text) /\ q \in Nat /\ \A k \in 1 .. q : G[k] \in Bytes /\ Len(G[k]) \in 1 .. 3
  BY Threes
<1>2. DOMAIN G = 1 .. q
  BY <1>1
<1> HIDE DEF q
<1>3. \A k \in 1 .. q : EncodeGroup(G[k]) \in Text /\ Len(EncodeGroup(G[k])) = 4
  BY <1>1, EncodedGroup
<1>4. E \in [1 .. q -> Text] /\ \A k \in 1 .. q : E[k] = EncodeGroup(G[k])
  BY <1>2, <1>3
<1> HIDE DEF E
<1>5. E \in Seq(Text) /\ Len(E) = q
  BY <1>1, <1>4, SeqMade
<1>6. \A k \in 1 .. q : \A j \in 1 .. 4 : EncodeGroup(G[k])[j] \in Int
  <2> TAKE k \in 1 .. q
  <2>1. EncodeGroup(G[k]) \in Text /\ Len(EncodeGroup(G[k])) = 4
    BY <1>3
  <2> QED
    BY <2>1 DEF Text
<1>7. u \in [1 .. 4 * q -> Int] /\ 4 * q \in Nat
  <2>1. ASSUME NEW i \in 1 .. 4 * q PROVE u[i] \in Int
    <3>1. PICK k \in 1 .. q : \E j \in 1 .. 4 : i = 4 * (k - 1) + j
      BY <1>1, FourOfPlace
    <3>2. PICK j \in 1 .. 4 : i = 4 * (k - 1) + j
      BY <3>1
    <3>3. k \in Nat /\ k > 0
      BY <1>1
    <3>4. FourOf(i) = k /\ PlaceOf(i) = j
      BY <3>2, <3>3, PlaceOfFour
    <3> QED
      BY <1>6, <3>4
  <2>2. DOMAIN u = 1 .. 4 * q
    OBVIOUS
  <2>3. 4 * q \in Nat
    BY <1>1
  <2>4. u = [i \in 1 .. 4 * q |-> u[i]]
    OBVIOUS
  <2> HIDE DEF u
  <2> QED
    BY <2>1, <2>3, <2>4
<1>8. ASSUME NEW k \in 1 .. q, NEW j \in 1 .. 4 PROVE u[4 * (k - 1) + j] = EncodeGroup(G[k])[j]
  <2> DEFINE i == 4 * (k - 1) + j
  <2>1. i \in 1 .. 4 * q /\ k \in Nat /\ k > 0
    BY <1>1
  <2>2. FourOf(i) = k /\ PlaceOf(i) = j
    BY <2>1, PlaceOfFour
  <2>3. u[i] = EncodeGroup(G[FourOf(i)])[PlaceOf(i)]
    BY <2>1
  <2> QED
    BY <2>2, <2>3
<1> HIDE DEF u
<1>9. u \in Text /\ Len(u) = 4 * q
  BY <1>7, SeqMade DEF Text
<1>10. ArePieces(E, o, u)
  <2>1. o \in [0 .. q -> Nat] /\ o[0] = 0 /\ o[q] = 4 * q
    BY <1>1
  <2>2. ASSUME NEW k \in 1 .. q
        PROVE  o[k] = o[k - 1] + Len(E[k]) /\ \A j \in 1 .. Len(E[k]) : E[k][j] = u[o[k - 1] + j]
    <3>1. o[k] = 4 * k /\ o[k - 1] = 4 * (k - 1) /\ 4 * k = 4 * (k - 1) + 4
      BY <1>1
    <3>2. Len(E[k]) = 4 /\ E[k] = EncodeGroup(G[k])
      BY <1>3, <1>4
    <3> QED
      BY <1>8, <3>1, <3>2
  <2> HIDE DEF o
  <2> QED
    BY <1>5, <1>9, <2>1, <2>2 DEF ArePieces
<1> HIDE DEF o
<1>11. FlattenSeq(E) = u
  BY <1>5, <1>9, <1>10, JoinedPieces
<1>12. base64_encode(s) = u
  BY <1>11 DEF base64_encode, E
<1> QED
  BY <1>8, <1>9, <1>12 DEF q

(* What base64_decode reads of what was encoded: all up to the signs at    *)
(* the end.                                                                *)
Kept(G) == IF Len(G) = 0 THEN 0 ELSE 4 * (Len(G) - 1) + Len(G[Len(G)]) + 1
Read(t) ==
    LET stop == {i \in DOMAIN t : t[i] = Equals \/ ~is_base64(t[i])}
    IN IF stop = {} THEN t ELSE SubSeq(t, 1, Min(stop) - 1)

LEMMA KeptIs ==
    ASSUME NEW s \in Bytes, NEW G, G = Groups(s, 3)
    PROVE  /\ Len(G) = 0 => Kept(G) = 0
           /\ Len(G) > 0 => Kept(G) = 4 * (Len(G) - 1) + Len(G[Len(G)]) + 1 /\ Len(G[Len(G)]) \in 1 .. 3
<1> DEFINE q == Len(G)
           c == Len(G[q])
<1>1. q \in Nat /\ \A k \in 1 .. q : Len(G[k]) \in 1 .. 3
  BY Threes
<1>2. Kept(G) = IF q = 0 THEN 0 ELSE 4 * (q - 1) + c + 1
  BY Zenon DEF Kept
<1> HIDE DEF q
<1>3. q > 0 => q # 0 /\ q \in 1 .. q
  BY <1>1
<1>4. q > 0 => c \in 1 .. 3
  BY <1>1, <1>3
<1> HIDE DEF c
<1>5. (q = 0 => Kept(G) = 0) /\ (q > 0 => Kept(G) = 4 * (q - 1) + c + 1 /\ c \in 1 .. 3)
  BY <1>2, <1>3, <1>4
<1> QED
  BY Zenon, <1>5 DEF q, c

LEMMA EncodedEnd ==
    ASSUME NEW s \in Bytes, NEW G, G = Groups(s, 3)
    PROVE  /\ Kept(G) \in 0 .. 4 * Len(G)
           /\ \A i \in 1 .. Kept(G) : is_base64(base64_encode(s)[i]) /\ base64_encode(s)[i] # Equals
           /\ \A i \in Kept(G) + 1 .. 4 * Len(G) : base64_encode(s)[i] = Equals
<1> DEFINE q == Len(G)
           t == base64_encode(s)
           c == Len(G[q])
           r == Kept(G)
<1>1. /\ q \in Nat
      /\ \A k \in 1 .. q : G[k] \in Bytes /\ Len(G[k]) \in 1 .. 3
      /\ \A k \in 1 .. q : k < q => Len(G[k]) = 3
  BY Threes
<1>2. /\ Len(t) = 4 * q
      /\ \A k \in 1 .. q : \A j \in 1 .. 4 : t[4 * (k - 1) + j] = EncodeGroup(G[k])[j]
  BY EncodedWhole
<1>3. \A k \in 1 .. q :
         /\ \A j \in 1 .. Len(G[k]) + 1 : is_base64(EncodeGroup(G[k])[j]) /\ EncodeGroup(G[k])[j] # Equals
         /\ \A j \in Len(G[k]) + 2 .. 4 : EncodeGroup(G[k])[j] = Equals
  BY <1>1, EncodedGroup
<1>4. (q = 0 => r = 0) /\ (q > 0 => r = 4 * (q - 1) + c + 1 /\ c \in 1 .. 3)
  BY KeptIs
<1> HIDE DEF q, t, c, r
<1>5. r \in 0 .. 4 * q
  BY <1>1, <1>4
<1>6. ASSUME NEW i \in 1 .. r PROVE is_base64(t[i]) /\ t[i] # Equals
  <2>1. i \in 1 .. 4 * q
    BY <1>1, <1>5
  <2>2. PICK k \in 1 .. q : \E j \in 1 .. 4 : i = 4 * (k - 1) + j
    BY <1>1, <2>1, FourOfPlace
  <2>3. PICK j \in 1 .. 4 : i = 4 * (k - 1) + j
    BY <2>2
  <2>4. t[i] = EncodeGroup(G[k])[j]
    BY <1>2, <2>3
  <2>5. j \in 1 .. Len(G[k]) + 1
    <3>1. CASE k < q
      <4>1. Len(G[k]) = 3
        BY <1>1, <3>1
      <4>2. j \in 1 .. 3 + 1
        OBVIOUS
      <4> QED
        BY Zenon, <4>1, <4>2
    <3>2. CASE k = q
      <4>1. j <= c + 1 /\ c \in Int
        BY <1>1, <1>4, <2>3, <3>2
      <4>2. j \in 1 .. c + 1
        BY <4>1
      <4> QED
        BY <3>2, <4>2 DEF c
    <3> QED
      BY <1>1, <3>1, <3>2
  <2> QED
    BY <1>3, <2>4, <2>5
<1>7. ASSUME NEW i \in r + 1 .. 4 * q PROVE t[i] = Equals
  <2>1. i \in 1 .. 4 * q
    BY <1>1, <1>5
  <2>2. PICK k \in 1 .. q : \E j \in 1 .. 4 : i = 4 * (k - 1) + j
    BY <1>1, <2>1, FourOfPlace
  <2>3. PICK j \in 1 .. 4 : i = 4 * (k - 1) + j
    BY <2>2
  <2>4. t[i] = EncodeGroup(G[k])[j]
    BY <1>2, <2>3
  <2>5. k = q /\ j \in c + 2 .. 4
    BY <1>1, <1>4, <2>3
  <2>6. j \in Len(G[k]) + 2 .. 4
    BY <2>5 DEF c
  <2> QED
    BY <1>3, <2>4, <2>6
<1> QED
  BY <1>5, <1>6, <1>7 DEF q, t, r

LEMMA ReadAll ==
    ASSUME NEW s \in Bytes, NEW G, G = Groups(s, 3)
    PROVE  /\ Read(base64_encode(s)) \in Text /\ Len(Read(base64_encode(s))) = Kept(G)
           /\ \A i \in 1 .. Kept(G) : Read(base64_encode(s))[i] = base64_encode(s)[i]
<1> DEFINE t == base64_encode(s)
           r == Kept(G)
           l == Len(t)
           stop == {i \in DOMAIN t : t[i] = Equals \/ ~is_base64(t[i])}
<1>1. /\ r \in 0 .. l
      /\ \A i \in 1 .. r : is_base64(t[i]) /\ t[i] # Equals
      /\ \A i \in r + 1 .. l : t[i] = Equals
      /\ t \in Text
  <2>1. t \in Text /\ l = 4 * Len(G)
    BY EncodedWhole
  <2> HIDE DEF t, r, l
  <2> QED
    BY <2>1, EncodedEnd DEF t, r
<1>2. l \in Nat /\ DOMAIN t = 1 .. l
  BY <1>1 DEF Text
<1>3. Read(t) = IF stop = {} THEN t ELSE SubSeq(t, 1, Min(stop) - 1)
  BY DEF Read
<1> HIDE DEF t, r, l
<1>4. r \in Nat /\ \A i \in 1 .. l : i \in 1 .. r \/ i \in r + 1 .. l
  BY <1>1, <1>2
<1>5. stop = r + 1 .. l
  BY <1>1, <1>2, <1>4
<1> HIDE DEF stop
<1>6. CASE r = l
  <2>1. stop = {}
    BY <1>2, <1>5, <1>6
  <2>2. Read(t) = t
    BY <1>3, <2>1
  <2> QED
    BY <1>1, <1>6, <2>2 DEF t, r, l
<1>7. CASE r < l
  <2>1. r + 1 \in stop /\ stop \subseteq Int /\ \A y \in stop : r + 1 <= y
    BY <1>2, <1>4, <1>5, <1>7
  <2>2. Min(stop) = r + 1
    BY <2>1, LeastIs
  <2>3. Read(t) = SubSeq(t, 1, r)
    BY <1>3, <1>4, <2>1, <2>2
  <2>4. CASE r = 0
    <3>1. SubSeq(t, 1, 0) = <<>>
      BY <1>1 DEF Text
    <3>2. Read(t) \in Text /\ Len(Read(t)) = 0 /\ 1 .. 0 = {}
      BY <2>3, <2>4, <3>1 DEF Text
    <3> QED
      BY <2>4, <3>2 DEF t, r
  <2>5. CASE r > 0
    <3> DEFINE e == SubSeq(t, 1, r)
    <3>1. 1 \in 1 .. Len(t) /\ r \in 1 .. Len(t)
      BY <1>2, <1>4, <1>7, <2>5 DEF l
    <3>2. e \in Text /\ Len(e) = r - 1 + 1 /\ \A j \in 1 .. r - 1 + 1 : e[j] = t[(1 - 1) + j]
      BY <1>1, <3>1, TextBetween
    <3>3. r - 1 + 1 = r /\ \A j \in 1 .. r : (1 - 1) + j = j
      BY <1>4
    <3> HIDE DEF e
    <3>4. e \in Text /\ Len(e) = r /\ \A j \in 1 .. r : e[j] = t[j]
      BY <3>2, <3>3
    <3> QED
      BY <2>3, <3>4 DEF e, t, r
  <2> QED
    BY <1>4, <2>4, <2>5
<1> QED
  BY <1>1, <1>2, <1>6, <1>7

(* base64_decode turns back what base64_encode did. *)
LEMMA Base64Back ==
    ASSUME NEW s \in Bytes
    PROVE  /\ base64_decode(base64_encode(s)) = s
           /\ Len(base64_encode(s)) = 4 * ((Len(s) + 2) \div 3)
<1> DEFINE G == Groups(s, 3)
           q == Len(G)
           t == base64_encode(s)
           read == Read(t)
           r == Kept(G)
           c == Len(G[q])
           H == Groups(read, 4)
<1>1. /\ G \in Seq(Text) /\ q \in Nat /\ q = (Len(s) + 2) \div 3 /\ FlattenSeq(G) = s
      /\ \A k \in 1 .. q : G[k] \in Bytes /\ Len(G[k]) \in 1 .. 3
      /\ \A k \in 1 .. q : k < q => Len(G[k]) = 3
  BY Threes
<1>2. /\ Len(t) = 4 * q
      /\ \A k \in 1 .. q : \A j \in 1 .. 4 : t[4 * (k - 1) + j] = EncodeGroup(G[k])[j]
  BY EncodedWhole
<1>3. read \in Text /\ Len(read) = r /\ \A i \in 1 .. r : read[i] = t[i]
  BY ReadAll
<1>4. (q = 0 => r = 0) /\ (q > 0 => r = 4 * (q - 1) + c + 1 /\ c \in 1 .. 3)
  <2>1. G = Groups(s, 3)
    OBVIOUS
  <2> HIDE DEF G
  <2> QED
    BY <2>1, KeptIs
<1>5. 4 \in Nat \ {0}
  OBVIOUS
<1>6. Len(H) = (r + 4 - 1) \div 4 /\ \A k \in 1 .. Len(H) : IsGroup(H[k], read, 4, k)
  BY <1>3, <1>5, GroupFacts
<1>7. H \in Seq(Text)
  BY <1>3, <1>5, GroupFacts
<1>8. base64_decode(t) = FlattenSeq([k \in DOMAIN H |-> DecodeGroup(H[k])])
  BY DEF base64_decode, Read
<1>9. DOMAIN G = 1 .. q /\ DOMAIN H = 1 .. Len(H) /\ G = [k \in 1 .. q |-> G[k]]
  BY <1>1, <1>7
<1> HIDE DEF G, q, t, read, r, c, H
<1>10. r \in Nat /\ r <= q * 4 /\ (q = 0 \/ (q - 1) * 4 < r)
  BY <1>1, <1>4
<1>11. Len(H) = q
  BY <1>1, <1>5, <1>6, <1>10, CountIs
<1>12. ASSUME NEW k \in 1 .. q PROVE DecodeGroup(H[k]) = G[k]
  <2>1. /\ H[k] \in Text /\ Len(H[k]) \in 1 .. 4
        /\ (k - 1) * 4 + Len(H[k]) = PieceEnd(r, 4, k) /\ PieceEnd(r, 4, k) \in 1 .. r
        /\ \A j \in 1 .. Len(H[k]) : H[k][j] = read[(k - 1) * 4 + j]
    <3>1. IsGroup(H[k], read, 4, k)
      BY <1>6, <1>11
    <3> QED
      BY <1>3, <3>1 DEF IsGroup
  <2> DEFINE h == Len(H[k])
             g == Len(G[k])
  <2>2. h \in 1 .. 4 /\ g \in 1 .. 3 /\ (k < q => g = 3) /\ (k = q => g = c)
    BY <1>1, <2>1 DEF c
  <2>3. (k - 1) * 4 + h = IF k * 4 <= r THEN k * 4 ELSE r
    BY Zenon, <2>1 DEF PieceEnd
  <2> HIDE DEF h, g
  <2>4. h = g + 1
    BY <1>1, <1>4, <1>10, <2>2, <2>3
  <2>5. ASSUME NEW j \in 1 .. h PROVE H[k][j] = EncodeGroup(G[k])[j]
    <3>1. j \in 1 .. 4 /\ (k - 1) * 4 + j = 4 * (k - 1) + j /\ (k - 1) * 4 + j \in 1 .. (k - 1) * 4 + h
      BY <1>1, <2>2
    <3>2. (k - 1) * 4 + h \in 1 .. r
      BY Zenon, <2>1 DEF h
    <3>3. (k - 1) * 4 + j \in 1 .. r
      BY <1>1, <1>10, <2>2, <3>1, <3>2
    <3>4. H[k][j] = read[(k - 1) * 4 + j]
      BY <2>1 DEF h
    <3> QED
      BY <1>2, <1>3, <3>1, <3>3, <3>4
  <2> QED
    BY <1>1, <2>1, <2>4, <2>5, DecodedGroup DEF h, g
<1>13. [k \in DOMAIN H |-> DecodeGroup(H[k])] = G
  BY <1>9, <1>11, <1>12
<1>14. base64_decode(t) = s
  BY <1>1, <1>8, <1>13
<1>15. Len(t) = 4 * ((Len(s) + 2) \div 3)
  BY <1>1, <1>2
<1> QED
  BY <1>14, <1>15 DEF t

-----------------------------------------------------------------------------
(* Every text that is typed is a string of bytes. *)
LEMMA TextIsBytes == Spec => [](text \in Bytes)
<1>1. Init => text \in Bytes
  BY DEF Init, Bytes
<1>2. text \in Bytes /\ [Next]_vars => (text \in Bytes)'
  <2> SUFFICES ASSUME text \in Bytes, [Next]_vars PROVE text' \in Bytes
    OBVIOUS
  <2>1. CASE Count
    BY <2>1 DEF Count
  <2>2. ASSUME NEW ch \in Chars, Type(ch) PROVE text' \in Bytes
    <3>1. ch \in Byte
      BY ToolsAssumption
    <3>2. text' = Append(text, ch)
      BY <2>2 DEF Type
    <3> QED
      BY <3>1, <3>2 DEF Bytes
  <2>3. CASE UNCHANGED vars
    BY <2>3 DEF vars
  <2> QED
    BY <2>1, <2>2, <2>3 DEF Next
<1> QED
  BY <1>1, <1>2, PTL DEF Spec

LEMMA BytesInvert == ASSUME text \in Bytes PROVE CodesInvert
<1> DEFINE capture == FlattenSeq([k \in DOMAIN text |-> bin2hex(<<text[k]>>) \o <<Colon>>])
           dump == FlattenSeq([k \in DOMAIN hexdumpbuf(text) |-> hexdumpbuf(text)[k].hex])
           column == FlattenSeq([k \in DOMAIN hexdumpbuf(text) |-> hexdumpbuf(text)[k].text])
<1>1. FileToBin(FileToHex(text)) = text
  BY FileReadBack
<1>2. hex2bin(bin2hex(text)) = text
  BY HexReadBack
<1>3. text # <<>> => hex2integral(integral2hex(text), Len(text)) = text
  BY IntegralBack
<1>4. /\ base64_decode(base64_encode(text)) = text
      /\ Len(base64_encode(text)) = 4 * ((Len(text) + 2) \div 3)
  BY Base64Back
<1>5. hex2bin(wipeoff_colon(capture)) = text
  <2>1. capture = Captured(text)
    BY CaptureWritten
  <2> HIDE DEF capture
  <2> QED
    BY <2>1, CaptureReadBack
<1>6. hex2bin(Without(32, dump)) = text /\ Len(column) = Len(text)
  <2>1. dump = Column(text) /\ Len(column) = Len(text)
    BY DumpWritten
  <2> HIDE DEF dump, column
  <2> QED
    BY <2>1, DumpReadBack
<1>7. \A orthocode \in {1, 254} : ortho_decode(orthocode, ortho_encode(orthocode, text)) = text
  <2>1. \A c \in {1, 254} : c \in Byte
    BY DEF Byte
  <2> QED
    BY <2>1, OrthoBack
<1> HIDE DEF capture, dump, column
<1> QED
  BY <1>1, <1>2, <1>3, <1>4, <1>5, <1>6, <1>7, Zenon DEF CodesInvert, capture, dump, column

(* For every string of bytes, every block size and every width of a dump:  *)
(* what hex_bin_conv.cpp wrote of a file is read back, in blocks, with the *)
(* buffers the loop carries; so is an integer of hex_integral_convert.cpp  *)
(* without its high bytes, a capture through wipeoff_colon.cpp, a dump of  *)
(* hex_dump.c and a text of orthocode.cpp, and base64 decodes what it      *)
(* encoded, of a length that is the one announced.                         *)
THEOREM CodesAlwaysInvert == Spec => []CodesInvert
BY TextIsBytes, BytesInvert, PTL
=============================================================================
