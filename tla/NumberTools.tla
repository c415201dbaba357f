----------------------------- MODULE NumberTools -----------------------------
(***************************************************************************)
(* The number tools of src/工具/ and src/时间/.  Machine integers have     *)
(* Bits bits; an array of bytes is a sequence, highest byte first.         *)
(***************************************************************************)
EXTENDS Integers, Sequences, SequencesExt, FiniteSetsExt

CONSTANTS
    Bits,       \* the width of an unsigned
    CharBits,   \* the width of a byte, for the number of bytes of an integer
    MICROS      \* the microseconds of a second in time_delta.c

ASSUME NumberAssumption == Bits \in Nat \ {0} /\ CharBits \in Nat \ {0}

Width == 2 ^ Bits
Unsigned(n) == n % Width
Signed(n) == IF Unsigned(n) < Width \div 2 THEN Unsigned(n) ELSE Unsigned(n) - Width

-----------------------------------------------------------------------------
(* nonce_ctr.c: the bytes lowidx..upidx are a counter.  -1 says that the   *)
(* counter wrapped.                                                        *)
nonce[a \in Seq(0 .. 255), lowidx \in Nat, upidx \in Nat] ==
    IF lowidx > upidx THEN [ret |-> -1, a |-> a]
    ELSE IF a[upidx] # 255 THEN [ret |-> 0, a |-> [a EXCEPT ![upidx] = @ + 1]]
    ELSE nonce[[a EXCEPT ![upidx] = 0], lowidx, upidx - 1]

-----------------------------------------------------------------------------
(* gcd.c: the smaller number, doubled as often as it goes, is subtracted.  *)
Doubled(a, b) ==
    LET double[c \in 0 .. Width - 1] == IF Unsigned(a - c) >= c THEN double[Unsigned(2 * c)] ELSE c
    IN double[b]

gcd[a, b \in 0 .. Width - 1] ==
    IF a = 0 \/ b = 0 THEN Unsigned(a + b)
    ELSE IF a > b THEN gcd[Unsigned(a - Doubled(a, b)), b]
    ELSE gcd[a, Unsigned(b - Doubled(b, a))]

-----------------------------------------------------------------------------
(* Mutant: s is replaced before t is computed from it. *)
BackReplaced(r, q) == [d |-> r.d, s |-> r.t, t |-> Signed(r.t - r.t * q)]

(* euclid.c: d, and s and t with b * s + m * t = d, in signed integers.    *)
Back(r, q) == [d |-> r.d, s |-> r.t, t |-> Signed(r.s - r.t * q)]

euclid[b, m \in 1 .. Width - 1] ==
    IF b % m = 0 THEN [d |-> m, s |-> 0, t |-> 1] ELSE Back(euclid[m, b % m], b \div m)

-----------------------------------------------------------------------------
(* dec2bin_offset.c: the stack holds the digits, the highest on top.  C    *)
(* divides towards zero, so the remainder of a negative number is never 1. *)
dec2bin[dec \in Int] ==
    IF dec = 0 THEN <<>>
    ELSE IF dec > 0 THEN Append(dec2bin[dec \div 2], dec % 2)
    ELSE Append(dec2bin[-((-dec) \div 2)], 0)

Shift(num, orient, offset) ==
    IF orient = 0 THEN Signed(num * 2 ^ offset) ELSE num \div 2 ^ offset

(* dec2chars_len.c: the mask finds the highest bit that is set.            *)
bits(nt) == LET set == {k \in 1 .. Bits : (nt \div 2 ^ (k - 1)) % 2 = 1} IN Max(set \cup {0})
byts(nt) == (bits(nt) \div CharBits) + (IF bits(nt) % CharBits # 0 THEN 1 ELSE 0)

-----------------------------------------------------------------------------
(* first_zero.c: (p | -p) >> 7, in bytes, is 1 unless p is 0.              *)
Mark(p) == IF p >= 128 \/ (256 - p) % 256 >= 128 THEN 1 ELSE 0

first_zero(p) ==
    FoldLeft(LAMBDA s, x : LET found == IF s.found = 1 \/ Mark(x) = 0 THEN 1 ELSE 0 IN
                           [found |-> found, first |-> s.first + (1 - found)],
             [found |-> 0, first |-> 0], p).first

-----------------------------------------------------------------------------
(* time_delta.c: the microseconds of a time of day are computed as an int, *)
(* which wraps in the builds at hand, and only then become a long.         *)
Micros(second, microsec) == Signed(Signed(second * MICROS) + microsec)
time_delta(t1, t2) == Micros(t2.second, t2.microsec) - Micros(t1.second, t1.microsec)
=============================================================================
