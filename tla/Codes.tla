-------------------------------- MODULE Codes --------------------------------
(***************************************************************************)
(* The codes of src/转换/ and src/编解码/: hexadecimal, for strings, for  *)
(* integers and for files block by block, and base64.  A character is its  *)
(* ASCII code, a string is a sequence of bytes.                            *)
(***************************************************************************)
EXTENDS Integers, Sequences, SequencesExt, FiniteSetsExt

CONSTANTS
    RBUFSIZE,       \* hex_bin_conv.cpp reads files in blocks of this size
    DumpSize        \* N in hex_dump.c: the bytes on a line

ASSUME CodesAssumption == RBUFSIZE \in Nat \ {0} /\ RBUFSIZE % 2 = 0 /\ DumpSize \in Nat \ {0}

WBUFSIZE == 2 * RBUFSIZE

Byte == 0 .. 255
Zeros(n) == [i \in 1 .. n |-> 0]

(* The bits of a byte; p is a power of two. *)
Bit(v, p) == (v \div p) % 2
OfBits(Set(_)) ==
    LET At(p) == IF Set(p) THEN p ELSE 0
    IN At(128) + At(64) + At(32) + At(16) + At(8) + At(4) + At(2) + At(1)
Or(a, b) == OfBits(LAMBDA p : Bit(a, p) = 1 \/ Bit(b, p) = 1)
Xor(a, b) == OfBits(LAMBDA p : Bit(a, p) # Bit(b, p))

(* The groups of n of a string; the last one may be shorter. *)
Groups(s, n) == [k \in 1 .. (Len(s) + n - 1) \div n |-> SubSeq(s, (k - 1) * n + 1, Min({k * n, Len(s)}))]

(* The string without a character. *)
Without(ch, s) ==
    LET kept[k \in 0 .. Len(s)] ==
            IF k = 0 THEN <<>> ELSE IF s[k] = ch THEN kept[k - 1] ELSE Append(kept[k - 1], s[k])
    IN kept[Len(s)]

-----------------------------------------------------------------------------
(* Hexadecimal.  Digits are written in upper case and read in either.      *)
Digit(v) == IF v < 10 THEN v + 48 ELSE v + 55
HexChars == 48 .. 57 \cup 65 .. 70 \cup 97 .. 102
Value(ch) == IF ch <= 57 THEN ch - 48 ELSE IF ch <= 70 THEN ch - 55 ELSE ch - 87

bin2hex(in) ==
    [i \in 1 .. 2 * Len(in) |->
        IF i % 2 = 1 THEN Digit(in[(i + 1) \div 2] \div 16) ELSE Digit(in[i \div 2] % 16)]

(* The characters before the first that is not a digit. *)
Digits(in) == LET bad == {i \in DOMAIN in : in[i] \notin HexChars} IN
              IF bad = {} THEN in ELSE SubSeq(in, 1, Min(bad) - 1)

(* A digit is or-ed into its half of a byte of obuf. *)
OrDigits(in, obuf) ==
    LET Half(i, shift) == IF i \in DOMAIN in THEN shift * Value(in[i]) ELSE 0 IN
    [k \in DOMAIN obuf |-> Or(obuf[k], Half(2 * k - 1, 16) + Half(2 * k, 1))]

(* A bad digit is thrown at, in hex_bin_convert.cpp.  A single digit at    *)
(* the end goes to the terminator, behind the bytes that count.            *)
Thrown == <<-1>>
hex2bin(in) == IF Digits(in) # in THEN Thrown ELSE OrDigits(in, Zeros(Len(in) \div 2))

-----------------------------------------------------------------------------
(* Integers: an integer is given by its bytes in memory, lowest first.     *)
integral2hex(t) ==
    LET used == {i \in DOMAIN t : t[i] # 0} IN
    IF used = {} THEN <<48, 48>> ELSE bin2hex(Reverse(SubSeq(t, 1, Max(used))))

(* Mutant: the bytes are not turned round. *)
BigEndian(hex, size) == LET bin == hex2bin(hex) IN bin \o Zeros(size - Len(bin))

(* Of no more digits than the integer has.  hex_integral_convert.cpp has a *)
(* hex2bin of its own: a bad digit makes the whole string an empty one.    *)
hex2integral(hex, size) ==
    LET bin == IF Digits(hex) = hex THEN Reverse(hex2bin(hex)) ELSE <<>>
    IN bin \o Zeros(size - Len(bin))

-----------------------------------------------------------------------------
(* Files.  The loop of hex_bin_conv.cpp carries two buffers, of which wbuf *)
(* must be zero before hex2bin.  The results of both functions are         *)
(* ignored: when a block has a bad digit, nw is still WBUFSIZE.            *)
Blocks(in) == Groups(in, RBUFSIZE)

(* Mutant: the buffer is not cleared. *)
NotWiped(wbuf) == wbuf

Wiped(wbuf) == Zeros(WBUFSIZE)

BlockToBin(f, block) ==
    LET wbuf == OrDigits(Digits(block), f.wbuf)
        nw == IF Digits(block) = block THEN Len(block) \div 2 ELSE WBUFSIZE
    IN [out |-> f.out \o SubSeq(wbuf, 1, nw), wbuf |-> Wiped(wbuf)]

BlockToHex(f, block) ==
    LET hex == bin2hex(block)
        wbuf == hex \o SubSeq(f.wbuf, Len(hex) + 1, WBUFSIZE)
    IN [out |-> f.out \o hex, wbuf |-> Wiped(wbuf)]

Converted(Block(_, _), in) ==
    LET after[k \in 0 .. Len(Blocks(in))] ==
            IF k = 0 THEN [out |-> <<>>, wbuf |-> Zeros(WBUFSIZE)] ELSE Block(after[k - 1], Blocks(in)[k])
    IN after[Len(Blocks(in))].out

FileToBin(in) == Converted(BlockToBin, in)
FileToHex(in) == Converted(BlockToHex, in)

-----------------------------------------------------------------------------
(* The first word of a file without its colons (wipeoff_colon.cpp).        *)
Colon == 58
wipeoff_colon(in) ==
    LET ink == {i \in DOMAIN in : in[i] # 32}
        word == SubSeq(in, Min(ink), Min({i \in Min(ink) .. Len(in) : in[i] = 32} \cup {Len(in) + 1}) - 1)
    IN IF ink = {} THEN <<>> ELSE Without(Colon, word)

(* hex_dump.c: lines of a column of digits, in lower case, and one of text. *)
Lower(ch) == IF ch > 57 THEN ch + 32 ELSE ch
Shown(ch) == IF ch < 32 \/ ch > 126 THEN 46 ELSE ch

Line(part) ==
    [hex  |-> [i \in 1 .. 2 * DumpSize |-> IF i > 2 * Len(part) THEN 32 ELSE Lower(bin2hex(part)[i])],
     text |-> [j \in DOMAIN part |-> Shown(part[j])]]
hexdumpbuf(buf) == [k \in DOMAIN Groups(buf, DumpSize) |-> Line(Groups(buf, DumpSize)[k])]

(* orthocode.cpp: each byte is xor-ed with one number, and back.           *)
ortho_encode(orthocode, body) == [i \in DOMAIN body |-> Xor(body[i], orthocode)]
ortho_decode(orthocode, body) == [i \in DOMAIN body |-> Xor(body[i], orthocode)]

-----------------------------------------------------------------------------
(* Base64, three bytes to four characters.                                 *)
base64_chars == [i \in 1 .. 64 |-> IF i <= 26 THEN 64 + i ELSE IF i <= 52 THEN 70 + i
                                   ELSE IF i <= 62 THEN i - 5 ELSE IF i = 63 THEN 43 ELSE 47]
is_base64(c) == c \in ToSet(base64_chars)
Equals == 61

(* `find' of a character that is not there is npos, kept in a byte.        *)
Find(c) == IF is_base64(c) THEN (CHOOSE i \in 1 .. 64 : base64_chars[i] = c) - 1 ELSE 255

Sextets(a) == <<a[1] \div 4, (a[1] % 4) * 16 + (a[2] \div 16), (a[2] % 16) * 4 + (a[3] \div 64), a[3] % 64>>
Octets(c) == <<(c[1] * 4 + ((c[2] \div 16) % 4)) % 256,
               ((c[2] % 16) * 16 + ((c[3] \div 4) % 16)) % 256,
               ((c[3] % 4) * 64 + c[4]) % 256>>

EncodeGroup(g) ==
    LET i == Len(g)
        four == Sextets(g \o Zeros(3 - i))
    IN [j \in 1 .. 4 |-> IF j <= i + 1 THEN base64_chars[four[j] + 1] ELSE Equals]
base64_encode(s) == FlattenSeq([k \in DOMAIN Groups(s, 3) |-> EncodeGroup(Groups(s, 3)[k])])

DecodeGroup(g) ==
    LET i == Len(g) IN SubSeq(Octets([j \in 1 .. 4 |-> Find((g \o Zeros(4 - i))[j])]), 1, i - 1)
base64_decode(s) ==
    LET stop == {i \in DOMAIN s : s[i] = Equals \/ ~is_base64(s[i])}
        read == IF stop = {} THEN s ELSE SubSeq(s, 1, Min(stop) - 1)
    IN FlattenSeq([k \in DOMAIN Groups(read, 4) |-> DecodeGroup(Groups(read, 4)[k])])
=============================================================================
