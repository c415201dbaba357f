-------------------------------- MODULE Tools --------------------------------
(***************************************************************************)
(* The pure functions of coderef, run on every text up to MaxLen           *)
(* characters and every pair of numbers: a state is an input, and a step   *)
(* types one more character or counts one further.                         *)
(***************************************************************************)
EXTENDS Codes, TextTools, NumberTools

CONSTANTS
    Chars,      \* the characters texts are made of
    MaxLen      \* bound: the length of a text

ASSUME ToolsAssumption == Chars \subseteq Byte

VARIABLES text, m, n

vars == <<text, m, n>>

Init == text = <<>> /\ m = 0 /\ n = 0

Type(ch) ==
    /\ m = 0 /\ n = 0
    /\ Len(text) < MaxLen
    /\ text' = Append(text, ch)
    /\ UNCHANGED <<m, n>>

Count ==
    /\ text = <<>>
    /\ \/ m < Width - 1 /\ m' = m + 1 /\ UNCHANGED n
       \/ n < Width - 1 /\ n' = n + 1 /\ UNCHANGED m
    /\ UNCHANGED text

Next == Count \/ \E ch \in Chars : Type(ch)

Spec == Init /\ [][Next]_vars

-----------------------------------------------------------------------------
(* What was written in hexadecimal is read back: a file in blocks,         *)
(* whatever its length and whatever the buffers held, a string, and an     *)
(* integer whose high bytes were left out; and what was encoded in base64  *)
(* is decoded, for each of the three ways the last group can be filled.    *)
(* Digits are read back from a capture with a colon between two bytes and  *)
(* from a dump in columns, and what was xor-ed is xor-ed back.             *)
CodesInvert ==
    LET capture == FlattenSeq([k \in DOMAIN text |-> bin2hex(<<text[k]>>) \o <<Colon>>])
        dump == FlattenSeq([k \in DOMAIN hexdumpbuf(text) |-> hexdumpbuf(text)[k].hex])
        column == FlattenSeq([k \in DOMAIN hexdumpbuf(text) |-> hexdumpbuf(text)[k].text]) IN
    /\ FileToBin(FileToHex(text)) = text
    /\ hex2bin(bin2hex(text)) = text
    /\ text # <<>> => hex2integral(integral2hex(text), Len(text)) = text
    /\ base64_decode(base64_encode(text)) = text
    /\ Len(base64_encode(text)) = 4 * ((Len(text) + 2) \div 3)
    /\ hex2bin(wipeoff_colon(capture)) = text
    /\ hex2bin(Without(32, dump)) = text /\ Len(column) = Len(text)
    /\ \A orthocode \in {1, 254} : ortho_decode(orthocode, ortho_encode(orthocode, text)) = text

Rejoined(segments, sep) ==
    IF segments = <<>> THEN <<>>
    ELSE Head(segments) \o FlattenSeq([k \in 1 .. Len(segments) - 1 |-> <<sep>> \o segments[k + 1]])

(* The value of the first segment that a separator ends and that has key. *)
FirstValue(segments, key) ==
    LET has_key == {k \in 1 .. Len(segments) - 1 : IsPrefix(Append(key, EqualsSign), segments[k])}
    IN SubSeq(segments[Min(has_key)], Len(key) + 2, Len(segments[Min(has_key)]))

(* A header that ends as the footer begins, as PEM's do. *)
Header == <<EqualsSign, 65>>
Footer == <<65, EqualsSign>>

(* Reading pairs of slashes as one. *)
Unslashed(s, slash) ==
    FoldLeft(LAMBDA u, ch : IF ch = slash /\ ~u.open THEN [u EXCEPT !.open = TRUE]
                            ELSE [text |-> Append(u.text, ch), open |-> FALSE],
             [text |-> <<>>, open |-> FALSE], s).text

(* Cutting loses nothing: the segments, put together again, are the text,  *)
(* and the tokens of the C version, which has room for few of them and     *)
(* writes into the text, are a beginning of it: all of it but a delimiter  *)
(* at the end, while there is room.  A map made of the text gives each key *)
(* its first value, and the two ways to strip white space agree.  Fields   *)
(* that are shorter than a row are the rows of the matrix, as far as it    *)
(* has rows; and it is left exactly when a field has a character for which *)
(* there is no place, as the last two of the program's twelve fields have  *)
(* (to_array.cpp:4,16).  A certificate without its header and footer is    *)
(* what stood between them, unless they share a character: then, and only  *)
(* then, the loop runs past the string (rm_header_footer.cpp:31-45);       *)
(* without a footer, or with one before the header, nothing is left.       *)
(* Doubled slashes can be read back.                                       *)
CutsLoseNothing ==
    LET seen == CString(text, 1)
        fields == Cut(seen, Space)
        sentence == to_array(text, Space)
        short == \A k \in DOMAIN fields : Len(fields[k]) < COLUMNS
        Homeless(k) == fields[k] # <<>> /\ COLUMNS * (k - 1) + Len(fields[k]) > ROWS * COLUMNS
        cert == Header \o text \o Footer
        rest == CString(text \o Footer, 1)
        shared == Header \o Tail(Footer) \o text
        tokens == split_c(text, Space)
        map == split_to_map(text, Space, EqualsSign)
    IN /\ Rejoined(split(text, Space), Space) = text
       /\ IsPrefix(Rejoined(tokens, Space), seen)
       /\ Len(tokens) < MaxTokens => Len(Rejoined(tokens, Space)) >= Len(seen) - 1
       /\ \A key \in DOMAIN map : key # <<>> /\ map[key] = FirstValue(Cut(text, Space), key)
       /\ trim(text) = strip(text)
       /\ short => \A k \in DOMAIN fields : k <= ROWS => sentence.rows[k] = fields[k]
       /\ sentence.places = 1 .. ROWS * COLUMNS <=> ~\E k \in DOMAIN fields : Homeless(k)
       /\ remove_hf(shared, Header, Footer) = Overrun
       /\ remove_hf(cert, Header, Footer) =
              IF IsPrefix(Tail(Footer), rest) THEN Overrun
              ELSE IF strstr(rest, Footer) = {} THEN <<>>
              ELSE SelectSeq(SubSeq(rest, 1, Min(strstr(rest, Footer)) - 1), LAMBDA ch : ~isspace(ch))
       /\ remove_hf(Footer \o cert, Header, Footer) = <<>>
       /\ Unslashed(backslash(text, EqualsSign), EqualsSign) = text

(* key, key= or key=value, where an equals sign may be the whole value. *)
Given(arg, key) == SubSeq(arg, Len(key) + 2, Len(arg))
Mentions(arg, key) ==
    \/ arg = key
    \/ /\ IsPrefix(Append(key, EqualsSign), arg)
       /\ EqualsSign \in ToSet(Given(arg, key)) => Given(arg, key) = <<EqualsSign>>

(* Of all the arguments that mention an option the last one counts, it is  *)
(* a flag if it gives no value, and an option that one argument alone      *)
(* mentions can be asked for among any aliases, with any default.  Of the  *)
(* multi downloaders every place below the count of URLs holds one, and    *)
(* without other options all the URLs given are fetched, in order, as long *)
(* as urls has room for them.                                              *)
OptionsKept ==
    LET args == cmdline(text)
        clmap == CmdLine(args)
        multi == fetched(text, [url |-> Space, five |-> EqualsSign, flag |-> NUL])
        given == SelectSeq(text, LAMBDA arg : arg # Space)
        plain == /\ text # <<>> /\ Head(text) = Space /\ Last(text) # Space
                 /\ \A i \in 1 .. Len(text) - 1 : text[i] # Space \/ text[i + 1] \notin {Space, EqualsSign, NUL}
                 /\ ToSet(text) \cap {EqualsSign, NUL} = {}
    IN
    /\ NoUrl \notin ToSet(multi.urls)
    /\ plain /\ Len(given) <= CNT => multi.urls = given /\ ~multi.beyond
    /\ args # <<>> =>
        \A a \in DOMAIN args : \A len \in 1 .. Len(args[a]) :
            LET key == SubSeq(args[a], 1, len)
                mention == {b \in DOMAIN args : Mentions(args[b], key) /\ args[b] # args[1]}
            IN EqualsSign \notin ToSet(key) /\ key # args[1] =>
                 /\ mention # {} => has(clmap, key)
                 /\ mention # {} /\ ~Mentions(args[1], key) =>
                        LET last == args[Max(mention)] IN
                        /\ clmap[key] = IF Given(last, key) = <<>> THEN True ELSE Given(last, key)
                        /\ \A defaults \in {<<>>, True, clmap[key]} :
                              getArgs(clmap, defaults, <<<<NUL>>, key, <<NUL>>>>) = clmap[key]

ValueOf(digits, base) == FoldLeft(LAMBDA value, d : base * value + d, 0, digits)
Divides(d, a) == a % d = 0

(* Arithmetic is exact in the width of the machine: the counter counts and *)
(* says when it wraps, gcd finds the greatest divisor, the coefficients of *)
(* euclid neither overflow nor miss it, shifts and digits keep the value,  *)
(* bytes are counted, and the first zero is found without a branch.  The   *)
(* difference of two times of day is exact, unless one of them is more     *)
(* microseconds than an int holds: then it may be off by its width.        *)
NumbersExact ==
    /\ Len(text) \in 1 .. 3 =>
          LET c == nonce[text, 1, Len(text)] IN
          ValueOf(c.a, 256) = (ValueOf(text, 256) + 1) % (256 ^ Len(text)) /\ (c.ret = -1 <=> ValueOf(c.a, 256) = 0)
    /\ text # <<>> =>
          first_zero(text) = Min({i \in DOMAIN text : text[i] = 0} \cup {Len(text) + 1}) - 1
    /\ m > 0 /\ n > 0 =>
          LET e == euclid[m, n] IN
          /\ e.d = gcd[m, n] /\ m * e.s + n * e.t = e.d
          /\ e.d = Max({d \in 1 .. Width - 1 : Divides(d, m) /\ Divides(d, n)})
    /\ gcd[m, 0] = m /\ gcd[0, n] = n
    /\ ValueOf(dec2bin[m], 2) = m
    /\ n < Bits => LET low == m % (Width \div 2) IN
          /\ ValueOf(dec2bin[Shift(low, 1, n)], 2) = low \div 2 ^ n
          /\ low * 2 ^ n < Width \div 2 => ValueOf(dec2bin[Shift(low, 0, n)], 2) = low * 2 ^ n
    /\ LET Time(t) == [second |-> t \div MICROS, microsec |-> t % MICROS]
           delta == time_delta(Time(m), Time(n))
       IN /\ (delta - (n - m)) % Width = 0
          /\ m < Width \div 2 /\ n < Width \div 2 => delta = n - m
    /\ byts(m) = Min({b \in 0 .. Bits : m < 2 ^ (CharBits * b)})
=============================================================================
