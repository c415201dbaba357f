------------------------------ MODULE TextTools ------------------------------
(***************************************************************************)
(* The functions on strings of src/字符串处理/, the command line of        *)
(* src/命令行/cldetect.h and that of the multi downloaders.  A string is a *)
(* sequence of characters.                                                 *)
(***************************************************************************)
EXTENDS Integers, Sequences, SequencesExt, FiniteSetsExt, TLC

CONSTANTS
    NUL, Space, EqualsSign, \* characters with a meaning
    MaxTokens,              \* room for tokens in split.c
    ROWS, COLUMNS,          \* room for fields in to_array.cpp
    CNT, FIVE               \* room for URLs in demo_multi_*.c, and the default ones

-----------------------------------------------------------------------------
(* split.cpp.  The string is cut at each separator.                        *)
Cut(str, sep) ==
    LET Put(segments, ch) ==
            IF ch = sep THEN Append(segments, <<>>)
                        ELSE Front(segments) \o <<Append(Last(segments), ch)>>
    IN FoldLeft(Put, <<<<>>>>, str)

split(str, sep) == IF str = <<>> THEN <<>> ELSE Cut(str, sep)

split_filter_empty(str, sep) == SelectSeq(Cut(str, sep), LAMBDA segment : segment # <<>>)

(* Only segments that a separator ends are looked at; one without a key or *)
(* without kvsep is skipped, and the first segment with a key wins.        *)
split_to_map(str, sep, kvsep) ==
    LET Insert(map, segment) ==
            IF \E i \in 2 .. Len(segment) : segment[i] = kvsep /\ segment[1] # kvsep
            THEN LET mid == Min({i \in DOMAIN segment : segment[i] = kvsep})
                 IN map @@ (SubSeq(segment, 1, mid - 1) :> SubSeq(segment, mid + 1, Len(segment)))
            ELSE map
    IN FoldLeft(Insert, <<>>, Front(Cut(str, sep)))

-----------------------------------------------------------------------------
(* Mutant: the delimiter stays in the string. *)
ScanKeeping(s, i, delim) ==
    IF s.string[i] = NUL \/ Len(s.tokens) >= MaxTokens \/ s.stopped
    THEN [s EXCEPT !.stopped = TRUE]
    ELSE [s EXCEPT !.tokens = IF s.tokstart THEN Append(s.tokens, i) ELSE s.tokens,
                   !.tokstart = s.string[i] = delim]

(* split.c: tokens are places in the string, in which each delimiter that  *)
(* was seen is overwritten.  When there is no room for one more token, the *)
(* last one runs on to the end, or is empty if it started at a delimiter.  *)
(* (Neither the string nor the room for tokens is a null pointer.)         *)
Scan(s, i, delim) ==
    IF s.string[i] = NUL \/ Len(s.tokens) >= MaxTokens \/ s.stopped
    THEN [s EXCEPT !.stopped = TRUE]
    ELSE [string   |-> IF s.string[i] = delim THEN [s.string EXCEPT ![i] = NUL] ELSE s.string,
          tokens   |-> IF s.tokstart THEN Append(s.tokens, i) ELSE s.tokens,
          tokstart |-> s.string[i] = delim,
          stopped  |-> FALSE]

(* The string that starts at i: it ends before the next NUL. *)
CString(string, i) ==
    LET rest == SubSeq(string, i, Len(string)) IN Cut(rest, NUL)[1]

split_c(str, delim) ==
    LET start == [string |-> str, tokens |-> <<>>, tokstart |-> TRUE, stopped |-> FALSE]
        end == FoldLeft(LAMBDA s, i : Scan(s, i, delim), start, [i \in DOMAIN str |-> i])
    IN [k \in DOMAIN end.tokens |-> CString(end.string, end.tokens[k])]

-----------------------------------------------------------------------------
(* White space at both ends: strip.cpp moves two pointers, trim_space.cpp  *)
(* erases first on the left, then on the right.                            *)
isspace(ch) == ch = Space

strip(str) ==
    LET ink == {i \in DOMAIN str : ~isspace(str[i])} IN
    IF ink = {} THEN <<>> ELSE SubSeq(str, Min(ink), Max(ink))

ltrim(s) ==
    LET first == Min({i \in DOMAIN s : ~isspace(s[i])} \cup {Len(s) + 1}) IN SubSeq(s, first, Len(s))
rtrim(s) ==
    LET base == Max({i \in DOMAIN s : ~isspace(s[i])} \cup {0}) IN SubSeq(s, 1, base)
trim(s) == rtrim(ltrim(s))

-----------------------------------------------------------------------------
(* backslash.cpp: each one is doubled, and the second is passed over.      *)
backslash(s, slash) ==
    FlattenSeq([i \in DOMAIN s |-> IF s[i] = slash THEN <<slash, slash>> ELSE <<s[i]>>])

(* rm_header_footer.cpp: what stands between the header and the footer.    *)
(* The header's end may be the footer's beginning (five dashes): the loop  *)
(* then starts behind the footer it stops at, and leaves the string.       *)
Overrun == <<-1>>
strstr(s, pattern) == {i \in 1 .. Len(s) - Len(pattern) + 1 : SubSeq(s, i, i + Len(pattern) - 1) = pattern}

remove_hf(cert, header, footer) ==
    LET c_str == CString(cert, 1)
        pheader == strstr(c_str, header)
        pfooter == strstr(c_str, footer)
        content == Min(pheader) + Len(header)
    IN IF pheader = {} \/ pfooter = {} THEN <<>>
       ELSE IF Min(pfooter) <= Min(pheader) THEN <<>>
       ELSE IF Min(pfooter) < content THEN Overrun
       ELSE SelectSeq(SubSeq(c_str, content, Min(pfooter) - 1), LAMBDA ch : ~isspace(ch))

(* to_array.cpp: the fields of a sentence are rows of a matrix, which is   *)
(* filled place by place and never asked whether it has the place.         *)
to_array(str, sep) ==
    LET Put(a, ch) == IF ch = sep THEN [a EXCEPT !.j = @ + 1, !.k = 0]
                      ELSE [a EXCEPT !.smatrix = (COLUMNS * a.j + a.k + 1 :> ch) @@ @, !.k = @ + 1]
        zeros == [place \in 1 .. ROWS * COLUMNS |-> NUL]
        a == FoldLeft(Put, [smatrix |-> zeros, j |-> 0, k |-> 0], CString(str, 1))
    IN [places |-> DOMAIN a.smatrix,
        rows   |-> [m \in 1 .. a.j + 1 |->
                      CString([i \in 1 .. ROWS * COLUMNS |-> a.smatrix[i]], COLUMNS * (m - 1) + 1)]]

-----------------------------------------------------------------------------
(* The command line.  /proc/<pid>/cmdline holds the arguments, each ended  *)
(* by a NUL; a rest without one is an argument as well.                    *)
cmdline(arg) ==
    LET args == Cut(arg, NUL) IN IF Last(args) = <<>> THEN Front(args) ELSE args

(* Internal::split: runs of other characters, and each delimiter.          *)
Tokens(self, delimiter) ==
    LET Put(tokens, ch) ==
            IF ch = delimiter \/ tokens = <<>> \/ Last(tokens) = <<delimiter>>
            THEN Append(tokens, <<ch>>)
            ELSE Front(tokens) \o <<Append(Last(tokens), ch)>>
    IN FoldLeft(Put, <<>>, self)

(* A flag is stored as the character `true' is converted to.               *)
True == <<1>>

(* Mutant: an option that is given again keeps its first value. *)
KeepFirst(clmap, tokens, argv0) ==
    IF Len(tokens) = 3 /\ tokens[2] = <<EqualsSign>> THEN clmap @@ (tokens[1] :> tokens[3])
    ELSE IF Len(tokens) = 2 /\ tokens[2] = <<EqualsSign>> THEN clmap @@ (tokens[1] :> True)
    ELSE IF Len(tokens) = 1 /\ tokens[1] # argv0 THEN clmap @@ (tokens[1] :> True)
    ELSE clmap

Enter(clmap, tokens, argv0) ==
    IF Len(tokens) = 3 /\ tokens[2] = <<EqualsSign>> THEN (tokens[1] :> tokens[3]) @@ clmap
    ELSE IF Len(tokens) = 2 /\ tokens[2] = <<EqualsSign>> THEN (tokens[1] :> True) @@ clmap
    ELSE IF Len(tokens) = 1 /\ tokens[1] # argv0 THEN (tokens[1] :> True) @@ clmap
    ELSE clmap

CmdLine(args) ==
    FoldLeft(LAMBDA clmap, arg : Enter(clmap, Tokens(arg, EqualsSign), args[1]), <<>>, args)

has(clmap, op) == op \in DOMAIN clmap

(* The first of the aliases whose value is not the default.                *)
getArgs(clmap, defaults, aliases) ==
    LET given == {i \in DOMAIN aliases : has(clmap, aliases[i]) /\ clmap[aliases[i]] # defaults}
    IN IF given = {} THEN defaults ELSE clmap[aliases[Min(given)]]

-----------------------------------------------------------------------------
(* The command line of demo_multi_1.c, 2.c and 3.c.  An argument is one of *)
(* three options or a URL: --url, whose value may be followed by more      *)
(* URLs, --five, or one like -v, which says that a list of URLs is over.   *)
(* beyond: --url alone does not ask whether urls has room.                 *)
NoUrl == -1
DefaultUrl(i) == -1 - i

Argument(s, arg, options) ==
    LET Store == IF s.url_index = CNT THEN [s EXCEPT !.beyond = TRUE]
                 ELSE [s EXCEPT !.urls[s.url_index + 1] = arg, !.url_index = @ + 1, !.value = FALSE]
    IN IF s.break \/ s.beyond THEN s
       ELSE IF s.value THEN Store
       ELSE IF arg = options.url THEN [s EXCEPT !.value = TRUE]
       ELSE IF arg = options.flag THEN [s EXCEPT !.url_index = 0]
       ELSE IF arg = options.five
       THEN [s EXCEPT !.urls = [i \in 1 .. CNT |-> IF i <= FIVE THEN DefaultUrl(i) ELSE @[i]]]
       ELSE IF s.url_index = 0 THEN [s EXCEPT !.break = TRUE]
       ELSE IF s.url_index = CNT THEN s ELSE Store

(* The URLs that are fetched: as many from the first place on as there are *)
(* places in use.                                                          *)
fetched(args, options) ==
    LET start == [urls |-> [i \in 1 .. CNT |-> NoUrl], url_index |-> 0,
                  value |-> FALSE, break |-> FALSE, beyond |-> FALSE]
        end == FoldLeft(LAMBDA s, arg : Argument(s, arg, options), start, args)
        urls == IF end.urls[1] = NoUrl THEN [end.urls EXCEPT ![1] = DefaultUrl(1)] ELSE end.urls
        url_counter == Cardinality({i \in 1 .. CNT : urls[i] # NoUrl})
    IN [urls |-> [i \in 1 .. url_counter |-> urls[i]], beyond |-> end.beyond]
=============================================================================
