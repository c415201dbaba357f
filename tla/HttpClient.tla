----------------------------- MODULE HttpClient -----------------------------
(***************************************************************************)
(* The HTTP client of src/curl/http/httpclient.{h,cpp}: objects that each  *)
(* own an easy handle of libcurl, whose options stay set from one request  *)
(* to the next.  libcurl itself is external.                               *)
(*                                                                         *)
(* A string is a sequence of characters, which are numbers below 256.  An  *)
(* option is "unset", set by the "own" request or left from an "earlier"   *)
(* one: libcurl copies the URL, but of headers, body and response it keeps *)
(* the pointer, and what that points to is gone (or not what was asked)    *)
(* once the request returned.  What CurlMulti has by the same name begins  *)
(* with Http here, so that a module can extend both.                       *)
(***************************************************************************)
EXTENDS Integers, Sequences, SequencesExt, FiniteSets

CONSTANTS
    Clients,            \* objects of the class
    Urls,               \* the URLs programs ask for
    Maps,               \* the std::maps they pass: <<key, value>> in the order of the keys
    QuestionMark, Ampersand, EqualsSign, Hash, Percent, \* characters with a meaning
    Unreserved,         \* the characters that need no escape
    MaxGlobal           \* bound: how often curl_global_init is called without a clean-up

Char == 0 .. 255

ASSUME HttpAssumption ==
    /\ IsFiniteSet(Clients)
    /\ Urls \subseteq Seq(Char)
    /\ Maps \subseteq Seq(Seq(Char) \X Seq(Char))
    /\ {QuestionMark, Ampersand, EqualsSign, Hash, Percent} \subseteq Char
    /\ Ampersand # EqualsSign /\ QuestionMark \notin {Ampersand, EqualsSign, Hash, Percent}
    /\ {Hash, Percent} \cap {Ampersand, EqualsSign} = {} /\ Hash # Percent
    /\ Unreserved \subseteq Char \ {QuestionMark, Ampersand, EqualsSign, Hash, Percent}

VARIABLES
    global,     \* how often libcurl was initialised and not cleaned up
    lost,       \* how many constructors left it initialised and threw
    live,       \* the objects
    handle,     \* the options of their handles
    sent        \* the request that is out, if any: what was asked, and the options it went out with

objects == <<global, lost, live, handle, sent>>

Option == {"unset", "own", "earlier"}
Fresh == [url |-> "unset", slist |-> "unset", sink |-> "unset", timeouts |-> "unset",
          post |-> FALSE, fields |-> "unset"]

HttpInit ==
    /\ global = 0
    /\ lost = 0
    /\ live = {}
    /\ handle = [c \in Clients |-> Fresh]
    /\ sent = {}

-----------------------------------------------------------------------------
(* The constructor throws when curl_global_init fails, and then nothing is *)
(* changed, or when curl_easy_init does, and then libcurl stays            *)
(* initialised.                                                            *)
Construct(c) ==
    /\ c \notin live
    /\ global < MaxGlobal
    /\ global' = global + 1
    /\ \/ live' = live \cup {c} /\ UNCHANGED lost
       \/ lost' = lost + 1 /\ UNCHANGED live
    /\ UNCHANGED <<handle, sent>>

Destroy(c) ==
    /\ c \in live
    /\ live' = live \ {c}
    /\ global' = global - 1
    /\ handle' = [handle EXCEPT ![c] = Fresh]
    /\ UNCHANGED <<lost, sent>>

-----------------------------------------------------------------------------
(* Parameters in a URL and in a body.                                      *)
Digits(ch) == 256 + ch      \* the two hexadecimal digits of ch, taken as one character

curl_easy_escape(str) ==
    FlattenSeq([i \in DOMAIN str |-> IF str[i] \in Unreserved THEN <<str[i]>> ELSE <<Percent, Digits(str[i])>>])

makeUrlencodedForm(params) ==
    FlattenSeq([i \in DOMAIN params |->
        curl_easy_escape(params[i][1]) \o <<EqualsSign>> \o curl_easy_escape(params[i][2]) \o <<Ampersand>>])

(* Mutant: a URL that has parameters gets a second question mark.          *)
AppendBlindly(params, url) ==
    IF params = <<>> THEN url ELSE url \o <<QuestionMark>> \o makeUrlencodedForm(params)

appendUrlParams(params, url) ==
    IF params = <<>> THEN url
    ELSE url \o <<IF QuestionMark \in ToSet(url) THEN Ampersand ELSE QuestionMark>> \o makeUrlencodedForm(params)

-----------------------------------------------------------------------------
(* Mutant: no list of headers is set when there are none.                  *)
SetOnlyGiven(options, headers) ==
    [options EXCEPT !.url = "own", !.slist = IF headers THEN "own" ELSE @, !.sink = "own", !.timeouts = "own"]

(* What both methods set; an empty list of headers is a null pointer.      *)
SetOptions(options, headers) ==
    [options EXCEPT !.url = "own", !.slist = IF headers THEN "own" ELSE "unset", !.sink = "own", !.timeouts = "own"]

curl_easy_perform(c, options, asked) ==
    /\ c \in live
    /\ handle' = [handle EXCEPT ![c] = options]
    /\ sent' = {[client |-> c, asked |-> asked, options |-> options, posted |-> handle[c].post,
                 url |-> appendUrlParams(asked.params, asked.url)]}
    /\ UNCHANGED <<global, lost, live>>

methodGET(c, url, params, headers) ==
    curl_easy_perform(c, SetOptions(handle[c], headers),
        [post |-> FALSE, url |-> url, params |-> params, headers |-> headers, data |-> <<>>, body |-> <<>>])

(* With a body of the caller's, a form that is made of a map, or none.     *)
methodPost(c, url, params, headers, data) ==
    curl_easy_perform(c, [SetOptions(handle[c], headers) EXCEPT !.post = TRUE, !.fields = "own"],
        [post |-> TRUE, url |-> url, params |-> params, headers |-> headers, data |-> data,
         body |-> makeUrlencodedForm(data)])

(* The answer is there, or an error, and the method returns.               *)
Left(option) == IF option = "own" THEN "earlier" ELSE option

Return ==
    /\ \E request \in sent :
          handle' = [handle EXCEPT ![request.client] =
              [o \in DOMAIN @ |-> IF o = "post" THEN @.post ELSE Left(@[o])]]
    /\ sent' = {}
    /\ UNCHANGED <<global, lost, live>>

Request(c) ==
    \E url \in Urls : \E params \in Maps : \E headers \in BOOLEAN :
        \/ methodGET(c, url, params, headers)
        \/ \E data \in Maps : methodPost(c, url, params, headers, data)

(* One thread: nothing else happens while a request is out.                *)
HttpNext ==
    \/ sent = {} /\ \E c \in Clients : Construct(c) \/ Destroy(c) \/ Request(c)
    \/ Return

HttpSpec == HttpInit /\ [][HttpNext]_objects

-----------------------------------------------------------------------------
(* A request goes out with the URL, the headers, the response, the         *)
(* timeouts and the body that were passed to it, and nothing of an earlier *)
(* one, in any sequence of requests of one object; it is the request that  *)
(* was asked for, but that an object that posted once goes on posting: its *)
(* GET is a POST of a body that is gone (httpclient.cpp:117-126,150-154).  *)
(* And libcurl is initialised as long as an object lives.                  *)
OwnRequest ==
    /\ \A request \in sent :
           LET used == request.options IN
           /\ used.url = "own" /\ used.sink = "own" /\ used.timeouts = "own"
           /\ used.slist = IF request.asked.headers THEN "own" ELSE "unset"
           /\ used.post = (request.asked.post \/ request.posted)
           /\ used.post => used.fields = IF request.asked.post THEN "own" ELSE "earlier"
    /\ global = Cardinality(live) + lost

(* The server's side: a URL, or a form, is read character by character.    *)
(* at says what the character belongs to: the "path", a pair's "key" or    *)
(* "value", "none" of them when a pair may begin, or the "fragment".       *)
Start(form) ==
    [form |-> form, at |-> IF form THEN "none" ELSE "path", pairs |-> <<>>, key |-> <<>>, value |-> <<>>]

Unescaped(part, ch) ==
    IF ch = Percent THEN part ELSE Append(part, IF ch >= 256 THEN ch - 256 ELSE ch)

EndPair(s) ==
    IF s.at \in {"key", "value"}
    THEN [s EXCEPT !.pairs = Append(@, <<s.key, s.value>>), !.at = "none", !.key = <<>>, !.value = <<>>]
    ELSE s

InPair(s, ch) ==
    IF ch = Ampersand THEN EndPair(s)
    ELSE IF s.at = "value" THEN [s EXCEPT !.value = Unescaped(@, ch)]
    ELSE IF ch = EqualsSign THEN [s EXCEPT !.at = "value"]
    ELSE [s EXCEPT !.at = "key", !.key = Unescaped(@, ch)]

Parse(s, ch) ==
    IF s.at = "fragment" THEN s
    ELSE IF ch = Hash /\ ~s.form THEN [EndPair(s) EXCEPT !.at = "fragment"]
    ELSE IF s.at # "path" THEN InPair(s, ch)
    ELSE IF ch = QuestionMark THEN [s EXCEPT !.at = "none"] ELSE s

ParseAll(s, str) ==
    LET after[k \in 0 .. Len(str)] == IF k = 0 THEN s ELSE Parse(after[k - 1], str[k])
    IN after[Len(str)]

Query(url) == EndPair(ParseAll(Start(FALSE), url)).pairs
Form(body) == EndPair(ParseAll(Start(TRUE), body)).pairs

(* The parameters arrive, after those the URL had, whatever separators,    *)
(* escapes or empty strings they are made of, and a form arrives whole     *)
(* (httpclient.cpp:51-86).  A URL with a fragment loses its parameters:    *)
(* they are put behind it, and a fragment is not sent.                     *)
ParamsArrive ==
    \A request \in sent :
        LET asked == request.asked IN
        /\ Query(request.url) = Query(asked.url) \o IF Hash \in ToSet(asked.url) THEN <<>> ELSE asked.params
        /\ Form(asked.body) = asked.data
=============================================================================
