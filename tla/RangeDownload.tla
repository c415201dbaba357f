---------------------------- MODULE RangeDownload ----------------------------
(***************************************************************************)
(* The range downloader of src/curl/下载/demo_easy_1.c: main asks for the  *)
(* length of the file, cuts it into THREAD_NUM slices and starts one       *)
(* thread per slice; a thread claims the first unused slice, asks the      *)
(* server for its range and writes what arrives into the one FILE all the  *)
(* threads share.                                                          *)
(*                                                                         *)
(* A byte is its position in the remote file, Page a byte of an error      *)
(* page.  libcurl and the server are external: a transfer may be answered  *)
(* with the range, with the whole file (the server ignores ranges, or the  *)
(* range makes no sense) or with an error page, which libcurl hands to the *)
(* callback like any body, and it may end early (broken, or the 300 s      *)
(* time-out).                                                              *)
(***************************************************************************)
EXTENDS Integers, Sequences, FiniteSets

CONSTANTS THREAD_NUM,  \* slices and threads
          Lengths,     \* the lengths a remote file may have
          Chunks,      \* the most bytes a chunk of a body may have
          Width,       \* size_t wraps at Width
          Page         \* a byte of an error page

ASSUME DownloadAssumption ==
    /\ THREAD_NUM \in Nat /\ THREAD_NUM > 2
    /\ Lengths \subseteq Nat
    /\ Chunks \subseteq Nat \ {0}
    /\ Width \in Nat /\ \A n \in Lengths : 2 * n + 4 < Width
    /\ Page \notin Nat

Index == 0 .. THREAD_NUM - 1

VARIABLES
    length,        \* of the remote file
    file_length,   \* what get_download_file_length returned
    g_interval,    \* per slice: begin_iter, end_iter, use
    mpc,           \* where main is: "slice", "create", "join", "returned", "crashed"
    created,       \* how many threads main has created
    tpc,           \* where each thread is
    index,         \* the slice each thread has claimed
    body,          \* per thread, what the server has still to send
    paged,         \* the threads answered with an error page
    chunk,         \* per thread, the chunk write_callback was given
    g_mutex,       \* the thread in write_callback's critical section, or -1
    g_mutex_index, \* the thread claiming a slice, or -1
    position,      \* the file position of g_pFile
    g_pFile        \* the local file: position -> byte

vars == <<length, file_length, g_interval, mpc, created, tpc, index, body, paged,
          chunk, g_mutex, g_mutex_index, position, g_pFile>>

claim == <<g_interval, index, g_mutex_index>>
transfer == <<body, paged, chunk>>
local == <<g_mutex, position, g_pFile>>

Init ==
    /\ length \in Lengths
    /\ file_length = 0
    /\ g_interval = [i \in Index |-> [begin_iter |-> 0, end_iter |-> 0, use |-> 0]]
    /\ mpc = "slice"
    /\ created = 0
    /\ tpc = [t \in Index |-> "none"]
    /\ index = [t \in Index |-> 0]
    /\ body = [t \in Index |-> <<>>]
    /\ paged = {}
    /\ chunk = [t \in Index |-> <<>>]
    /\ g_mutex = -1
    /\ g_mutex_index = -1
    /\ position = 0
    /\ g_pFile = <<>>

-----------------------------------------------------------------------------
(* slice_file: long arithmetic, stored in size_t.  Division truncates.     *)
ToSize(n) == n % Width
ToLong(n) == IF 2 * n >= Width THEN n - Width ELSE n

(* Mutant: as many slices as threads, and the rest of the file is lost. *)
SliceLengthAll(len) == IF len < 0 THEN 0 ELSE len \div THREAD_NUM

SliceLength(len) == IF len < 0 THEN 0 ELSE len \div (THREAD_NUM - 1)

(* Mutant: the end is taken for the first byte that is not in the slice. *)
SliceClosed(len, i) ==
    LET range == SliceLength(len)
        size == i * range
    IN  [begin_iter |-> ToSize(size),
         end_iter |-> ToSize(IF size + range <= len THEN size + range ELSE len),
         use |-> 0]

Slice(len, i) ==
    LET range == SliceLength(len)
        size == i * range
    IN  [begin_iter |-> ToSize(size),
         end_iter |-> ToSize(IF size + range <= len THEN size + range - 1 ELSE len - 1),
         use |-> 0]

(* The length is not known when the HEAD request fails or does not say.    *)
(* (An error page's length would be taken for the file's: curl is not told *)
(* to fail on an error.  No such answer is modelled.)                      *)
get_download_file_length == {length, -1}

slice_file ==
    /\ mpc = "slice"
    /\ file_length' \in get_download_file_length
    /\ g_interval' = [i \in Index |-> Slice(file_length', i)]
    /\ mpc' = "create"
    /\ UNCHANGED <<length, created, tpc, index, g_mutex_index, transfer, local>>

(* create_threads; on an error main goes on to join all the same. *)
CreateThread ==
    /\ mpc = "create"
    /\ created < THREAD_NUM
    /\ \/ /\ tpc' = [tpc EXCEPT ![created] = "claim"]
          /\ created' = created + 1
          /\ mpc' = IF created' = THREAD_NUM THEN "join" ELSE "create"
       \/ /\ mpc' = "join"
          /\ UNCHANGED <<tpc, created>>
    /\ UNCHANGED <<length, file_length, claim, transfer, local>>

Ended(t) == tpc[t] \in {"ok", "failed"}

(* Joining a thread that was never created is undefined. *)
Join ==
    /\ mpc = "join"
    /\ \A t \in Index : t < created => Ended(t)
    /\ IF created = THREAD_NUM THEN mpc' = "returned" ELSE mpc' \in {"returned", "crashed"}
    /\ UNCHANGED <<length, file_length, claim, created, tpc, transfer, local>>

-----------------------------------------------------------------------------
(* thread_func: the first unused slice, slice 0 if there were none.        *)
Unused == {i \in Index : g_interval[i].use = 0}
FirstUnused == IF Unused = {} THEN 0 ELSE CHOOSE i \in Unused : \A j \in Unused : i <= j

(* Mutant: the table is searched before the lock is taken. *)
SearchUnlocked(t) ==
    /\ tpc[t] = "claim"
    /\ index' = [index EXCEPT ![t] = FirstUnused]
    /\ tpc' = [tpc EXCEPT ![t] = "claimed"]
    /\ UNCHANGED <<length, file_length, g_interval, g_mutex_index, mpc, created, transfer, local>>

Search(t) ==
    /\ tpc[t] = "claim"
    /\ g_mutex_index = -1
    /\ g_mutex_index' = t
    /\ index' = [index EXCEPT ![t] = FirstUnused]
    /\ tpc' = [tpc EXCEPT ![t] = "claimed"]
    /\ UNCHANGED <<length, file_length, g_interval, mpc, created, transfer, local>>

Claim(t) ==
    /\ tpc[t] = "claimed"
    /\ g_interval' = [g_interval EXCEPT ![index[t]].use = 1]
    /\ g_mutex_index' = -1
    /\ tpc' = [tpc EXCEPT ![t] = "request"]
    /\ UNCHANGED <<length, file_length, index, mpc, created, transfer, local>>

-----------------------------------------------------------------------------
(* The server's answer to `Range: bytes=b-e', printed as longs.            *)
Source(b, e) == [k \in 1 .. e - b + 1 |-> b + k - 1]

Answers(b, e) ==
    {Source(0, length - 1)} \cup
    (IF 0 <= b /\ b <= e /\ b < length THEN {Source(b, IF e < length THEN e ELSE length - 1)}
                                       ELSE {})

Request(t) ==
    LET s == g_interval[index[t]] IN
    /\ tpc[t] = "request"
    /\ \/ /\ body' \in {[body EXCEPT ![t] = a] : a \in Answers(ToLong(s.begin_iter), ToLong(s.end_iter))}
          /\ UNCHANGED paged
       \/ /\ body' = [body EXCEPT ![t] = <<Page>>]
          /\ paged' = paged \cup {t}
    /\ tpc' = [tpc EXCEPT ![t] = "body"]
    /\ UNCHANGED <<length, file_length, claim, mpc, created, chunk, local>>

(* curl_easy_perform returns: the body has come in full, or it has not. *)
Complete(t) ==
    /\ tpc[t] = "body"
    /\ body[t] = <<>>
    /\ tpc' = [tpc EXCEPT ![t] = "ok"]
    /\ UNCHANGED <<length, file_length, claim, mpc, created, transfer, local>>

Break(t) ==
    /\ tpc[t] \in {"request", "body"}
    /\ tpc' = [tpc EXCEPT ![t] = "failed"]
    /\ body' = [body EXCEPT ![t] = <<>>]
    /\ UNCHANGED <<length, file_length, claim, mpc, created, paged, chunk, local>>

(* libcurl hands the next bytes to write_callback. *)
Deliver(t) ==
    /\ tpc[t] = "body"
    /\ \E n \in Chunks :
          /\ body[t] # <<>>
          /\ chunk' = [chunk EXCEPT ![t] = SubSeq(body[t], 1, IF n < Len(body[t]) THEN n ELSE Len(body[t]))]
          /\ body' = [body EXCEPT ![t] = SubSeq(@, n + 1, Len(@))]
    /\ tpc' = [tpc EXCEPT ![t] = "seek"]
    /\ UNCHANGED <<length, file_length, claim, mpc, created, paged, local>>

-----------------------------------------------------------------------------
(* write_callback                                                          *)
(* Mutant: the callback does not lock. *)
SeekUnlocked(t) ==
    /\ tpc[t] = "seek"
    /\ position' = g_interval[index[t]].begin_iter
    /\ tpc' = [tpc EXCEPT ![t] = "write"]
    /\ UNCHANGED <<length, file_length, claim, mpc, created, transfer, g_mutex, g_pFile>>

Seek(t) ==
    /\ tpc[t] = "seek"
    /\ g_mutex = -1
    /\ g_mutex' = t
    /\ position' = g_interval[index[t]].begin_iter
    /\ tpc' = [tpc EXCEPT ![t] = "write"]
    /\ UNCHANGED <<length, file_length, claim, mpc, created, transfer, g_pFile>>

(* What is left of a slice, in size_t. *)
Room(s) == ToSize(s.end_iter - s.begin_iter + 1)
Fits(t) == Len(chunk[t]) <= Room(g_interval[index[t]])

(* fwrite of the first n bytes of c at position; holes are not in the domain. *)
Written(c, n) ==
    [p \in DOMAIN g_pFile \cup (position .. position + n - 1) |->
        IF p \in position .. position + n - 1 THEN c[p - position + 1] ELSE g_pFile[p]]

(* Mutant: the branch for an oversized chunk returns with the lock held. *)
WriteKeepsLock(t) ==
    /\ tpc[t] = "write"
    /\ LET len == IF Fits(t) THEN Len(chunk[t]) ELSE Room(g_interval[index[t]]) IN
       /\ g_pFile' = Written(chunk[t], len)
       /\ position' = position + len
       /\ IF Fits(t)
          THEN g_interval' = [g_interval EXCEPT ![index[t]].begin_iter = ToSize(@ + len)]
          ELSE UNCHANGED g_interval
       /\ tpc' = [tpc EXCEPT ![t] = IF Fits(t) THEN "body" ELSE "failed"]
    /\ g_mutex' = IF Fits(t) THEN -1 ELSE t
    /\ UNCHANGED <<length, file_length, index, g_mutex_index, mpc, created, transfer>>

(* A chunk that does not fit is cut and begin_iter stays.  libcurl ends    *)
(* the transfer when the callback returns less than it was given, after    *)
(* the cut or after a short write of fwrite.                               *)
Write(t) ==
    /\ tpc[t] = "write"
    /\ \E n \in 0 .. Len(chunk[t]) :
          /\ n <= Room(g_interval[index[t]])
          /\ g_pFile' = Written(chunk[t], n)
          /\ position' = position + n
          /\ IF n = Len(chunk[t])
             THEN tpc' = [tpc EXCEPT ![t] = "body"] /\ UNCHANGED body
             ELSE /\ tpc' = [tpc EXCEPT ![t] = "failed"]
                  /\ body' = [body EXCEPT ![t] = <<>>]
    /\ chunk' = [chunk EXCEPT ![t] = <<>>]
    /\ IF Fits(t)
       THEN g_interval' = [g_interval EXCEPT ![index[t]].begin_iter = ToSize(@ + Len(chunk[t]))]
       ELSE UNCHANGED g_interval
    /\ g_mutex' = -1
    /\ UNCHANGED <<length, file_length, index, g_mutex_index, mpc, created, paged>>

-----------------------------------------------------------------------------
ThreadStep(t) == \/ Search(t) \/ Claim(t) \/ Request(t) \/ Complete(t) \/ Break(t)
                 \/ Deliver(t) \/ Seek(t) \/ Write(t)

MainStep == slice_file \/ CreateThread \/ Join

Next == MainStep \/ \E t \in Index : ThreadStep(t)

Spec == Init /\ [][Next]_vars

(* The threads are scheduled and CURLOPT_TIMEOUT ends every transfer. *)
FairSpec == Spec /\ WF_vars(MainStep) /\ \A t \in Index : WF_vars(ThreadStep(t))

-----------------------------------------------------------------------------
ThreadPC == {"none", "claim", "claimed", "request", "body", "seek", "write", "ok", "failed"}

(* The types of the variables. *)
TypeOK ==
    /\ length \in Lengths
    /\ file_length \in Lengths \cup {-1, 0}
    /\ g_interval \in [Index -> [begin_iter : 0 .. Width - 1, end_iter : 0 .. Width - 1, use : {0, 1}]]
    /\ mpc \in {"slice", "create", "join", "returned", "crashed"}
    /\ created \in 0 .. THREAD_NUM
    /\ tpc \in [Index -> ThreadPC]
    /\ index \in [Index -> Index]
    /\ body \in [Index -> Seq(Nat \cup {Page})]
    /\ paged \subseteq Index
    /\ chunk \in [Index -> Seq(Nat \cup {Page})]
    /\ g_mutex \in Index \cup {-1}
    /\ g_mutex_index \in Index \cup {-1}
    /\ position \in Nat
    /\ DOMAIN g_pFile \subseteq Nat

Claimed(t) == tpc[t] \notin {"none", "claim"}

(* No two threads download the same slice, so none is left out when all    *)
(* threads were created.                                                   *)
OneThreadPerSlice ==
    \A t, u \in Index : t # u /\ Claimed(t) /\ Claimed(u) => index[t] # index[u]

(* The bytes of the slice cut for thread t, whatever it has advanced to. *)
Planned(i) == LET s == Slice(file_length, i) IN s.begin_iter .. s.end_iter

Sliced == mpc # "slice" /\ file_length >= THREAD_NUM - 1

(* The slices of a file of at least THREAD_NUM - 1 bytes do not overlap: a *)
(* thread that stays in its slice cannot spoil another's.  Together they   *)
(* are the file up to the end of the last slice, which is no longer than   *)
(* the others: the file's tail is in none of them when the rest of the     *)
(* division by THREAD_NUM - 1 is more than a slice (demo_easy_1.c:133-140; *)
(* with 30 threads, files below 812 bytes can lose up to 27).              *)
SlicesPartition ==
    Sliced => /\ UNION {Planned(i) : i \in Index} =
                     {p \in 0 .. length - 1 : p < THREAD_NUM * (length \div (THREAD_NUM - 1))}
              /\ \A i, j \in Index : i # j => Planned(i) \cap Planned(j) = {}

(* A transfer that ends well and was not answered with an error page has   *)
(* put exactly its slice into the file, although the threads share one     *)
(* FILE and the server may ignore the range: a whole file in place of a    *)
(* range is always noticed.  The slices of a file of fewer bytes than      *)
(* THREAD_NUM - 1 have no room in them, and nothing is ever written.  With *)
(* the length unknown every thread downloads the whole file over the       *)
(* others': each of them that ends well has it complete, unless another    *)
(* was answered with an error page.                                        *)
OkSlicesAreRight ==
    /\ mpc # "slice" /\ 0 <= file_length /\ file_length < THREAD_NUM - 1 => g_pFile = <<>>
    /\ Sliced => \A t \in Index \ paged :
           tpc[t] = "ok" => \A p \in Planned(index[t]) : p \in DOMAIN g_pFile /\ g_pFile[p] = p
    /\ file_length = -1 /\ paged = {} =>
           \A t \in Index : tpc[t] = "ok" => g_pFile = [p \in 0 .. length - 1 |-> p]

(* main returns or crashes: no thread is left waiting for a mutex. *)
Terminates == <>(mpc \in {"returned", "crashed"})
=============================================================================
