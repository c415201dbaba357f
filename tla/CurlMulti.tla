------------------------------ MODULE CurlMulti ------------------------------
(***************************************************************************)
(* The four programs of src/curl/下载/ that download several files with    *)
(* one multi handle: curl_multi_wait ("wait", demo_multi_2.c), select      *)
(* ("select", demo_multi_3.c), epoll ("epoll", demo_multi_1.c) and libevent*)
(* ("event", demo_multi_libevent.c).                                       *)
(*                                                                         *)
(* libcurl is external.  A call that drives it may let any transfers end,  *)
(* and queues a message for each.  In the programs that watch sockets      *)
(* themselves it says by callbacks which socket to watch for what, and     *)
(* when to come back: as long as a transfer runs that has no socket it has *)
(* asked for a timeout.                                                    *)
(***************************************************************************)
EXTENDS Integers, FiniteSets

CONSTANTS
    Transfers,                      \* the easy handles added to the multi handle
    MULTI_PERFORM_HANG_TIMEOUT      \* in seconds

ASSUME MultiAssumption == IsFiniteSet(Transfers) /\ MULTI_PERFORM_HANG_TIMEOUT \in Nat

VARIABLES
    program, pc,
    state,          \* of each transfer: "running", "ok" or "failed"
    messages,       \* transfers that ended and whose message was not read
    handles,        \* easy handles not yet removed and cleaned up
    still_running,  \* what libcurl said last
    gave_up,
    flag, since,    \* select: idle, and for how long (tvnow() - mp_start)
    quiet,          \* select: seconds since a socket was ready
    interest,       \* what libcurl last asked to be watched for a transfer's socket
    watched,        \* what the program watches
    asked, timer    \* libcurl waits for a timeout; the program has one pending

external == <<state, messages>>
selecting == <<flag, since, quiet>>
watching == <<interest, watched, asked, timer>>
vars == <<program, pc, external, handles, still_running, gave_up, selecting, watching>>

Running == {t \in Transfers : state[t] = "running"}
Done == pc \in {"returned", "died"}

Init ==
    /\ program \in {"wait", "select", "epoll", "event"}
    /\ pc = CASE program \in {"wait", "select"} -> "loop" [] program = "epoll" -> "start" [] OTHER -> "dispatch"
    /\ state = [t \in Transfers |-> "running"]
    /\ messages = {}
    /\ handles = Transfers
    /\ still_running = -1
    /\ gave_up = FALSE
    /\ flag = 0 /\ since = 0 /\ quiet = 0
    /\ interest = [t \in Transfers |-> "none"]
    /\ watched = [t \in Transfers |-> "none"]
    /\ asked = TRUE
    /\ timer = (program = "event")

-----------------------------------------------------------------------------
(* libcurl: transfers end, well or not.                                    *)
End(ended, failed) ==
    /\ state' = [t \in Transfers |-> IF t \in failed THEN "failed" ELSE IF t \in ended THEN "ok" ELSE state[t]]
    /\ still_running' = Cardinality(Running \ ended)

curl_multi_perform ==
    \E ended \in SUBSET Running : \E failed \in SUBSET ended :
        End(ended, failed) /\ messages' = messages \cup ended

(* The messages that are read, and the handles released for them.          *)
ReadAll(unread) == messages' = {} /\ handles' = handles \ unread

(* Mutant: one message is read per call. *)
ReadOne(unread) ==
    IF unread = {} THEN ReadAll(unread)
    ELSE \E t \in unread : messages' = unread \ {t} /\ handles' = handles \ {t}

check_multi_info(unread) == ReadAll(unread)

-----------------------------------------------------------------------------
(* curl_multi_wait                                                         *)
WaitPerform ==
    /\ program = "wait" /\ pc = "loop" /\ still_running # 0
    /\ curl_multi_perform
    /\ pc' = "wait"
    /\ UNCHANGED <<program, handles, gave_up, selecting, watching>>

(* An error ends the program; this is check_curlm_code.                    *)
curl_multi_wait ==
    /\ pc = "wait"
    /\ pc' \in {"loop", "died"}
    /\ UNCHANGED <<program, external, handles, still_running, gave_up, selecting, watching>>

WaitEnds ==
    /\ program = "wait" /\ pc = "loop" /\ still_running = 0
    /\ pc' = "read"
    /\ UNCHANGED <<program, external, handles, still_running, gave_up, selecting, watching>>

(* The handle of a transfer that failed is left to the end of the program. *)
ReadMessage ==
    /\ pc = "read"
    /\ \/ \E t \in messages :
             /\ messages' = messages \ {t}
             /\ handles' = IF state[t] = "ok" THEN handles \ {t} ELSE handles
             /\ UNCHANGED pc
       \/ messages = {} /\ pc' = "returned" /\ UNCHANGED <<messages, handles>>
    /\ UNCHANGED <<program, state, still_running, gave_up, selecting, watching>>

-----------------------------------------------------------------------------
(* select                                                                  *)
curl_multi_fdset ==
    /\ program = "select" /\ pc = "loop" /\ still_running # 0
    /\ pc' \in {"select", "died"}
    /\ UNCHANGED <<program, external, handles, still_running, gave_up, selecting, watching>>

(* Mutant: the start is moved whenever nothing is ready. *)
AlwaysFromNow == since' = 0 /\ flag' = 1

FromNow == IF flag = 0 THEN since' = 0 /\ flag' = 1 ELSE UNCHANGED <<since, flag>>

(* Mutant: the flag stays set. *)
StillIdle == UNCHANGED flag

Busy == flag' = 0

(* Nothing was ready, or select failed, while the time ran out: the test   *)
(* comes before the result is looked at.                                   *)
GiveUp ==
    /\ pc = "select"
    /\ flag = 1 /\ since > MULTI_PERFORM_HANG_TIMEOUT
    /\ gave_up' = TRUE
    /\ pc' = "clear"
    /\ UNCHANGED <<program, external, handles, still_running, selecting, watching>>

SelectReturns(rc) ==
    /\ pc = "select"
    /\ ~(flag = 1 /\ since > MULTI_PERFORM_HANG_TIMEOUT)
    /\ CASE rc = -1 -> FromNow /\ UNCHANGED <<external, still_running, quiet>>
         [] rc = 0 -> FromNow /\ curl_multi_perform /\ UNCHANGED quiet
         [] rc = 1 -> Busy /\ curl_multi_perform /\ quiet' = 0 /\ UNCHANGED since
    /\ pc' = "loop"
    /\ UNCHANGED <<program, handles, gave_up, watching>>

SelectEnds ==
    /\ program = "select" /\ pc = "loop" /\ still_running = 0
    /\ pc' = "clear"
    /\ UNCHANGED <<program, external, handles, still_running, gave_up, selecting, watching>>

easys_clear ==
    /\ pc = "clear"
    /\ check_multi_info(messages)
    /\ pc' = "returned"
    /\ UNCHANGED <<program, state, still_running, gave_up, selecting, watching>>

(* A second passes; no more are counted than the timeout can tell apart.   *)
Tick ==
    LET Later(s) == IF s <= MULTI_PERFORM_HANG_TIMEOUT THEN s + 1 ELSE s IN
    /\ program = "select" /\ pc \in {"loop", "select"}
    /\ since' = Later(since) /\ quiet' = Later(quiet)
    /\ UNCHANGED <<program, pc, external, handles, still_running, gave_up, flag, watching>>

-----------------------------------------------------------------------------
(* The socket callbacks.  epoll adds a socket for both directions, as      *)
(* (what & CURL_POLL_INOUT) holds of either, and never changes it: the new *)
(* events are stored and not given to epoll_ctl.                           *)
sock_cb_epoll(w, what) == IF what = "none" THEN "none" ELSE IF w = "none" THEN "inout" ELSE w

(* Mutant: the first event is kept, as the program with epoll does.        *)
KeepsFirst(w, what) == IF what = "none" \/ w = "none" THEN what ELSE w

(* libevent gets a new event for each change.                              *)
sock_cb(w, what) == what

(* Mutant: the timeout is dropped when one transfer is left.               *)
LastOne == still_running' <= 1

LastDone == still_running' <= 0

(* libcurl is driven: any transfers end or get another socket interest.    *)
(* It waits on for the timeout it asked for, until it fired, or calls      *)
(* multi_timer_cb for another one (with -1 when it needs none any more,    *)
(* which the callback takes for a timeout like any other).                 *)
curl_multi_socket_action(fired) ==
    \E next \in [Running -> {"none", "in", "out", "ok", "failed"}] :
    \E call, want \in BOOLEAN :
        LET ended == {t \in Running : next[t] \in {"ok", "failed"}}
        IN /\ End(ended, {t \in ended : next[t] = "failed"})
           /\ interest' = [t \in Transfers |-> IF t \in Running \ ended THEN next[t] ELSE "none"]
           /\ watched' = [t \in Transfers |->
                  IF interest'[t] = interest[t] THEN watched[t]
                  ELSE IF program = "epoll" THEN sock_cb_epoll(watched[t], interest'[t])
                  ELSE sock_cb(watched[t], interest'[t])]
           /\ ~call => want = (asked /\ ~fired)
           /\ call /\ Running = ended => asked /\ ~want
           /\ (\E t \in Running : next[t] = "none") => want
           /\ asked' = want
           /\ timer' = (program = "event" /\ (call \/ (timer /\ ~fired)) /\ (fired \/ ~LastDone))

Unread == messages \cup {t \in Running : state'[t] # "running"}

-----------------------------------------------------------------------------
(* epoll: the first call, with the timeout.                                *)
EpollStart ==
    /\ program = "epoll" /\ pc = "start"
    /\ curl_multi_socket_action(TRUE)
    /\ messages' = Unread
    /\ pc' = IF still_running' = 0 THEN "returned" ELSE "poll"
    /\ UNCHANGED <<program, handles, gave_up, selecting>>

(* epoll_wait returned some sockets, which are served in turn, also those  *)
(* that a call before has had removed.                                     *)
EpollReady ==
    /\ \/ pc = "poll" /\ \E t \in Transfers : watched[t] # "none"
       \/ pc = "polled"
    /\ curl_multi_socket_action(FALSE)
    /\ check_multi_info(Unread)
    /\ pc' = "polled"
    /\ UNCHANGED <<program, gave_up, selecting>>

EpollServed ==
    /\ pc = "polled"
    /\ pc' = IF still_running = 0 THEN "returned" ELSE "poll"
    /\ UNCHANGED <<program, external, handles, still_running, gave_up, selecting, watching>>

(* Nothing was ready for 500 ms: one more call, whose messages nobody      *)
(* reads, and the program gives up if a transfer is left.                  *)
EpollTimeout ==
    /\ pc = "poll"
    /\ curl_multi_socket_action(TRUE)
    /\ messages' = Unread
    /\ gave_up' = (still_running' # 0)
    /\ pc' = "returned"
    /\ UNCHANGED <<program, handles, selecting>>

-----------------------------------------------------------------------------
(* libevent: an event of a socket.                                         *)
event_cb ==
    /\ program = "event" /\ pc = "dispatch"
    /\ \E t \in Transfers : watched[t] # "none"
    /\ curl_multi_socket_action(FALSE)
    /\ check_multi_info(Unread)
    /\ UNCHANGED <<program, pc, gave_up, selecting>>

timer_cb ==
    /\ program = "event" /\ pc = "dispatch"
    /\ timer
    /\ curl_multi_socket_action(TRUE)
    /\ check_multi_info(Unread)
    /\ UNCHANGED <<program, pc, gave_up, selecting>>

(* A call failed, and check_curlm_code ended the program.                  *)
ActionFails ==
    /\ program = "event" /\ pc = "dispatch"
    /\ timer \/ \E t \in Transfers : watched[t] # "none"
    /\ pc' = "died"
    /\ UNCHANGED <<program, external, handles, still_running, gave_up, selecting, watching>>

(* event_base_dispatch returns when no event is left.                      *)
DispatchEnds ==
    /\ program = "event" /\ pc = "dispatch"
    /\ ~timer /\ \A t \in Transfers : watched[t] = "none"
    /\ pc' = "returned"
    /\ UNCHANGED <<program, external, handles, still_running, gave_up, selecting, watching>>

-----------------------------------------------------------------------------
(* What the program does by itself: sockets become ready, and calls fail,  *)
(* when they like.                                                         *)
Program ==
    \/ WaitPerform \/ curl_multi_wait \/ WaitEnds \/ ReadMessage
    \/ curl_multi_fdset \/ GiveUp \/ SelectReturns(-1) \/ SelectReturns(0) \/ SelectReturns(1)
    \/ SelectEnds \/ easys_clear
    \/ EpollStart \/ EpollServed \/ EpollTimeout
    \/ timer_cb \/ DispatchEnds

Next == Program \/ Tick \/ EpollReady \/ event_cb \/ ActionFails

Spec == Init /\ [][Next]_vars /\ WF_vars(Program) /\ WF_vars(Tick)

-----------------------------------------------------------------------------
(* A program that returns without giving up has no transfer running and no *)
(* message left, and released every handle; the program with               *)
(* curl_multi_wait keeps those of the transfers that failed, and the one   *)
(* with epoll those that ended in the first or last call                   *)
(* (demo_multi_1.c:266,302).                                               *)
NothingLeftBehind ==
    pc = "returned" /\ ~gave_up =>
        /\ Running = {}
        /\ program # "epoll" => messages = {}
        /\ handles = CASE program = "wait" -> {t \in Transfers : state[t] = "failed"}
                       [] program = "epoll" -> messages
                       [] OTHER -> {}

(* The program with select gives up only when no socket was ready for      *)
(* longer than MULTI_PERFORM_HANG_TIMEOUT: the flag and the start it       *)
(* compares with are those of the present pause, never of an earlier one   *)
(* (demo_multi_3.c:182-208).                                               *)
GivesUpOnlyWhenQuiet ==
    program = "select" /\ gave_up => quiet > MULTI_PERFORM_HANG_TIMEOUT

(* A program that watches sockets itself watches each one for what libcurl *)
(* wants of it, and while libcurl waits for a timeout one is pending:      *)
(* otherwise a running transfer is never driven again.                     *)
EventsFollowInterest ==
    /\ program = "epoll" =>
           \A t \in Transfers : watched[t] = IF interest[t] = "none" THEN "none" ELSE "inout"
    /\ program = "event" =>
           /\ \A t \in Transfers : watched[t] = interest[t]
           /\ asked /\ Running # {} => timer

(* Each program ends when its transfers do, and the one with select also   *)
(* when its sockets are never ready again.                                 *)
Returns ==
    /\ <>[](Running = {}) => <>Done
    /\ program = "select" /\ <>[](quiet > 0) => <>Done
=============================================================================
