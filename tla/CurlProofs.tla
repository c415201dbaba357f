----------------------------- MODULE CurlProofs -----------------------------
(***************************************************************************)
(* Proofs about the four programs with a multi handle, for any number of   *)
(* transfers and any timeout, and about the HTTP client, for any requests. *)
(* The inductive invariant of the programs has a part for each thing they  *)
(* keep in step with libcurl: the count, the handles and messages, the     *)
(* pause of select, and the sockets and timeouts they watch.  Of the       *)
(* client, the options of a request come first; then the text of its URL   *)
(* and form is followed through the server that reads it: one character,   *)
(* an escaped text, a pair, all pairs behind any URL.                      *)
(***************************************************************************)
EXTENDS CurlMulti, HttpClient, Induction, FiniteSetTheorems, SequenceTheorems, TLAPS

Interest == {"none", "in", "out"}

(* Where each program can be. *)
Places ==
    /\ program \in {"wait", "select", "epoll", "event"}
    /\ pc \in CASE program = "wait" -> {"loop", "wait", "read", "returned", "died"}
                [] program = "select" -> {"loop", "select", "clear", "returned", "died"}
                [] program = "epoll" -> {"start", "poll", "polled", "returned"}
                [] OTHER -> {"dispatch", "returned", "died"}

(* What libcurl said last is true until it is driven again. *)
Counted ==
    /\ state \in [Transfers -> {"running", "ok", "failed"}]
    /\ still_running = -1 \/ still_running = Cardinality(Running)

(* A program that left its loop without giving up saw no transfer running. *)
LeftLoop == pc \in {"read", "clear", "returned"} /\ ~gave_up => Running = {}

(* The handles that are not released are those of the transfers that run   *)
(* and of the messages that were not read, and what the program with       *)
(* curl_multi_wait leaves; the one with select reads all at its end.       *)
Kept ==
    /\ messages \subseteq Transfers \ Running
    /\ handles = CASE program = "wait" -> {t \in Transfers : state[t] # "ok"} \cup messages
                   [] program = "select" /\ pc # "returned" -> Transfers
                   [] OTHER -> Running \cup messages
    /\ program = "select" => messages = IF pc = "returned" THEN {} ELSE Transfers \ Running
    /\ program = "event" \/ (program = "wait" /\ pc = "returned") => messages = {}

(* While the flag is set, since counts a part of the present pause. *)
Pause ==
    program = "select" =>
        /\ since \in Nat /\ quiet \in Nat
        /\ flag = 1 => since <= quiet
        /\ gave_up => pc \in {"clear", "returned"} /\ quiet > MULTI_PERFORM_HANG_TIMEOUT

(* A transfer without a socket made libcurl ask for a timeout. *)
Watched ==
    /\ EventsFollowInterest
    /\ \A t \in Running : interest[t] = "none" => asked

IInv == Places /\ Counted /\ LeftLoop /\ Kept /\ Pause /\ Watched

LEMMA RunningFinite == IsFiniteSet(Running) /\ (Cardinality(Running) = 0 <=> Running = {})
<1>1. IsFiniteSet(Running)
  BY MultiAssumption, FS_Subset DEF Running
<1> QED
  BY <1>1, FS_EmptySet

LEMMA InitIInv == Init => IInv
<1> SUFFICES ASSUME Init PROVE IInv
  OBVIOUS
<1>1. state = [t \in Transfers |-> "running"] /\ Running = Transfers
  BY DEF Init, Running
<1>2. Places
  BY DEF Init, Places
<1>3. Counted
  BY <1>1 DEF Init, Counted
<1>4. LeftLoop
  BY DEF Init, LeftLoop
<1>5. Kept
  BY <1>1 DEF Init, Kept
<1>6. Pause
  BY DEF Init, Pause
<1>7. Watched
  BY DEF Init, Watched, EventsFollowInterest
<1> QED
  BY <1>2, <1>3, <1>4, <1>5, <1>6, <1>7 DEF IInv

-----------------------------------------------------------------------------
(* Transfers that ended run no more, and libcurl counts the others.        *)
LEMMA EndStep ==
    ASSUME Counted, NEW ended \in SUBSET Running, NEW failed \in SUBSET ended, End(ended, failed)
    PROVE  /\ Counted' /\ Running' = Running \ ended
           /\ \A t \in Transfers : t \notin ended => state'[t] = state[t]
           /\ \A t \in ended : state'[t] \in {"ok", "failed"}
           /\ still_running' \in Nat /\ (still_running' = 0 <=> Running' = {})
<1>1. /\ state' = [t \in Transfers |-> IF t \in failed THEN "failed" ELSE IF t \in ended THEN "ok" ELSE state[t]]
      /\ still_running' = Cardinality(Running \ ended)
      /\ Running \subseteq Transfers
  BY DEF End, Running
<1>2. /\ \A t \in Transfers : t \notin ended => state'[t] = state[t]
      /\ \A t \in ended : state'[t] \in {"ok", "failed"}
      /\ state' \in [Transfers -> {"running", "ok", "failed"}]
  BY <1>1 DEF Counted
<1>3. Running' = Running \ ended
  BY <1>1, <1>2 DEF Running
<1>4. IsFiniteSet(Running')
  BY <1>3, RunningFinite, FS_Subset
<1>5. Cardinality(Running') \in Nat /\ (Cardinality(Running') = 0 <=> Running' = {})
  BY <1>4, FS_CardinalityType, FS_EmptySet
<1> QED
  BY <1>1, <1>2, <1>3, <1>5 DEF Counted

(* Who drives libcurl learns what runs, and has a message of what ended.   *)
LEMMA PerformStep ==
    ASSUME IInv, curl_multi_perform
    PROVE  \E ended \in SUBSET Running :
               /\ Counted' /\ Running' = Running \ ended /\ messages' = messages \cup ended
               /\ \A t \in Transfers : t \notin ended => state'[t] = state[t]
               /\ \A t \in ended : state'[t] \in {"ok", "failed"}
BY EndStep DEF curl_multi_perform, IInv

(* The sockets and the timeout are what libcurl wants after each call.     *)
LEMMA ActionStep ==
    ASSUME IInv, NEW fired \in BOOLEAN, curl_multi_socket_action(fired), program' = program
    PROVE  /\ Counted' /\ Watched'
           /\ still_running' = 0 <=> Running' = {}
           /\ Running' \subseteq Running /\ Unread = messages \cup (Running \ Running')
<1>1. PICK next \in [Running -> {"none", "in", "out", "ok", "failed"}], call \in BOOLEAN, want \in BOOLEAN :
        LET ended == {t \in Running : next[t] \in {"ok", "failed"}}
        IN /\ End(ended, {t \in ended : next[t] = "failed"})
           /\ interest' = [t \in Transfers |-> IF t \in Running \ ended THEN next[t] ELSE "none"]
           /\ watched' = [t \in Transfers |->
                  IF interest'[t] = interest[t] THEN watched[t]
                  ELSE IF program = "epoll" THEN sock_cb_epoll(watched[t], interest'[t])
                  ELSE sock_cb(watched[t], interest'[t])]
           /\ ~call => want = (asked /\ ~fired)
           /\ call /\ Running = ended => asked /\ ~want
           /\ (\E t \in Running : next[t] = "none") => want
           /\ asked' = want
           /\ timer' = (program = "event" /\ (call \/ (timer /\ ~fired)) /\ (fired \/ ~LastDone))
  BY DEF curl_multi_socket_action
<1> DEFINE ended == {t \in Running : next[t] \in {"ok", "failed"}}
<1>2. /\ Counted' /\ Running' = Running \ ended
      /\ \A t \in Transfers : t \notin ended => state'[t] = state[t]
      /\ \A t \in ended : state'[t] \in {"ok", "failed"}
      /\ still_running' \in Nat /\ (still_running' = 0 <=> Running' = {})
  BY <1>1, EndStep DEF IInv
<1>3. Unread = messages \cup (Running \ Running')
  <2>1. \A t \in Running : state[t] = "running" /\ t \in Transfers
    BY DEF Running
  <2>2. \A t \in Running : state'[t] # "running" <=> t \in ended
    BY <1>2, <2>1
  <2> QED
    BY <1>2, <2>2 DEF Unread
<1>4. \A t \in Running' : interest'[t] = "none" => asked'
  <2>1. ASSUME NEW t \in Running', interest'[t] = "none" PROVE asked'
    <3>1. t \in Running \ ended /\ t \in Transfers
      BY <1>2 DEF Running
    <3> QED
      BY <1>1, <2>1, <3>1
  <2> QED
    BY <2>1
<1>5. program = "epoll" => \A t \in Transfers : watched'[t] = IF interest'[t] = "none" THEN "none" ELSE "inout"
  BY <1>1 DEF IInv, Watched, EventsFollowInterest, sock_cb_epoll
<1>6. program = "event" => \A t \in Transfers : watched'[t] = interest'[t]
  BY <1>1 DEF IInv, Watched, EventsFollowInterest, sock_cb
<1>7. ASSUME program = "event", asked', Running' # {} PROVE timer'
  <2>1. ~LastDone /\ Running # {}
    BY <1>2, <1>7 DEF LastDone
  <2>2. call \/ (timer /\ ~fired)
    <3>1. CASE call
      BY <3>1
    <3>2. CASE ~call
      BY <1>1, <1>7, <2>1, <3>2 DEF IInv, Watched, EventsFollowInterest
    <3> QED
      BY <3>1, <3>2
  <2> QED
    BY <1>1, <1>7, <2>1, <2>2
<1>8. Watched'
  BY <1>4, <1>5, <1>6, <1>7 DEF Watched, EventsFollowInterest
<1> QED
  BY <1>2, <1>3, <1>8

LEMMA SameWatch ==
    ASSUME IInv, UNCHANGED <<program, watching>>, Running' \subseteq Running PROVE Watched'
BY DEF IInv, Watched, EventsFollowInterest, watching

LEMMA SameCount ==
    ASSUME IInv, UNCHANGED <<state, still_running>> PROVE Counted' /\ Running' = Running
BY DEF IInv, Counted, Running

(* A step that only moves the program, and perhaps the pause: it left its  *)
(* loop because nothing ran, or it gives up.                               *)
LEMMA MoveKeeps ==
    ASSUME IInv, UNCHANGED <<program, external, handles, still_running, watching>>,
           Places', Pause', LeftLoop',
           pc # "returned", pc' = "returned" => program \notin {"wait", "select"}
    PROVE  IInv'
<1>1. Counted' /\ Running' = Running /\ Watched'
  BY SameCount, SameWatch DEF external
<1>2. Kept'
  BY <1>1 DEF IInv, Kept, external, Places
<1> QED
  BY <1>1, <1>2 DEF IInv

(* still_running is looked at when the loop is left. *)
LEMMA NothingRuns == ASSUME IInv, still_running = 0 PROVE Running = {}
BY RunningFinite DEF IInv, Counted

-----------------------------------------------------------------------------
(* curl_multi_wait *)
LEMMA WaitPerformKeeps == ASSUME IInv, WaitPerform PROVE IInv'
<1>1. /\ program = "wait" /\ pc = "loop" /\ pc' = "wait"
      /\ UNCHANGED <<program, handles, gave_up, selecting, watching>>
  BY DEF WaitPerform
<1>2. PICK ended \in SUBSET Running :
        /\ Counted' /\ Running' = Running \ ended /\ messages' = messages \cup ended
        /\ \A t \in Transfers : t \notin ended => state'[t] = state[t]
        /\ \A t \in ended : state'[t] \in {"ok", "failed"}
  BY PerformStep DEF WaitPerform
<1>3. Watched'
  BY <1>1, <1>2, SameWatch
<1>4. Kept'
  <2>1. handles = {t \in Transfers : state[t] # "ok"} \cup messages /\ messages \subseteq Transfers \ Running
    BY <1>1 DEF IInv, Kept
  <2>2. \A t \in Running : t \in Transfers /\ state[t] = "running"
    BY DEF Running
  <2>3. handles' = {t \in Transfers : state'[t] # "ok"} \cup messages'
    BY <1>1, <1>2, <2>1, <2>2
  <2>4. messages' \subseteq Transfers \ Running'
    BY <1>2, <2>1, <2>2
  <2> QED
    BY <1>1, <2>3, <2>4 DEF Kept
<1> QED
  BY <1>1, <1>2, <1>3, <1>4 DEF IInv, Places, LeftLoop, Pause

LEMMA WaitKeeps == ASSUME IInv, curl_multi_wait \/ WaitEnds PROVE IInv'
<1>1. /\ program = "wait" /\ pc # "returned" /\ pc' \in {"loop", "died", "read"}
      /\ UNCHANGED <<program, external, handles, still_running, gave_up, watching>>
  BY DEF IInv, Places, curl_multi_wait, WaitEnds
<1>2. pc' = "read" => Running' = {}
  BY NothingRuns, SameCount DEF curl_multi_wait, WaitEnds, external
<1>3. Places' /\ Pause' /\ LeftLoop'
  BY <1>1, <1>2 DEF IInv, Places, Pause, LeftLoop
<1> QED
  BY <1>1, <1>3, MoveKeeps

LEMMA ReadMessageKeeps == ASSUME IInv, ReadMessage PROVE IInv'
<1>1. /\ program = "wait" /\ pc = "read" /\ pc' \in {"read", "returned"}
      /\ UNCHANGED <<program, state, still_running, gave_up, selecting, watching>>
  BY DEF IInv, Places, ReadMessage
<1>2. Counted' /\ Running' = Running /\ Watched'
  BY <1>1, SameCount, SameWatch
<1>3. handles = {t \in Transfers : state[t] # "ok"} \cup messages /\ messages \subseteq Transfers \ Running
  BY <1>1 DEF IInv, Kept
<1>4. /\ handles' = {t \in Transfers : state[t] # "ok"} \cup messages'
      /\ messages' \subseteq messages
  <2>1. ASSUME NEW t \in messages, messages' = messages \ {t},
               handles' = IF state[t] = "ok" THEN handles \ {t} ELSE handles
        PROVE  /\ handles' = {u \in Transfers : state[u] # "ok"} \cup messages'
               /\ messages' \subseteq messages
    <3>1. t \in Transfers
      BY <1>3
    <3> QED
      BY <1>3, <2>1, <3>1
  <2> QED
    BY <1>3, <2>1 DEF ReadMessage
<1>5. pc' = "returned" => messages' = {}
  BY <1>1 DEF ReadMessage
<1>6. Kept'
  BY <1>1, <1>2, <1>3, <1>4, <1>5 DEF Kept
<1> QED
  BY <1>1, <1>2, <1>6 DEF IInv, Places, LeftLoop, Pause

-----------------------------------------------------------------------------
(* select *)
LEMMA SelectMovesKeep == ASSUME IInv, curl_multi_fdset \/ GiveUp \/ SelectEnds PROVE IInv'
<1>1. /\ program = "select" /\ pc \in {"loop", "select"} /\ pc' \in {"select", "clear", "died"}
      /\ UNCHANGED <<program, external, handles, still_running, selecting, watching>>
  BY DEF IInv, Places, curl_multi_fdset, GiveUp, SelectEnds
<1>2. Places'
  BY <1>1 DEF Places
<1>3. LeftLoop'
  BY <1>1, NothingRuns, SameCount DEF curl_multi_fdset, GiveUp, SelectEnds, external, LeftLoop
<1>4. Pause'
  <2>1. CASE GiveUp
    BY <1>1, <2>1, MultiAssumption DEF IInv, Pause, selecting, GiveUp
  <2>2. CASE curl_multi_fdset \/ SelectEnds
    BY <1>1, <2>2 DEF IInv, Pause, selecting, curl_multi_fdset, SelectEnds
  <2> QED
    BY <2>1, <2>2
<1> QED
  BY <1>1, <1>2, <1>3, <1>4, MoveKeeps

LEMMA SelectReturnsKeeps == ASSUME IInv, NEW rc \in {-1, 0, 1}, SelectReturns(rc) PROVE IInv'
<1>1. /\ program = "select" /\ pc = "select" /\ pc' = "loop" /\ ~gave_up
      /\ UNCHANGED <<program, handles, gave_up, watching>>
  BY DEF IInv, Places, Pause, SelectReturns
<1>2. Pause'
  <2>1. since \in Nat /\ quiet \in Nat /\ (flag = 1 => since <= quiet)
    BY <1>1 DEF IInv, Pause
  <2>2. \/ FromNow /\ UNCHANGED quiet
        \/ Busy /\ quiet' = 0 /\ UNCHANGED since
    BY DEF SelectReturns
  <2> QED
    BY <1>1, <2>1, <2>2 DEF Pause, FromNow, Busy
<1>3. Places' /\ LeftLoop'
  BY <1>1 DEF Places, LeftLoop
<1>4. CASE UNCHANGED <<external, still_running>>
  BY <1>1, <1>2, <1>3, <1>4, MoveKeeps
<1>5. CASE curl_multi_perform
  <2>1. PICK ended \in SUBSET Running :
          Counted' /\ Running' = Running \ ended /\ messages' = messages \cup ended
    BY <1>5, PerformStep
  <2>2. Running \subseteq Transfers
    BY DEF Running
  <2>3. Kept'
    BY <1>1, <2>1, <2>2 DEF IInv, Kept
  <2> QED
    BY <1>1, <1>2, <1>3, <2>1, <2>3, SameWatch DEF IInv
<1> QED
  BY <1>4, <1>5 DEF SelectReturns

LEMMA EasysClearKeeps == ASSUME IInv, easys_clear PROVE IInv'
<1>1. /\ program = "select" /\ pc = "clear" /\ pc' = "returned"
      /\ messages' = {} /\ handles' = handles \ messages
      /\ UNCHANGED <<program, state, still_running, gave_up, selecting, watching>>
  BY DEF IInv, Places, easys_clear, check_multi_info, ReadAll
<1>2. Counted' /\ Running' = Running /\ Watched'
  BY <1>1, SameCount, SameWatch
<1>3. handles' = Running
  BY <1>1 DEF IInv, Kept, Running
<1>4. Kept'
  BY <1>1, <1>2, <1>3 DEF Kept
<1> QED
  BY <1>1, <1>2, <1>4 DEF IInv, Places, LeftLoop, Pause, selecting

LEMMA TickKeeps == ASSUME IInv, Tick PROVE IInv'
<1>1. /\ program = "select" /\ pc \in {"loop", "select"}
      /\ UNCHANGED <<program, pc, external, handles, still_running, gave_up, flag, watching>>
      /\ since' = IF since <= MULTI_PERFORM_HANG_TIMEOUT THEN since + 1 ELSE since
      /\ quiet' = IF quiet <= MULTI_PERFORM_HANG_TIMEOUT THEN quiet + 1 ELSE quiet
  BY DEF Tick
<1>2. Pause'
  BY <1>1, MultiAssumption DEF IInv, Pause
<1> QED
  BY <1>1, <1>2, MoveKeeps, SameCount DEF IInv, Places, LeftLoop, external

-----------------------------------------------------------------------------
(* epoll and libevent: the sockets are driven, and the messages are read   *)
(* or they are not.                                                        *)
LEMMA DriveKeeps ==
    ASSUME IInv, NEW fired \in BOOLEAN, curl_multi_socket_action(fired),
           program \in {"epoll", "event"}, UNCHANGED <<program, selecting>>,
           \/ check_multi_info(Unread)
           \/ program = "epoll" /\ messages' = Unread /\ UNCHANGED handles,
           Places', pc' = "returned" /\ ~gave_up' => still_running' = 0
    PROVE  IInv'
<1>1. /\ Counted' /\ Watched' /\ Running' \subseteq Running
      /\ still_running' = 0 <=> Running' = {}
      /\ Unread = messages \cup (Running \ Running')
  BY ActionStep
<1>2. handles = Running \cup messages /\ messages \subseteq Transfers \ Running
  BY DEF IInv, Kept
<1>3. Kept'
  <2>1. Running \subseteq Transfers
    BY DEF Running
  <2>2. CASE check_multi_info(Unread)
    <3>1. messages' = {} /\ handles' = Running'
      BY <1>1, <1>2, <2>2 DEF check_multi_info, ReadAll
    <3> QED
      BY <3>1 DEF Kept
  <2>3. CASE program = "epoll" /\ messages' = Unread /\ UNCHANGED handles
    <3>1. handles' = Running' \cup messages' /\ messages' \subseteq Transfers \ Running'
      BY <1>1, <1>2, <2>1, <2>3
    <3> QED
      BY <2>3, <3>1 DEF Kept
  <2> QED
    BY <2>2, <2>3
<1>4. LeftLoop'
  BY <1>1 DEF LeftLoop, Places
<1> QED
  BY <1>1, <1>3, <1>4 DEF IInv, Pause

LEMMA EpollKeeps == ASSUME IInv, EpollStart \/ EpollReady \/ EpollTimeout PROVE IInv'
<1>1. CASE EpollStart
  BY <1>1, DriveKeeps DEF EpollStart, IInv, Places
<1>2. CASE EpollReady
  BY <1>2, DriveKeeps DEF EpollReady, IInv, Places
<1>3. CASE EpollTimeout
  BY <1>3, DriveKeeps DEF EpollTimeout, IInv, Places
<1> QED
  BY <1>1, <1>2, <1>3

LEMMA EpollServedKeeps == ASSUME IInv, EpollServed PROVE IInv'
<1>1. /\ program = "epoll" /\ pc = "polled" /\ pc' \in {"returned", "poll"}
      /\ pc' = "returned" => still_running = 0
      /\ UNCHANGED <<program, external, handles, still_running, gave_up, selecting, watching>>
  BY DEF IInv, Places, EpollServed
<1>2. Places' /\ Pause'
  BY <1>1 DEF Places, Pause
<1>3. LeftLoop'
  BY <1>1, NothingRuns, SameCount DEF LeftLoop, external
<1> QED
  BY <1>1, <1>2, <1>3, MoveKeeps

LEMMA EventKeeps == ASSUME IInv, event_cb \/ timer_cb PROVE IInv'
<1>1. CASE event_cb
  BY <1>1, DriveKeeps DEF event_cb, IInv, Places
<1>2. CASE timer_cb
  BY <1>2, DriveKeeps DEF timer_cb, IInv, Places
<1> QED
  BY <1>1, <1>2

(* event_base_dispatch returns when nothing is watched and no timeout is   *)
(* pending: a transfer that ran would have one of the two.                 *)
LEMMA DispatchKeeps == ASSUME IInv, ActionFails \/ DispatchEnds PROVE IInv'
<1>1. /\ program = "event" /\ pc = "dispatch" /\ pc' \in {"returned", "died"}
      /\ UNCHANGED <<program, external, handles, still_running, gave_up, selecting, watching>>
  BY DEF ActionFails, DispatchEnds
<1>2. pc' = "returned" => Running = {}
  <2> SUFFICES ASSUME DispatchEnds, NEW t \in Running PROVE FALSE
    BY <1>1 DEF ActionFails
  <2>1. t \in Transfers /\ watched[t] = "none" /\ ~timer
    BY DEF DispatchEnds, Running
  <2> QED
    BY <1>1, <2>1 DEF IInv, Watched, EventsFollowInterest
<1>3. Places' /\ Pause' /\ LeftLoop'
  BY <1>1, <1>2, SameCount DEF Places, Pause, LeftLoop, external
<1> QED
  BY <1>1, <1>3, MoveKeeps

-----------------------------------------------------------------------------
LEMMA IInvStep == IInv /\ [Next]_vars => IInv'
<1> SUFFICES ASSUME IInv, [Next]_vars PROVE IInv'
  OBVIOUS
<1>1. CASE UNCHANGED vars
  <2>1. /\ Counted' /\ Running' = Running /\ Watched'
    BY <1>1, SameCount, SameWatch DEF vars, external
  <2> QED
    BY <1>1, <2>1 DEF IInv, vars, external, selecting, Places, LeftLoop, Kept, Pause
<1>2. CASE Next
  BY <1>2, WaitPerformKeeps, WaitKeeps, ReadMessageKeeps, SelectMovesKeep, SelectReturnsKeeps,
     EasysClearKeeps, TickKeeps, EpollKeeps, EpollServedKeeps, EventKeeps, DispatchKeeps
  DEF Next, Program
<1> QED
  BY <1>1, <1>2

LEMMA Invariance == Spec => []IInv
BY InitIInv, IInvStep, PTL DEF Spec

(* A program that returns without giving up left no transfer running, no   *)
(* message and no handle but those it is known to keep, for any number of  *)
(* transfers, in whatever calls they end (demo_multi_1.c:255-305,          *)
(* demo_multi_2.c:88-127, demo_multi_3.c:170-232).                         *)
THEOREM NothingIsLeft == Spec => []NothingLeftBehind
<1>1. IInv => NothingLeftBehind
  <2> SUFFICES ASSUME IInv, pc = "returned", ~gave_up PROVE NothingLeftBehind
    BY DEF NothingLeftBehind
  <2>1. Running = {}
    BY DEF IInv, LeftLoop
  <2> QED
    BY <2>1 DEF IInv, Kept, Counted, Places, Running, NothingLeftBehind
<1> QED
  BY <1>1, Invariance, PTL

(* The program with select gives up only after a pause longer than the     *)
(* timeout, whatever timeout and however often sockets are ready           *)
(* (demo_multi_3.c:182-208).                                               *)
THEOREM GivesUpLate == Spec => []GivesUpOnlyWhenQuiet
<1>1. IInv => GivesUpOnlyWhenQuiet
  BY DEF IInv, Pause, GivesUpOnlyWhenQuiet
<1> QED
  BY <1>1, Invariance, PTL

(* The sockets and the timeout libcurl wants are watched, for any number   *)
(* of transfers (demo_multi_1.c:100-150, demo_multi_libevent.c:92-186).    *)
THEOREM EventsAreFollowed == Spec => []EventsFollowInterest
<1>1. IInv => EventsFollowInterest
  BY DEF IInv, Watched
<1> QED
  BY <1>1, Invariance, PTL

-----------------------------------------------------------------------------
(* HttpClient *)
Options == [url : Option, slist : Option, sink : Option, timeouts : Option, post : BOOLEAN, fields : Option]

(* A handle that posts has the body of the request that is out, or of an   *)
(* earlier one.                                                            *)
HandlesInv ==
    /\ handle \in [Clients -> Options]
    /\ \A c \in Clients : handle[c].post => handle[c].fields # "unset"
    /\ \A c \in Clients : handle[c].fields = "own" => \E request \in sent : request.client = c

(* One request at most is out. *)
SentInv ==
    \A request \in sent : sent = {request} /\ request.client \in Clients

LibraryInv ==
    /\ live \subseteq Clients /\ lost \in Nat
    /\ global = Cardinality(live) + lost

HttpInv == HandlesInv /\ SentInv /\ LibraryInv /\ OwnRequest

LEMMA LiveFinite == ASSUME LibraryInv PROVE IsFiniteSet(live) /\ Cardinality(live) \in Nat
BY HttpAssumption, FS_Subset, FS_CardinalityType DEF LibraryInv

LEMMA ConstructKeeps == ASSUME HttpInv, sent = {}, NEW c \in Clients, Construct(c) PROVE HttpInv'
<1>1. /\ c \notin live /\ global' = global + 1 /\ UNCHANGED <<handle, sent>>
      /\ (live' = live \cup {c} /\ lost' = lost) \/ (live' = live /\ lost' = lost + 1)
  BY DEF Construct
<1>2. Cardinality(live \cup {c}) = Cardinality(live) + 1 /\ Cardinality(live) \in Nat
  BY <1>1, LiveFinite, FS_AddElement DEF HttpInv
<1>3. LibraryInv'
  BY <1>1, <1>2 DEF HttpInv, LibraryInv
<1> QED
  BY <1>1, <1>3 DEF HttpInv, HandlesInv, SentInv, OwnRequest, LibraryInv

LEMMA DestroyKeeps == ASSUME HttpInv, sent = {}, NEW c \in Clients, Destroy(c) PROVE HttpInv'
<1>1. /\ c \in live /\ live' = live \ {c} /\ global' = global - 1 /\ UNCHANGED <<lost, sent>>
      /\ handle' = [handle EXCEPT ![c] = Fresh]
  BY DEF Destroy
<1>2. Cardinality(live \ {c}) = Cardinality(live) - 1 /\ Cardinality(live) \in Nat
  BY <1>1, LiveFinite, FS_RemoveElement DEF HttpInv
<1>3. LibraryInv'
  BY <1>1, <1>2 DEF HttpInv, LibraryInv
<1>4. Fresh \in Options /\ ~Fresh.post /\ Fresh.fields = "unset"
  BY DEF Fresh, Options, Option
<1>5. HandlesInv'
  BY <1>1, <1>4 DEF HttpInv, HandlesInv
<1> QED
  BY <1>1, <1>3, <1>5 DEF HttpInv, SentInv, OwnRequest, LibraryInv

(* A request sets every option but that of a post, and an object that      *)
(* posted keeps the pointer to its body.                                   *)
LEMMA PerformKeeps ==
    ASSUME HttpInv, sent = {}, NEW c \in Clients, NEW options \in Options, NEW asked1,
           curl_easy_perform(c, options, asked1), asked1.post \in BOOLEAN,
           options.url = "own", options.sink = "own", options.timeouts = "own",
           options.slist = IF asked1.headers THEN "own" ELSE "unset",
           options.post = (asked1.post \/ handle[c].post),
           options.fields = IF asked1.post THEN "own" ELSE handle[c].fields
    PROVE  HttpInv'
<1> DEFINE request == [client |-> c, asked |-> asked1, options |-> options, posted |-> handle[c].post,
                       url |-> appendUrlParams(asked1.params, asked1.url)]
<1>1. /\ handle' = [handle EXCEPT ![c] = options] /\ sent' = {request}
      /\ UNCHANGED <<global, lost, live>>
  BY DEF curl_easy_perform
<1>2. /\ request.client = c /\ request.asked = asked1 /\ request.options = options
      /\ request.posted = handle[c].post
  OBVIOUS
<1> HIDE DEF request
<1>3. handle[c] \in Options /\ (handle[c].post => handle[c].fields = "earlier")
  BY DEF HttpInv, HandlesInv, Options, Option
<1>4. HandlesInv'
  <2>1. handle' \in [Clients -> Options]
    BY <1>1 DEF HttpInv, HandlesInv
  <2>2. handle'[c] = options /\ \A d \in Clients : d # c => handle'[d] = handle[d]
    BY <1>1 DEF HttpInv, HandlesInv
  <2>3. options.post => options.fields # "unset"
    BY <1>3
  <2>4. \A d \in Clients : d # c => handle[d].fields # "own"
    BY DEF HttpInv, HandlesInv
  <2> QED
    BY <1>1, <1>2, <2>1, <2>2, <2>3, <2>4 DEF HttpInv, HandlesInv
<1>5. SentInv'
  BY <1>1, <1>2 DEF SentInv
<1>6. OwnRequest'
  <2>1. options.post => options.fields = IF asked1.post THEN "own" ELSE "earlier"
    BY <1>3
  <2>2. global' = Cardinality(live') + lost'
    BY <1>1 DEF HttpInv, LibraryInv
  <2> QED
    BY <1>1, <1>2, <2>1, <2>2 DEF OwnRequest
<1> QED
  BY <1>1, <1>4, <1>5, <1>6 DEF HttpInv, LibraryInv

LEMMA RequestKeeps == ASSUME HttpInv, sent = {}, NEW c \in Clients, Request(c) PROVE HttpInv'
<1>1. handle[c] \in Options
  BY DEF HttpInv, HandlesInv
<1>2. ASSUME NEW url, NEW params, NEW headers \in BOOLEAN, methodGET(c, url, params, headers) PROVE HttpInv'
  <2> DEFINE options == SetOptions(handle[c], headers)
             asked1 == [post |-> FALSE, url |-> url, params |-> params, headers |-> headers, data |-> <<>>, body |-> <<>>]
  <2>1. curl_easy_perform(c, options, asked1) /\ asked1.post = FALSE /\ asked1.headers = headers
    BY <1>2 DEF methodGET
  <2>2. /\ options \in Options
        /\ options.url = "own" /\ options.sink = "own" /\ options.timeouts = "own"
        /\ options.slist = IF headers THEN "own" ELSE "unset"
        /\ options.post = handle[c].post /\ options.fields = handle[c].fields
    BY <1>1 DEF SetOptions, Options, Option
  <2> HIDE DEF options, asked1
  <2>3. options.post = (asked1.post \/ handle[c].post)
    BY <1>1, <2>1, <2>2 DEF Options
  <2> QED
    BY <2>1, <2>2, <2>3, PerformKeeps
<1>3. ASSUME NEW url, NEW params, NEW headers \in BOOLEAN, NEW data, methodPost(c, url, params, headers, data)
      PROVE  HttpInv'
  <2> DEFINE options == [SetOptions(handle[c], headers) EXCEPT !.post = TRUE, !.fields = "own"]
             asked1 == [post |-> TRUE, url |-> url, params |-> params, headers |-> headers, data |-> data,
                        body |-> makeUrlencodedForm(data)]
  <2>1. curl_easy_perform(c, options, asked1) /\ asked1.post = TRUE /\ asked1.headers = headers
    BY <1>3 DEF methodPost
  <2>2. /\ options \in Options
        /\ options.url = "own" /\ options.sink = "own" /\ options.timeouts = "own"
        /\ options.slist = IF headers THEN "own" ELSE "unset"
        /\ options.post = TRUE /\ options.fields = "own"
    BY <1>1 DEF SetOptions, Options, Option
  <2> HIDE DEF options, asked1
  <2> QED
    BY <2>1, <2>2, PerformKeeps
<1> QED
  BY <1>2, <1>3 DEF Request

LEMMA ReturnKeeps == ASSUME HttpInv, Return PROVE HttpInv'
<1>1. PICK request \in sent :
        handle' = [handle EXCEPT ![request.client] =
            [o \in DOMAIN @ |-> IF o = "post" THEN @.post ELSE Left(@[o])]]
  BY DEF Return
<1>2. sent' = {} /\ UNCHANGED <<global, lost, live>>
  BY DEF Return
<1> DEFINE c == request.client
           options == [o \in DOMAIN handle[c] |-> IF o = "post" THEN handle[c].post ELSE Left(handle[c][o])]
<1>3. c \in Clients /\ sent = {request} /\ handle \in [Clients -> Options]
  BY DEF HttpInv, SentInv, HandlesInv
<1>4. /\ options \in Options
      /\ options.post = handle[c].post /\ options.fields = Left(handle[c].fields)
  BY <1>3 DEF Options, Option, Left
<1>5. handle' = [handle EXCEPT ![c] = options]
  BY <1>1, <1>3
<1> HIDE DEF options
<1>6. HandlesInv'
  <2>1. \A d \in Clients : d # c => handle[d].fields # "own"
    BY <1>3 DEF HttpInv, HandlesInv
  <2>2. options.fields # "own" /\ (options.post => options.fields # "unset")
    BY <1>3, <1>4 DEF HttpInv, HandlesInv, Left
  <2> QED
    BY <1>3, <1>4, <1>5, <2>1, <2>2 DEF HttpInv, HandlesInv
<1> QED
  BY <1>2, <1>6 DEF HttpInv, SentInv, LibraryInv, OwnRequest

(* For any objects and any sequence of requests each goes out with its own *)
(* options, but for the post that stays, and libcurl is initialised for    *)
(* the objects that live (httpclient.cpp:26-49,101-190).                   *)
THEOREM RequestsAreOwn == HttpSpec => []OwnRequest
<1>1. HttpInit => HttpInv
  <2> SUFFICES ASSUME HttpInit PROVE HttpInv
    OBVIOUS
  <2>1. Fresh \in Options /\ ~Fresh.post /\ Fresh.fields = "unset"
    BY DEF Fresh, Options, Option
  <2>2. Cardinality({}) = 0
    BY FS_EmptySet
  <2> QED
    BY <2>1, <2>2 DEF HttpInit, HttpInv, HandlesInv, SentInv, LibraryInv, OwnRequest
<1>2. HttpInv /\ [HttpNext]_objects => HttpInv'
  <2> SUFFICES ASSUME HttpInv, [HttpNext]_objects PROVE HttpInv'
    OBVIOUS
  <2>1. CASE UNCHANGED objects
    BY <2>1 DEF objects, HttpInv, HandlesInv, SentInv, LibraryInv, OwnRequest
  <2>2. CASE HttpNext
    BY <2>2, ConstructKeeps, DestroyKeeps, RequestKeeps, ReturnKeeps DEF HttpNext
  <2> QED
    BY <2>1, <2>2
<1>3. HttpInv => OwnRequest
  BY DEF HttpInv
<1> QED
  BY <1>1, <1>2, <1>3, PTL DEF HttpSpec

-----------------------------------------------------------------------------
(* What the server reads of what is sent.                                  *)
Parsings == [form : BOOLEAN, at : {"path", "none", "key", "value", "fragment"},
             pairs : Seq(Text \X Text), key : Text, value : Text]

LEMMA UnescapedType == ASSUME NEW part \in Text, NEW ch \in Int PROVE Unescaped(part, ch) \in Text
BY DEF Unescaped, Text

LEMMA EndPairType == ASSUME NEW s \in Parsings PROVE EndPair(s) \in Parsings /\ EndPair(s).form = s.form
<1>1. <<>> \in Text
  BY DEF Text
<1>2. CASE s.at \in {"key", "value"}
  <2>1. <<s.key, s.value>> \in Text \X Text /\ s.pairs \in Seq(Text \X Text)
    BY DEF Parsings
  <2>2. Append(s.pairs, <<s.key, s.value>>) \in Seq(Text \X Text)
    BY <2>1
  <2> QED
    BY <1>1, <1>2, <2>2 DEF EndPair, Parsings
<1> QED
  BY <1>2 DEF EndPair

LEMMA InPairType == ASSUME NEW s \in Parsings, NEW ch \in Int PROVE InPair(s, ch) \in Parsings
<1>1. Unescaped(s.value, ch) \in Text /\ Unescaped(s.key, ch) \in Text
  BY UnescapedType DEF Parsings
<1>2. EndPair(s) \in Parsings
  BY EndPairType
<1> QED
  BY <1>1, <1>2 DEF InPair, Parsings

LEMMA ParseType == ASSUME NEW s \in Parsings, NEW ch \in Int PROVE Parse(s, ch) \in Parsings
<1>1. InPair(s, ch) \in Parsings
  BY InPairType
<1>2. [EndPair(s) EXCEPT !.at = "fragment"] \in Parsings
  BY EndPairType DEF Parsings
<1>3. [s EXCEPT !.at = "none"] \in Parsings
  BY DEF Parsings
<1> QED
  BY <1>1, <1>2, <1>3 DEF Parse

(* f has the state of the server after each character. *)
IsParse(f, s, str) ==
    /\ f \in [0 .. Len(str) -> Parsings]
    /\ f[0] = s
    /\ \A k \in 1 .. Len(str) : f[k] = Parse(f[k - 1], str[k])

(* There is such an f, and it ends where ReadAll does. *)
LEMMA ParseIs ==
    ASSUME NEW s \in Parsings, NEW str \in Text
    PROVE  /\ \E f : IsParse(f, s, str)
           /\ \A g : IsParse(g, s, str) => ParseAll(s, str) = g[Len(str)]
<1> DEFINE n == Len(str)
           step == [k \in 1 .. n |-> [r \in Parsings |-> Parse(r, str[k])]]
           body(f) == [k \in 0 .. n |-> IF k = 0 THEN s ELSE Parse(f[k - 1], str[k])]
<1>1. n \in Nat /\ step \in [1 .. n -> [Parsings -> Parsings]]
  <2>1. \A k \in 1 .. n : str[k] \in Int
    BY DEF Text
  <2>2. \A k \in 1 .. n : [r \in Parsings |-> Parse(r, str[k])] \in [Parsings -> Parsings]
    BY <2>1, ParseType
  <2>3. n \in Nat
    BY DEF Text
  <2> QED
    BY <2>2, <2>3
<1> DEFINE Follows(g) == g[0] = s /\ \A k \in 1 .. n : g[k] = Parse(g[k - 1], str[k])
<1>2. PICK g \in [0 .. n -> Parsings] : IsRun(g, n, s, step)
  <2> HIDE DEF n, step
  <2> QED
    BY <1>1, Loop
<1>3. Follows(g)
  <2>1. \A k \in 1 .. n : g[k] = Parse(g[k - 1], str[k])
    <3> TAKE k \in 1 .. n
    <3>1. k - 1 \in 0 .. n /\ g[k - 1] \in Parsings
      BY <1>1
    <3> QED
      BY <1>2, <3>1 DEF IsRun
  <2> QED
    BY <1>2, <2>1 DEF IsRun
<1>4. g = body(g)
  BY <1>3
<1> DEFINE f == CHOOSE f : f = body(f)
<1>5. f = body(f)
  BY <1>4
<1>6. ParseAll(s, str) = f[n]
  BY DEF ParseAll
<1> HIDE DEF f
<1>7. ASSUME NEW h \in [0 .. n -> Parsings], Follows(h) PROVE f[n] = h[n]
  <2>1. ASSUME NEW k \in 0 .. n, f[k] = h[k], k + 1 \in 0 .. n PROVE f[k + 1] = h[k + 1]
    <3>1. f[k + 1] = Parse(f[k], str[k + 1])
      BY <1>5, <2>1
    <3>2. h[k + 1] = Parse(h[k], str[k + 1])
      BY <1>7, <2>1
    <3> QED
      BY <2>1, <3>1, <3>2
  <2> DEFINE S == {k \in 0 .. n : f[k] = h[k]}
  <2>2. 0 \in S
    BY <1>1, <1>5, <1>7
  <2>3. \A k \in 0 .. n - 1 : k \in S => k + 1 \in S
    BY <2>1
  <2>4. 0 .. n \subseteq S
    <3> HIDE DEF S, n
    <3> QED
      BY <1>1, <2>2, <2>3, CountingUp
  <2> QED
    BY <1>1, <2>4
<1>8. IsParse(g, s, str)
  BY <1>3 DEF IsParse
<1>9. ASSUME NEW h, IsParse(h, s, str) PROVE ParseAll(s, str) = h[Len(str)]
  BY <1>6, <1>7, <1>9 DEF IsParse
<1> QED
  BY <1>8, <1>9

LEMMA ParseAllType == ASSUME NEW s \in Parsings, NEW str \in Text PROVE ParseAll(s, str) \in Parsings
<1>1. PICK f : IsParse(f, s, str)
  BY ParseIs
<1>2. ParseAll(s, str) = f[Len(str)]
  BY <1>1, ParseIs
<1>3. Len(str) \in 0 .. Len(str)
  BY DEF Text
<1> QED
  BY <1>1, <1>2, <1>3 DEF IsParse

LEMMA ParseNothing == ASSUME NEW s \in Parsings PROVE ParseAll(s, <<>>) = s
<1>1. <<>> \in Text /\ Len(<<>>) = 0
  BY DEF Text
<1>2. PICK f : IsParse(f, s, <<>>)
  BY <1>1, ParseIs
<1>3. ParseAll(s, <<>>) = f[Len(<<>>)]
  BY <1>1, <1>2, ParseIs
<1> QED
  BY <1>1, <1>2, <1>3 DEF IsParse

LEMMA ParseOne ==
    ASSUME NEW s \in Parsings, NEW ch \in Int
    PROVE  Parse(s, ch) = ParseAll(s, <<ch>>)
<1> DEFINE str == <<ch>>
<1>1. str \in Text /\ Len(str) = 1 /\ str[1] = ch
  BY DEF Text
<1> HIDE DEF str
<1>2. PICK f : IsParse(f, s, str)
  BY <1>1, ParseIs
<1>3. ParseAll(s, str) = f[1]
  BY <1>1, <1>2, ParseIs
<1>4. f[0] = s /\ f[1] = Parse(f[1 - 1], str[1])
  BY <1>1, <1>2 DEF IsParse
<1>5. f[1] = Parse(s, ch)
  BY <1>1, <1>4
<1> QED
  BY <1>3, <1>5 DEF str

(* A text is read after another from the state that was left. *)
LEMMA ParseJoined ==
    ASSUME NEW s \in Parsings, NEW a \in Text, NEW b \in Text
    PROVE  a \o b \in Text /\ ParseAll(s, a \o b) = ParseAll(ParseAll(s, a), b)
<1> DEFINE r == ParseAll(s, a)
           m == Len(a)
           n == Len(b)
           c == a \o b
<1>1. /\ m \in Nat /\ n \in Nat /\ c \in Text /\ Len(c) = m + n
      /\ \A k \in 1 .. m : c[k] = a[k]
      /\ \A k \in m + 1 .. m + n : c[k] = b[k - m]
  BY DEF Text
<1>2. PICK f : IsParse(f, s, a)
  BY ParseIs
<1>3. r \in Parsings
  BY ParseAllType
<1>4. PICK g : IsParse(g, r, b)
  BY <1>3, ParseIs
<1>5. /\ f \in [0 .. m -> Parsings] /\ f[0] = s /\ r = f[m]
      /\ \A k \in 1 .. m : f[k] = Parse(f[k - 1], a[k])
  <2>1. r = f[m]
    BY <1>2, ParseIs
  <2> QED
    BY <1>2, <2>1 DEF IsParse
<1>6. /\ g \in [0 .. n -> Parsings] /\ g[0] = r /\ ParseAll(r, b) = g[n]
      /\ \A k \in 1 .. n : g[k] = Parse(g[k - 1], b[k])
  <2>1. ParseAll(r, b) = g[n]
    BY <1>3, <1>4, ParseIs
  <2> QED
    BY <1>4, <2>1 DEF IsParse
<1> HIDE DEF r, m, n, c
<1> DEFINE h == [k \in 0 .. m + n |-> IF k <= m THEN f[k] ELSE g[k - m]]
<1>7. h \in [0 .. m + n -> Parsings] /\ h[0] = s /\ h[m + n] = g[n]
  <2>1. \A k \in 0 .. m + n : (k <= m => k \in 0 .. m) /\ (k > m => k - m \in 0 .. n)
    BY <1>1
  <2>2. h \in [0 .. m + n -> Parsings]
    BY <1>1, <1>5, <1>6, <2>1
  <2>3. h[0] = s
    BY <1>1, <1>5
  <2>4. h[m + n] = g[n]
    <3>1. CASE n = 0
      BY <1>1, <1>5, <1>6, <3>1
    <3>2. CASE n > 0
      <4>1. m + n \in 0 .. m + n /\ ~(m + n <= m) /\ (m + n) - m = n
        BY <1>1, <3>2
      <4> QED
        BY <4>1
    <3> QED
      BY <1>1, <3>1, <3>2
  <2> QED
    BY <2>2, <2>3, <2>4
<1>8. ASSUME NEW k \in 1 .. m + n PROVE h[k] = Parse(h[k - 1], c[k])
  <2>1. CASE k <= m
    <3>1. k \in 1 .. m /\ k \in 0 .. m + n /\ k - 1 \in 0 .. m + n /\ k - 1 <= m
      BY <1>1, <2>1
    <3>2. h[k] = f[k] /\ h[k - 1] = f[k - 1]
      BY <2>1, <3>1
    <3> QED
      BY <1>1, <1>5, <3>1, <3>2
  <2>2. CASE k = m + 1
    <3>1. k - 1 = m /\ k - m = 1 /\ k \in 0 .. m + n /\ m \in 0 .. m + n /\ 1 \in 1 .. n /\ 1 - 1 = 0 /\ ~(k <= m) /\ k \in m + 1 .. m + n
      BY <1>1, <2>2
    <3>2. h[k] = g[k - m] /\ h[m] = f[m]
      BY <1>1, <3>1
    <3>3. c[k] = b[1]
      BY <1>1, <3>1
    <3>4. g[1] = Parse(g[1 - 1], b[1])
      BY <1>6, <3>1
    <3> HIDE DEF h
    <3> QED
      BY <1>5, <1>6, <3>1, <3>2, <3>3, <3>4
  <2>3. CASE k > m + 1
    <3>1. /\ k - m \in 1 .. n /\ (k - m) - 1 = (k - 1) - m /\ k \in 0 .. m + n /\ k - 1 \in 0 .. m + n
          /\ ~(k <= m) /\ ~(k - 1 <= m) /\ k \in m + 1 .. m + n
      BY <1>1, <2>3
    <3>2. h[k] = g[k - m] /\ h[k - 1] = g[(k - m) - 1] /\ c[k] = b[k - m]
      BY <1>1, <3>1
    <3> QED
      BY <1>6, <3>1, <3>2
  <2> QED
    BY <1>1, <2>1, <2>2, <2>3
<1> HIDE DEF h
<1>9. IsParse(h, s, c)
  BY <1>1, <1>7, <1>8 DEF IsParse
<1>10. ParseAll(s, c) = h[m + n]
  BY <1>1, <1>9, ParseIs
<1> QED
  BY <1>1, <1>6, <1>7, <1>10 DEF r, c

(* Of a sequence of texts that are parsed one after another, f has the     *)
(* state after each.                                                       *)
LEMMA ParseFlat ==
    ASSUME NEW s \in Parsings, NEW seqs \in Seq(Text)
    PROVE  \E f \in [0 .. Len(seqs) -> Parsings] :
              /\ f[0] = s
              /\ \A k \in 1 .. Len(seqs) : f[k] = ParseAll(f[k - 1], seqs[k])
              /\ FlattenSeq(seqs) \in Text
              /\ ParseAll(s, FlattenSeq(seqs)) = f[Len(seqs)]
<1> DEFINE n == Len(seqs)
<1>1. n \in Nat /\ \A k \in 1 .. n : seqs[k] \in Text
  OBVIOUS
<1>2. PICK g : IsFlat(g, seqs) /\ FlattenSeq(seqs) = g[n]
  BY Flattened
<1>3. /\ g \in [0 .. n -> Text] /\ g[0] = <<>>
      /\ \A k \in 1 .. n : g[k] = g[k - 1] \o seqs[k]
  BY <1>2 DEF IsFlat
<1> HIDE DEF n
<1> DEFINE f == [k \in 0 .. n |-> ParseAll(s, g[k])]
<1>4. f \in [0 .. n -> Parsings]
  BY <1>3, ParseAllType
<1>5. f[0] = s
  BY <1>1, <1>3, ParseNothing
<1>6. ASSUME NEW k \in 1 .. n PROVE f[k] = ParseAll(f[k - 1], seqs[k])
  <2>1. k \in 0 .. n /\ k - 1 \in 0 .. n /\ g[k - 1] \in Text /\ seqs[k] \in Text
    BY <1>1, <1>3
  <2>2. ParseAll(s, g[k - 1] \o seqs[k]) = ParseAll(ParseAll(s, g[k - 1]), seqs[k])
    BY <2>1, ParseJoined
  <2> QED
    BY <1>3, <2>1, <2>2
<1>7. g[n] \in Text /\ ParseAll(s, g[n]) = f[n]
  BY <1>1, <1>3
<1> HIDE DEF f
<1> QED
  BY <1>2, <1>4, <1>5, <1>6, <1>7 DEF n

-----------------------------------------------------------------------------
(* An escaped text is read back.                                           *)
Escaped(ch) == IF ch \in Unreserved THEN <<ch>> ELSE <<Percent, Digits(ch)>>

(* A part of the pair that is read, and the state in which it is text. *)
Part(s, part) == IF part = "key" THEN s.key ELSE s.value
WithPart(s, part, text) ==
    IF part = "key" THEN [s EXCEPT !.at = "key", !.key = text] ELSE [s EXCEPT !.at = "value", !.value = text]

(* The next character belongs to the part. *)
Awaits(s, part) == IF part = "key" THEN s.at \in {"none", "key"} ELSE s.at = "value"

LEMMA Separators ==
    /\ QuestionMark \in Int /\ Ampersand \in Int /\ EqualsSign \in Int /\ Hash \in Int /\ Percent \in Int
    /\ QuestionMark < 256 /\ Ampersand < 256 /\ EqualsSign < 256 /\ Hash < 256 /\ Percent < 256
    /\ Ampersand # EqualsSign /\ Hash # Ampersand /\ Hash # EqualsSign /\ Hash # Percent
    /\ Percent # Ampersand /\ Percent # EqualsSign
    /\ QuestionMark # Ampersand /\ QuestionMark # EqualsSign /\ QuestionMark # Hash /\ QuestionMark # Percent
<1> DEFINE S == {QuestionMark, Ampersand, EqualsSign, Hash, Percent}
<1>1. \A ch \in S : ch \in Int /\ ch < 256
  <2>1. S \subseteq Char
    BY HttpAssumption
  <2>2. \A ch \in Char : ch \in Int /\ ch < 256
    BY DEF Char
  <2> HIDE DEF S
  <2> QED
    BY <2>1, <2>2
<1>2. Ampersand # EqualsSign /\ QuestionMark \notin {Ampersand, EqualsSign, Hash, Percent} /\ Hash # Percent
  BY HttpAssumption
<1>3. {Hash, Percent} \cap {Ampersand, EqualsSign} = {}
  BY HttpAssumption
<1>4. Hash # Ampersand /\ Hash # EqualsSign /\ Percent # Ampersand /\ Percent # EqualsSign
  BY <1>3
<1> QED
  BY <1>1, <1>2, <1>4

LEMMA PartType ==
    ASSUME NEW s \in Parsings, NEW part
    PROVE  Part(s, part) \in Text
BY DEF Part, Parsings

LEMMA WithPartType ==
    ASSUME NEW s \in Parsings, NEW part \in {"key", "value"}, NEW text \in Text
    PROVE  /\ WithPart(s, part, text) \in Parsings
           /\ Awaits(WithPart(s, part, text), part)
           /\ Part(WithPart(s, part, text), part) = text
<1>1. CASE part = "key"
  BY <1>1 DEF Part, WithPart, Awaits, Parsings
<1>2. CASE part = "value"
  BY <1>2 DEF Part, WithPart, Awaits, Parsings
<1> QED
  BY <1>1, <1>2

LEMMA PartTwice ==
    ASSUME NEW s \in Parsings, NEW part \in {"key", "value"}, NEW a \in Text, NEW b \in Text
    PROVE  WithPart(WithPart(s, part, a), part, b) = WithPart(s, part, b)
<1>1. CASE part = "key"
  BY <1>1 DEF WithPart, Parsings
<1>2. CASE part = "value"
  BY <1>2 DEF WithPart, Parsings
<1> QED
  BY <1>1, <1>2

(* A character that separates nothing is added to the part it belongs to. *)
LEMMA PlainParsed ==
    ASSUME NEW s \in Parsings, NEW part \in {"key", "value"}, Awaits(s, part), NEW ch \in Int,
           ch # Ampersand, ch # EqualsSign, ch # Hash
    PROVE  Parse(s, ch) = WithPart(s, part, Unescaped(Part(s, part), ch))
<1>1. s.at # "fragment" /\ s.at # "path"
  BY DEF Awaits
<1>2. Parse(s, ch) = InPair(s, ch)
  BY <1>1 DEF Parse
<1>3. CASE part = "key"
  <2>1. s.at # "value"
    BY <1>3 DEF Awaits
  <2> QED
    BY <1>2, <1>3, <2>1 DEF InPair, WithPart, Part
<1>4. CASE part = "value"
  <2>1. s.at = "value"
    BY <1>4 DEF Awaits
  <2>2. [s EXCEPT !.value = Unescaped(s.value, ch)] = [s EXCEPT !.at = "value", !.value = Unescaped(s.value, ch)]
    BY <2>1 DEF Parsings
  <2> QED
    BY <1>2, <1>4, <2>1, <2>2 DEF InPair, WithPart, Part
<1> QED
  BY <1>3, <1>4

LEMMA TwoCharacters ==
    ASSUME NEW a \in Int, NEW b \in Int
    PROVE  <<a>> \o <<b>> = <<a, b>>
<1> DEFINE x == <<a>>
           y == <<b>>
           z == <<a, b>>
<1>1. x \in Seq(Int) /\ y \in Seq(Int) /\ z \in Seq(Int)
  OBVIOUS
<1>2. Len(x) = 1 /\ Len(y) = 1 /\ Len(z) = 2 /\ x[1] = a /\ y[1] = b /\ z[1] = a /\ z[2] = b
  OBVIOUS
<1> HIDE DEF x, y, z
<1>3. /\ x \o y \in Seq(Int) /\ Len(x \o y) = Len(x) + Len(y)
      /\ \A i \in 1 .. Len(x) : (x \o y)[i] = x[i]
      /\ \A i \in Len(x) + 1 .. Len(x) + Len(y) : (x \o y)[i] = y[i - Len(x)]
  BY <1>1
<1>4. Len(x \o y) = 2
  BY <1>2, <1>3
<1>5. (x \o y)[1] = x[1] /\ (x \o y)[2] = y[1]
  BY <1>2, <1>3
<1>6. \A i \in 1 .. Len(x \o y) : (x \o y)[i] = z[i]
  BY <1>2, <1>4, <1>5
<1>7. x \o y = z
  BY <1>1, <1>2, <1>3, <1>4, <1>6, SeqEqual
<1> QED
  BY <1>7 DEF x, y, z

LEMMA EscapedParsed ==
    ASSUME NEW s \in Parsings, NEW part \in {"key", "value"}, Awaits(s, part), NEW ch \in Char
    PROVE  /\ Escaped(ch) \in Text
           /\ ParseAll(s, Escaped(ch)) = WithPart(s, part, Append(Part(s, part), ch))
<1> DEFINE text == Part(s, part)
<1>1. ch \in Int /\ ch < 256 /\ Digits(ch) \in Int /\ Digits(ch) >= 256 /\ Digits(ch) - 256 = ch
  BY DEF Char, Digits
<1>2. text \in Text /\ Append(text, ch) \in Text
  <2>1. text \in Text
    BY PartType
  <2> QED
    BY <1>1, <2>1 DEF Text
<1> HIDE DEF text
<1>3. CASE ch \in Unreserved
  <2>1. ch \notin {QuestionMark, Ampersand, EqualsSign, Hash, Percent}
    BY <1>3, HttpAssumption
  <2>2. ParseAll(s, <<ch>>) = Parse(s, ch)
    BY <1>1, ParseOne
  <2>3. Parse(s, ch) = WithPart(s, part, Unescaped(text, ch))
    BY <1>1, <2>1, PlainParsed DEF text
  <2>4. Unescaped(text, ch) = Append(text, ch)
    BY <1>1, <2>1 DEF Unescaped
  <2>5. <<ch>> \in Text
    BY <1>1 DEF Text
  <2> QED
    BY <1>3, <2>2, <2>3, <2>4, <2>5 DEF Escaped, text
<1>4. CASE ch \notin Unreserved
  <2> DEFINE r == WithPart(s, part, text)
             digits == Digits(ch)
  <2>1. r \in Parsings /\ Awaits(r, part) /\ Part(r, part) = text
    BY <1>2, WithPartType
  <2>2. Parse(s, Percent) = r
    <3>1. Parse(s, Percent) = WithPart(s, part, Unescaped(text, Percent))
      BY Separators, PlainParsed DEF text
    <3>2. Unescaped(text, Percent) = text
      BY DEF Unescaped
    <3> QED
      BY <3>1, <3>2
  <2> HIDE DEF r, digits
  <2>3. digits \in Int /\ digits # Ampersand /\ digits # EqualsSign /\ digits # Hash /\ digits # Percent
    BY <1>1, Separators DEF digits
  <2>4. Parse(r, digits) = WithPart(s, part, Append(text, ch))
    <3>1. Parse(r, digits) = WithPart(r, part, Unescaped(text, digits))
      BY <2>1, <2>3, PlainParsed
    <3>2. Unescaped(text, digits) = Append(text, ch)
      BY <1>1, <2>3 DEF Unescaped, digits
    <3> QED
      BY <1>2, <3>1, <3>2, PartTwice DEF r
  <2>5. <<Percent>> \in Text /\ <<digits>> \in Text /\ <<Percent>> \o <<digits>> = <<Percent, digits>>
    <3>1. <<Percent>> \in Text /\ <<digits>> \in Text
      BY <2>3, Separators DEF Text
    <3> QED
      BY <2>3, <3>1, Separators, TwoCharacters
  <2>6. ParseAll(s, <<Percent>>) = r /\ ParseAll(r, <<digits>>) = Parse(r, digits)
    BY <2>1, <2>2, <2>3, Separators, ParseOne
  <2>7. ParseAll(s, <<Percent>> \o <<digits>>) = ParseAll(ParseAll(s, <<Percent>>), <<digits>>)
    BY <2>5, ParseJoined
  <2>8. <<Percent, digits>> \in Text
    BY <2>3, Separators DEF Text
  <2> QED
    BY <1>4, <2>4, <2>5, <2>6, <2>7, <2>8 DEF Escaped, text, digits
<1> QED
  BY <1>3, <1>4

LEMMA CharText == ASSUME NEW str \in Seq(Char) PROVE str \in Text
<1>1. Char \subseteq Int
  BY DEF Char
<1> QED
  BY <1>1, SeqMonotonic DEF Text

(* r is s, but that its part has the first k characters of str. *)
Took(r, s, part, str, k) ==
    /\ r \in Parsings /\ Awaits(r, part)
    /\ r = s \/ r = WithPart(s, part, Part(r, part))
    /\ Len(Part(r, part)) = k
    /\ \A i \in 1 .. k : Part(r, part)[i] = str[i]

LEMMA EscapedType == ASSUME NEW ch \in Char PROVE Escaped(ch) \in Text
<1>1. ch \in Int /\ Digits(ch) \in Int /\ Percent \in Int
  BY Separators DEF Char, Digits
<1>2. <<ch>> \in Text /\ <<Percent, Digits(ch)>> \in Text
  BY <1>1 DEF Text
<1> QED
  BY <1>2 DEF Escaped

EscapedTexts(str) == [i \in DOMAIN str |-> Escaped(str[i])]

LEMMA EscapedTextsType ==
    ASSUME NEW str \in Seq(Char)
    PROVE  /\ EscapedTexts(str) \in Seq(Text)
           /\ Len(EscapedTexts(str)) = Len(str)
<1> DEFINE seqs == [i \in DOMAIN str |-> Escaped(str[i])]
<1>1. \A i \in 1 .. Len(str) : seqs[i] \in Text
  BY EscapedType
<1>2. seqs \in Seq(Text)
  BY <1>1
<1>3. Len(seqs) = Len(str)
  OBVIOUS
<1> QED
  BY <1>2, <1>3 DEF EscapedTexts

LEMMA EscapedText == ASSUME NEW str \in Seq(Char) PROVE curl_easy_escape(str) \in Text
<1> DEFINE seqs == EscapedTexts(str)
<1>1. seqs \in Seq(Text)
  BY EscapedTextsType
<1>2. curl_easy_escape(str) = FlattenSeq(seqs)
  BY DEF curl_easy_escape, EscapedTexts, Escaped
<1>3. FlattenSeq(seqs) \in Text
  <2> HIDE DEF seqs
  <2>1. PICK f : IsFlat(f, seqs) /\ FlattenSeq(seqs) = f[Len(seqs)]
    BY <1>1, Flattened
  <2>2. Len(seqs) \in 0 .. Len(seqs)
    BY <1>1
  <2> QED
    BY <2>1, <2>2 DEF IsFlat
<1> QED
  BY <1>2, <1>3

(* What is escaped is added to the part whole. *)
LEMMA EscapeParsed ==
    ASSUME NEW s \in Parsings, NEW part \in {"key", "value"}, Awaits(s, part), Part(s, part) = <<>>,
           NEW str \in Seq(Char)
    PROVE  \/ str = <<>> /\ ParseAll(s, curl_easy_escape(str)) = s
           \/ ParseAll(s, curl_easy_escape(str)) = WithPart(s, part, str)
<1> DEFINE seqs == EscapedTexts(str)
           n == Len(str)
<1>1. /\ n \in Nat /\ Len(seqs) = n /\ seqs \in Seq(Text)
      /\ \A k \in 1 .. n : str[k] \in Char /\ seqs[k] = Escaped(str[k])
  <2>1. \A k \in 1 .. n : str[k] \in Char /\ seqs[k] = Escaped(str[k])
    BY DEF EscapedTexts
  <2> QED
    BY <2>1, EscapedTextsType
<1>2. curl_easy_escape(str) = FlattenSeq(seqs)
  BY DEF curl_easy_escape, EscapedTexts, Escaped
<1> HIDE DEF seqs, n
<1>3. PICK f \in [0 .. n -> Parsings] :
         /\ f[0] = s
         /\ \A k \in 1 .. n : f[k] = ParseAll(f[k - 1], seqs[k])
         /\ ParseAll(s, FlattenSeq(seqs)) = f[n]
  BY <1>1, ParseFlat
<1> DEFINE S == {k \in 0 .. n : Took(f[k], s, part, str, k)}
<1>4. 0 \in S
  BY <1>1, <1>3 DEF Took
<1>5. ASSUME NEW k \in 0 .. n - 1, Took(f[k], s, part, str, k)
      PROVE  Took(f[k + 1], s, part, str, k + 1) /\ f[k + 1] = WithPart(s, part, Part(f[k + 1], part))
  <2> DEFINE r == f[k]
             text == Part(r, part)
             ch == str[k + 1]
             more == Append(text, ch)
  <2>1. k + 1 \in 1 .. n /\ (k + 1) - 1 = k /\ k \in Nat
    BY <1>1
  <2>2. f[k + 1] = ParseAll(r, Escaped(ch)) /\ ch \in Char
    BY <1>1, <1>3, <2>1
  <2>3. /\ r \in Parsings /\ Awaits(r, part) /\ text \in Text /\ Len(text) = k
        /\ r = s \/ r = WithPart(s, part, text)
        /\ \A i \in 1 .. k : text[i] = str[i]
    BY <1>5, PartType DEF Took
  <2> HIDE DEF r, text, ch
  <2>4. f[k + 1] = WithPart(r, part, more)
    BY <2>2, <2>3, EscapedParsed DEF text
  <2>5. more \in Text /\ Len(more) = k + 1 /\ \A i \in 1 .. k + 1 : more[i] = str[i]
    <3>1. ch \in Int
      BY <2>2 DEF Char
    <3>2. more \in Text /\ Len(more) = k + 1 /\ more[k + 1] = ch /\ \A i \in 1 .. k : more[i] = text[i]
      BY <2>1, <2>3, <3>1 DEF Text
    <3> QED
      BY <2>1, <2>3, <3>2 DEF ch
  <2> HIDE DEF more
  <2>6. f[k + 1] = WithPart(s, part, more)
    BY <2>3, <2>4, <2>5, PartTwice
  <2>7. f[k + 1] \in Parsings /\ Awaits(f[k + 1], part) /\ Part(f[k + 1], part) = more
    BY <2>5, <2>6, WithPartType
  <2> QED
    BY <2>5, <2>6, <2>7 DEF Took
<1>6. 0 .. n \subseteq S
  <2>1. \A k \in 0 .. n - 1 : k \in S => k + 1 \in S
    BY <1>1, <1>5
  <2> HIDE DEF S
  <2> QED
    BY <1>1, <1>4, <2>1, CountingUp
<1>7. CASE n = 0
  <2>1. str = <<>>
    BY <1>7 DEF n
  <2> QED
    BY <1>2, <1>3, <1>7, <2>1
<1>8. CASE n # 0
  <2>1. n - 1 \in 0 .. n - 1 /\ n - 1 \in 0 .. n /\ (n - 1) + 1 = n
    BY <1>1, <1>8
  <2>2. Took(f[n], s, part, str, n) /\ f[n] = WithPart(s, part, Part(f[n], part))
    <3>1. Took(f[n - 1], s, part, str, n - 1)
      BY <1>6, <2>1
    <3> QED
      BY <1>5, <2>1, <3>1
  <2>3. Part(f[n], part) = str
    <3> DEFINE text == Part(f[n], part)
    <3>0. f[n] \in Parsings /\ Len(text) = n /\ \A i \in 1 .. n : text[i] = str[i]
      BY <2>2 DEF Took
    <3>1. text \in Seq(Int) /\ Len(text) = Len(str) /\ \A i \in 1 .. Len(text) : text[i] = str[i]
      BY <3>0, PartType DEF n, Text
    <3>2. str \in Seq(Int)
      BY CharText DEF Text
    <3> HIDE DEF text
    <3>3. text = str
      BY <3>1, <3>2, SeqEqual
    <3> QED
      BY <3>3 DEF text
  <2> QED
    BY <1>2, <1>3, <2>2, <2>3
<1> QED
  BY <1>7, <1>8

-----------------------------------------------------------------------------
(* A pair of a form, and the whole of it.                                  *)
EncodedPair(pair) == curl_easy_escape(pair[1]) \o <<EqualsSign>> \o curl_easy_escape(pair[2]) \o <<Ampersand>>

(* No pair is begun. *)
Between(s) == s.at = "none" /\ s.key = <<>> /\ s.value = <<>>

LEMMA PairParsed ==
    ASSUME NEW s \in Parsings, Between(s), NEW pair \in Seq(Char) \X Seq(Char)
    PROVE  /\ EncodedPair(pair) \in Text
           /\ Between(ParseAll(s, EncodedPair(pair)))
           /\ ParseAll(s, EncodedPair(pair)).form = s.form
           /\ ParseAll(s, EncodedPair(pair)).pairs = Append(s.pairs, pair)
<1> DEFINE k == pair[1]
           v == pair[2]
           ek == curl_easy_escape(k)
           ev == curl_easy_escape(v)
           a == ParseAll(s, ek)
           b == Parse(a, EqualsSign)
           c == ParseAll(b, ev)
           d == Parse(c, Ampersand)
<1>1. k \in Seq(Char) /\ v \in Seq(Char) /\ pair = <<k, v>>
  OBVIOUS
<1> HIDE DEF k, v
<1>2. ek \in Text /\ ev \in Text /\ k \in Text /\ v \in Text
  BY <1>1, EscapedText, CharText
<1>3. /\ a \in Parsings /\ a.at \in {"none", "key"} /\ a.key = k /\ a.value = <<>>
      /\ a.form = s.form /\ a.pairs = s.pairs
  <2>1. Awaits(s, "key") /\ Part(s, "key") = <<>>
    BY DEF Between, Awaits, Part
  <2>2. (k = <<>> /\ a = s) \/ a = WithPart(s, "key", k)
    BY <1>1, <2>1, EscapeParsed
  <2>3. CASE k = <<>> /\ a = s
    BY <2>3 DEF Between
  <2>4. CASE a = WithPart(s, "key", k)
    <3>1. a = [s EXCEPT !.at = "key", !.key = k]
      BY <2>4 DEF WithPart
    <3> HIDE DEF a
    <3> QED
      BY <1>2, <3>1 DEF Between, Parsings
  <2> QED
    BY <2>2, <2>3, <2>4
<1> HIDE DEF a
<1>4. b = [a EXCEPT !.at = "value"]
  <2>1. b = InPair(a, EqualsSign)
    BY <1>3, Separators DEF Parse
  <2> QED
    BY <1>3, <2>1, Separators DEF InPair
<1>5. /\ b \in Parsings /\ b.at = "value" /\ b.key = k /\ b.value = <<>>
      /\ b.form = s.form /\ b.pairs = s.pairs
  <2> HIDE DEF b
  <2> QED
    BY <1>3, <1>4 DEF Parsings
<1> HIDE DEF b
<1>6. /\ c \in Parsings /\ c.at = "value" /\ c.key = k /\ c.value = v
      /\ c.form = s.form /\ c.pairs = s.pairs
  <2>1. Awaits(b, "value") /\ Part(b, "value") = <<>>
    BY <1>5 DEF Awaits, Part
  <2>2. (v = <<>> /\ c = b) \/ c = WithPart(b, "value", v)
    BY <1>1, <1>5, <2>1, EscapeParsed
  <2>3. CASE v = <<>> /\ c = b
    BY <1>5, <2>3
  <2>4. CASE c = WithPart(b, "value", v)
    <3>1. c = [b EXCEPT !.at = "value", !.value = v]
      BY <2>4 DEF WithPart
    <3> HIDE DEF c
    <3> QED
      BY <1>2, <1>5, <3>1 DEF Parsings
  <2> QED
    BY <2>2, <2>3, <2>4
<1> HIDE DEF c
<1>7. d = EndPair(c)
  <2>1. d = InPair(c, Ampersand)
    BY <1>6, Separators DEF Parse
  <2> QED
    BY <2>1 DEF InPair
<1>8. Between(d) /\ d.form = s.form /\ d.pairs = Append(s.pairs, pair)
  <2>1. d = [c EXCEPT !.pairs = Append(c.pairs, <<c.key, c.value>>), !.at = "none", !.key = <<>>, !.value = <<>>]
    BY <1>6, <1>7 DEF EndPair
  <2> HIDE DEF d
  <2>2. d.at = "none" /\ d.key = <<>> /\ d.value = <<>> /\ d.form = c.form /\ d.pairs = Append(c.pairs, <<c.key, c.value>>)
    BY <1>6, <2>1 DEF Parsings
  <2> QED
    BY <1>1, <1>6, <2>2 DEF Between
<1>9. ParseAll(a, <<EqualsSign>>) = b /\ ParseAll(c, <<Ampersand>>) = d /\ <<EqualsSign>> \in Text /\ <<Ampersand>> \in Text
  <2>1. ParseAll(a, <<EqualsSign>>) = b
    BY <1>3, Separators, ParseOne DEF b
  <2>2. ParseAll(c, <<Ampersand>>) = d
    BY <1>6, Separators, ParseOne
  <2>3. <<EqualsSign>> \in Text /\ <<Ampersand>> \in Text
    BY Separators DEF Text
  <2> QED
    BY <2>1, <2>2, <2>3
<1> HIDE DEF ek, ev, d
<1>10. /\ ek \o <<EqualsSign>> \in Text
       /\ ParseAll(s, ek \o <<EqualsSign>>) = b
  BY <1>2, <1>9, ParseJoined DEF a
<1>11. /\ ek \o <<EqualsSign>> \o ev \in Text
       /\ ParseAll(s, ek \o <<EqualsSign>> \o ev) = c
  BY <1>2, <1>10, ParseJoined DEF c
<1>12. /\ ek \o <<EqualsSign>> \o ev \o <<Ampersand>> \in Text
       /\ ParseAll(s, ek \o <<EqualsSign>> \o ev \o <<Ampersand>>) = d
  BY <1>9, <1>11, ParseJoined
<1>13. EncodedPair(pair) = ek \o <<EqualsSign>> \o ev \o <<Ampersand>>
  BY DEF EncodedPair, ek, ev, k, v
<1> QED
  BY <1>8, <1>12, <1>13

Pairs == Seq(Char) \X Seq(Char)
EncodedPairs(params) == [i \in DOMAIN params |-> EncodedPair(params[i])]

(* r is s, but that it has the first k pairs of params behind its own. *)
TookPairs(r, s, params, k) ==
    /\ r \in Parsings /\ Between(r) /\ r.form = s.form
    /\ Len(r.pairs) = Len(s.pairs) + k
    /\ \A i \in 1 .. Len(s.pairs) : r.pairs[i] = s.pairs[i]
    /\ \A i \in 1 .. k : r.pairs[Len(s.pairs) + i] = params[i]

LEMMA EncodedPairType == ASSUME NEW pair \in Pairs PROVE EncodedPair(pair) \in Text
<1> DEFINE s == [form |-> TRUE, at |-> "none", pairs |-> <<>>, key |-> <<>>, value |-> <<>>]
<1>1. s \in Parsings /\ Between(s)
  BY DEF Parsings, Text, Between
<1> HIDE DEF s
<1> QED
  BY <1>1, PairParsed DEF Pairs

LEMMA PairsJoined ==
    ASSUME NEW p \in Seq(Text \X Text), NEW q \in Seq(Text \X Text)
    PROVE  /\ p \o q \in Seq(Text \X Text) /\ Len(p \o q) = Len(p) + Len(q)
           /\ \A i \in 1 .. Len(p) : (p \o q)[i] = p[i]
           /\ \A i \in Len(p) + 1 .. Len(p) + Len(q) : (p \o q)[i] = q[i - Len(p)]
OBVIOUS

LEMMA EncodedPairsType ==
    ASSUME NEW params \in Seq(Pairs)
    PROVE  /\ EncodedPairs(params) \in Seq(Text)
           /\ Len(EncodedPairs(params)) = Len(params)
           /\ makeUrlencodedForm(params) = FlattenSeq(EncodedPairs(params))
<1> DEFINE seqs == [i \in DOMAIN params |-> EncodedPair(params[i])]
<1>1. seqs \in [1 .. Len(params) -> Text] /\ Len(params) \in Nat
  BY EncodedPairType
<1>2. seqs \in Seq(Text)
  BY <1>1, SeqMade
<1>3. Len(seqs) = Len(params)
  OBVIOUS
<1>4. makeUrlencodedForm(params) = FlattenSeq(seqs)
  BY DEF makeUrlencodedForm, EncodedPair
<1> QED
  BY <1>2, <1>3, <1>4 DEF EncodedPairs

LEMMA PairType == ASSUME NEW pair \in Pairs PROVE pair \in Text \X Text
<1>1. pair[1] \in Seq(Char) /\ pair[2] \in Seq(Char) /\ pair = <<pair[1], pair[2]>>
  BY DEF Pairs
<1>2. pair[1] \in Text /\ pair[2] \in Text
  BY <1>1, CharText
<1> QED
  BY <1>1, <1>2

LEMMA PairAppended ==
    ASSUME NEW q \in Seq(Text \X Text), NEW e \in Text \X Text
    PROVE  /\ Append(q, e) \in Seq(Text \X Text) /\ Len(Append(q, e)) = Len(q) + 1
           /\ Append(q, e)[Len(q) + 1] = e /\ \A i \in 1 .. Len(q) : Append(q, e)[i] = q[i]
OBVIOUS

LEMMA FormParsed ==
    ASSUME NEW s \in Parsings, Between(s), NEW params \in Seq(Pairs)
    PROVE  /\ makeUrlencodedForm(params) \in Text
           /\ Between(ParseAll(s, makeUrlencodedForm(params)))
           /\ ParseAll(s, makeUrlencodedForm(params)).pairs = s.pairs \o params
<1> DEFINE seqs == EncodedPairs(params)
           n == Len(params)
           m == Len(s.pairs)
           form == makeUrlencodedForm(params)
<1>1. /\ n \in Nat /\ m \in Nat /\ Len(seqs) = n /\ seqs \in Seq(Text) /\ form = FlattenSeq(seqs)
      /\ \A k \in 1 .. n : params[k] \in Pairs /\ seqs[k] = EncodedPair(params[k])
  <2>1. \A k \in 1 .. n : params[k] \in Pairs /\ seqs[k] = EncodedPair(params[k])
    BY DEF EncodedPairs
  <2>2. m \in Nat /\ n \in Nat
    BY DEF Parsings
  <2> QED
    BY <2>1, <2>2, EncodedPairsType
<1> HIDE DEF seqs, n, m, form
<1>2. PICK f \in [0 .. n -> Parsings] :
         /\ f[0] = s
         /\ \A k \in 1 .. n : f[k] = ParseAll(f[k - 1], seqs[k])
         /\ FlattenSeq(seqs) \in Text
         /\ ParseAll(s, FlattenSeq(seqs)) = f[n]
  BY <1>1, ParseFlat
<1> DEFINE S == {k \in 0 .. n : TookPairs(f[k], s, params, k)}
<1>3. 0 \in S
  <2>1. 0 \in 0 .. n /\ m = m + 0
    BY <1>1
  <2> QED
    BY <1>2, <2>1 DEF TookPairs, m
<1>4. ASSUME NEW k \in 0 .. n - 1, TookPairs(f[k], s, params, k)
      PROVE  TookPairs(f[k + 1], s, params, k + 1)
  <2> DEFINE r == f[k]
             t == f[k + 1]
             pair == params[k + 1]
  <2>1. k + 1 \in 1 .. n /\ (k + 1) - 1 = k /\ k \in Nat /\ k + 1 \in 0 .. n
    BY <1>1
  <2>2. t = ParseAll(r, EncodedPair(pair)) /\ pair \in Pairs /\ t \in Parsings
    BY <1>1, <1>2, <2>1
  <2>3. /\ r \in Parsings /\ Between(r) /\ r.form = s.form /\ r.pairs \in Seq(Text \X Text)
        /\ Len(r.pairs) = m + k
        /\ \A i \in 1 .. m : r.pairs[i] = s.pairs[i]
        /\ \A i \in 1 .. k : r.pairs[m + i] = params[i]
    <3>1. r \in Parsings
      BY <1>4 DEF TookPairs
    <3>2. r.pairs \in Seq(Text \X Text)
      BY <3>1 DEF Parsings
    <3> QED
      BY <1>4, <3>1, <3>2 DEF TookPairs, m
  <2> HIDE DEF r, t
  <2>4. Between(t) /\ t.form = r.form /\ t.pairs = Append(r.pairs, pair)
    BY <2>2, <2>3, PairParsed DEF Pairs
  <2> DEFINE q == r.pairs
             u == t.pairs
  <2>5. /\ u = Append(q, pair) /\ q \in Seq(Text \X Text) /\ pair \in Text \X Text /\ Len(q) = m + k
        /\ \A i \in 1 .. m : q[i] = s.pairs[i]
        /\ \A i \in 1 .. k : q[m + i] = params[i]
    BY <2>2, <2>3, <2>4, PairType
  <2> HIDE DEF q, u, pair
  <2>6. /\ Len(u) = (m + k) + 1 /\ u[(m + k) + 1] = pair
        /\ \A i \in 1 .. m + k : u[i] = q[i]
    BY <2>5, PairAppended
  <2>7. \A i \in 1 .. m : u[i] = s.pairs[i]
    BY <1>1, <2>1, <2>5, <2>6
  <2>8. ASSUME NEW i \in 1 .. k + 1 PROVE u[m + i] = params[i]
    <3>1. CASE i = k + 1
      <4>1. m + i = (m + k) + 1
        BY <1>1, <2>1, <3>1
      <4> QED
        BY <2>6, <3>1, <4>1 DEF pair
    <3>2. CASE i # k + 1
      <4>1. i \in 1 .. k /\ m + i \in 1 .. m + k
        BY <1>1, <2>1, <3>2
      <4> QED
        BY <2>5, <2>6, <4>1
    <3> QED
      BY <3>1, <3>2
  <2>9. Len(u) = m + (k + 1)
    BY <1>1, <2>1, <2>6
  <2> QED
    BY <2>2, <2>3, <2>4, <2>7, <2>8, <2>9 DEF TookPairs, u, t, m
<1>5. 0 .. n \subseteq S
  <2>1. \A k \in 0 .. n - 1 : k \in S => k + 1 \in S
    BY <1>1, <1>4
  <2> HIDE DEF S
  <2> QED
    BY <1>1, <1>3, <2>1, CountingUp
<1>6. TookPairs(f[n], s, params, n)
  <2>1. n \in 0 .. n
    BY <1>1
  <2> QED
    BY <1>5, <2>1
<1>7. f[n].pairs = s.pairs \o params
  <2> DEFINE p == s.pairs
             q == f[n].pairs
  <2>1. /\ p \in Seq(Text \X Text) /\ q \in Seq(Text \X Text) /\ params \in Seq(Text \X Text)
        /\ Len(p) = m /\ Len(params) = n
    <3>1. Pairs \subseteq Text \X Text
      BY PairType
    <3>2. params \in Seq(Text \X Text)
      BY <3>1, SeqMonotonic
    <3>3. f[n] \in Parsings
      BY <1>6 DEF TookPairs
    <3>4. p \in Seq(Text \X Text) /\ q \in Seq(Text \X Text)
      BY <3>3 DEF Parsings
    <3> QED
      BY <3>2, <3>4 DEF m, n
  <2>2. Len(q) = m + n /\ (\A i \in 1 .. m : q[i] = p[i]) /\ \A i \in 1 .. n : q[m + i] = params[i]
    BY <1>6 DEF TookPairs, m
  <2> HIDE DEF p, q
  <2> DEFINE w == p \o params
  <2>3. /\ w \in Seq(Text \X Text) /\ Len(w) = m + n
        /\ \A i \in 1 .. m : w[i] = p[i]
        /\ \A i \in m + 1 .. m + n : w[i] = params[i - m]
    BY <2>1, PairsJoined
  <2> HIDE DEF w
  <2>4. ASSUME NEW i \in 1 .. m + n PROVE q[i] = w[i]
    <3>1. CASE i <= m
      <4>1. i \in 1 .. m
        BY <1>1, <3>1
      <4> QED
        BY <2>2, <2>3, <4>1
    <3>2. CASE i > m
      <4>1. i - m \in 1 .. n /\ i \in m + 1 .. m + n /\ m + (i - m) = i
        BY <1>1, <3>2
      <4>2. q[m + (i - m)] = params[i - m]
        BY <2>2, <4>1
      <4> QED
        BY <2>3, <4>1, <4>2
    <3> QED
      BY <1>1, <3>1, <3>2
  <2>5. q = w
    BY <2>1, <2>2, <2>3, <2>4, SeqEqual
  <2> QED
    BY <2>5 DEF q, w, p
<1> QED
  BY <1>1, <1>2, <1>6, <1>7 DEF TookPairs, form

-----------------------------------------------------------------------------
(* What the server has read of a URL: hash and mark tell whether it had a  *)
(* hash, or a question mark, yet.                                          *)
UrlRead(r, hash, mark) ==
    /\ r \in Parsings /\ r.form = FALSE
    /\ r.at \in {"path", "none"} => r.key = <<>> /\ r.value = <<>>
    /\ r.at = "fragment" <=> hash
    /\ ~hash => (r.at = "path" <=> ~mark)

LEMMA UrlStep ==
    ASSUME NEW r, NEW hash \in BOOLEAN, NEW mark \in BOOLEAN, UrlRead(r, hash, mark), NEW ch \in Int
    PROVE  UrlRead(Parse(r, ch), hash \/ ch = Hash, mark \/ ch = QuestionMark)
<1> DEFINE t == Parse(r, ch)
<1>1. t \in Parsings
  BY ParseType DEF UrlRead
<1>2. CASE r.at = "fragment"
  BY <1>2 DEF UrlRead, Parse
<1>3. CASE r.at # "fragment" /\ ch = Hash
  <2>1. t = [EndPair(r) EXCEPT !.at = "fragment"] /\ EndPair(r) \in Parsings /\ EndPair(r).form = FALSE
    BY <1>3, EndPairType DEF UrlRead, Parse
  <2> HIDE DEF t
  <2>2. t.at = "fragment" /\ t.form = FALSE
    BY <2>1 DEF Parsings
  <2> QED
    BY <1>1, <1>3, <2>2 DEF UrlRead, t
<1>4. CASE r.at = "path" /\ ch # Hash
  <2>1. t = IF ch = QuestionMark THEN [r EXCEPT !.at = "none"] ELSE r
    BY <1>4 DEF Parse
  <2> HIDE DEF t
  <2>2. t.form = FALSE /\ t.key = <<>> /\ t.value = <<>> /\ t.at = IF ch = QuestionMark THEN "none" ELSE "path"
    BY <1>4, <2>1 DEF UrlRead, Parsings
  <2> QED
    BY <1>1, <1>4, <2>2 DEF UrlRead, t
<1>5. CASE r.at \notin {"path", "fragment"} /\ ch # Hash
  <2>1. t = InPair(r, ch)
    BY <1>5 DEF Parse
  <2>2. t.form = FALSE /\ t.at \notin {"path", "fragment"} /\ (t.at = "none" => t.key = <<>> /\ t.value = <<>>)
    <3>1. CASE ch = Ampersand
      <4>1. t = EndPair(r)
        BY <2>1, <3>1 DEF InPair
      <4> HIDE DEF t
      <4>2. CASE r.at \in {"key", "value"}
        BY <4>1, <4>2 DEF EndPair, UrlRead, Parsings
      <4>3. CASE r.at = "none"
        BY <4>1, <4>3 DEF EndPair, UrlRead, Parsings
      <4> QED
        BY <1>5, <4>2, <4>3 DEF UrlRead, Parsings
    <3>2. CASE ch # Ampersand
      <4>1. \/ t = [r EXCEPT !.value = Unescaped(r.value, ch)] /\ r.at = "value"
            \/ t = [r EXCEPT !.at = "value"]
            \/ t = [r EXCEPT !.at = "key", !.key = Unescaped(r.key, ch)]
        BY <2>1, <3>2 DEF InPair
      <4> HIDE DEF t
      <4> QED
        BY <1>5, <4>1 DEF UrlRead, Parsings
    <3> QED
      BY <3>1, <3>2
  <2> HIDE DEF t
  <2> QED
    BY <1>1, <1>5, <2>2 DEF UrlRead, t
<1> QED
  BY <1>2, <1>3, <1>4, <1>5

Has(str, k, ch) == \E i \in 1 .. k : str[i] = ch

LEMMA UrlParsed ==
    ASSUME NEW url \in Seq(Char)
    PROVE  UrlRead(ParseAll(Start(FALSE), url), Hash \in ToSet(url), QuestionMark \in ToSet(url))
<1> DEFINE s == Start(FALSE)
           n == Len(url)
           hash(k) == Has(url, k, Hash)
           mark(k) == Has(url, k, QuestionMark)
<1>1. /\ s \in Parsings /\ url \in Text /\ n \in Nat
      /\ s.form = FALSE /\ s.at = "path" /\ s.key = <<>> /\ s.value = <<>>
  <2>1. <<>> \in Text /\ <<>> \in Seq(Text \X Text)
    BY DEF Text
  <2> QED
    BY <2>1, CharText DEF Start, Parsings
<1> HIDE DEF s, n
<1>2. PICK f : IsParse(f, s, url)
  BY <1>1, ParseIs
<1>3. ParseAll(s, url) = f[n]
  BY <1>1, <1>2, ParseIs DEF n
<1>4. f[0] = s /\ \A k \in 1 .. n : f[k] = Parse(f[k - 1], url[k])
  BY <1>2 DEF IsParse, n
<1> DEFINE S == {k \in 0 .. n : UrlRead(f[k], hash(k), mark(k))}
<1>5. 0 \in S
  <2>1. ~hash(0) /\ ~mark(0) /\ 0 \in 0 .. n
    BY <1>1 DEF Has
  <2> HIDE DEF hash, mark
  <2> QED
    BY <1>1, <1>4, <2>1 DEF UrlRead
<1>6. ASSUME NEW k \in 0 .. n - 1, UrlRead(f[k], hash(k), mark(k))
      PROVE  UrlRead(f[k + 1], hash(k + 1), mark(k + 1))
  <2> DEFINE ch == url[k + 1]
  <2>1. k + 1 \in 1 .. n /\ (k + 1) - 1 = k /\ ch \in Int
    BY <1>1 DEF n, Text
  <2>2. f[k + 1] = Parse(f[k], ch)
    BY <1>4, <2>1
  <2>3. \A c : Has(url, k + 1, c) = (Has(url, k, c) \/ ch = c)
    <3>1. \A i \in 1 .. k + 1 : i \in 1 .. k \/ i = k + 1
      BY <1>1
    <3>2. \A i \in 1 .. k : i \in 1 .. k + 1
      BY <1>1
    <3>3. k + 1 \in 1 .. k + 1
      BY <1>1
    <3> QED
      BY <3>1, <3>2, <3>3 DEF Has
  <2>4. hash(k + 1) = (hash(k) \/ ch = Hash) /\ mark(k + 1) = (mark(k) \/ ch = QuestionMark)
    BY <2>3
  <2>5. hash(k) \in BOOLEAN /\ mark(k) \in BOOLEAN
    BY DEF Has
  <2> HIDE DEF hash, mark, ch
  <2>6. UrlRead(Parse(f[k], ch), hash(k) \/ ch = Hash, mark(k) \/ ch = QuestionMark)
    BY <1>6, <2>1, <2>5, UrlStep
  <2> QED
    BY <2>2, <2>4, <2>6
<1>7. UrlRead(f[n], hash(n), mark(n))
  <2>1. \A k \in 0 .. n - 1 : k \in S => k + 1 \in S
    BY <1>1, <1>6
  <2> HIDE DEF S
  <2>2. 0 .. n \subseteq S
    BY <1>1, <1>5, <2>1, CountingUp
  <2>3. n \in 0 .. n
    BY <1>1
  <2> QED
    BY <2>2, <2>3 DEF S
<1>8. \A c : Has(url, n, c) <=> c \in ToSet(url)
  <2>1. DOMAIN url = 1 .. n
    BY DEF n
  <2>2. ToSet(url) = {url[i] : i \in 1 .. n}
    BY <2>1 DEF ToSet
  <2> QED
    BY <2>2 DEF Has
<1>9. UrlRead(f[n], Hash \in ToSet(url), QuestionMark \in ToSet(url))
  BY <1>7, <1>8 DEF UrlRead
<1> QED
  BY <1>3, <1>9 DEF s

(* A fragment is not read. *)
LEMMA FragmentParsed ==
    ASSUME NEW r \in Parsings, r.at = "fragment", NEW str \in Text
    PROVE  ParseAll(r, str) = r
<1> DEFINE g == [k \in 0 .. Len(str) |-> r]
<1>1. Len(str) \in Nat
  BY DEF Text
<1>2. \A ch : Parse(r, ch) = r
  BY DEF Parse
<1>3. g \in [0 .. Len(str) -> Parsings] /\ g[0] = r /\ \A k \in 1 .. Len(str) : g[k] = r /\ g[k - 1] = r
  BY <1>1
<1>4. g[Len(str)] = r
  BY <1>1
<1> HIDE DEF g
<1>5. IsParse(g, r, str)
  BY <1>2, <1>3 DEF IsParse
<1> QED
  BY <1>4, <1>5, ParseIs

(* Parameters are read behind those of the URL, but not in a fragment. *)
LEMMA QueryParsed ==
    ASSUME NEW url \in Seq(Char), NEW params \in Seq(Pairs)
    PROVE  Query(appendUrlParams(params, url)) = Query(url) \o IF Hash \in ToSet(url) THEN <<>> ELSE params
<1> DEFINE s == Start(FALSE)
           u == ParseAll(s, url)
           form == makeUrlencodedForm(params)
           sep == IF QuestionMark \in ToSet(url) THEN Ampersand ELSE QuestionMark
           v == Parse(u, sep)
           all == appendUrlParams(params, url)
<1>1. s \in Parsings /\ url \in Text /\ params \in Seq(Text \X Text)
  <2>1. <<>> \in Text /\ <<>> \in Seq(Text \X Text)
    BY DEF Text
  <2>2. Pairs \subseteq Text \X Text
    BY PairType
  <2>3. params \in Seq(Text \X Text)
    BY <2>2, SeqMonotonic
  <2> QED
    BY <2>1, <2>3, CharText DEF Start, Parsings
<1> HIDE DEF s
<1>2. u \in Parsings /\ UrlRead(u, Hash \in ToSet(url), QuestionMark \in ToSet(url))
  BY <1>1, ParseAllType, UrlParsed DEF s
<1>3. Query(url) = EndPair(u).pairs /\ Query(all) = EndPair(ParseAll(s, all)).pairs
  BY DEF Query, s
<1>4. EndPair(u) \in Parsings /\ EndPair(u).pairs \in Seq(Text \X Text)
  BY <1>2, EndPairType DEF Parsings
<1>5. CASE params = <<>>
  <2>1. all = url
    BY <1>5 DEF appendUrlParams
  <2>2. EndPair(u).pairs \o <<>> = EndPair(u).pairs
    BY <1>4, ConcatEmptySeq
  <2> QED
    BY <1>3, <1>5, <2>1, <2>2
<1>6. CASE params # <<>>
  <2>1. all = url \o <<sep>> \o form
    BY <1>6 DEF appendUrlParams
  <2>2. form \in Text /\ sep \in Int /\ <<sep>> \in Text
    <3>1. form \in Text
      <4> DEFINE e == [form |-> TRUE, at |-> "none", pairs |-> <<>>, key |-> <<>>, value |-> <<>>]
      <4>1. e \in Parsings /\ Between(e)
        BY DEF Parsings, Text, Between
      <4> HIDE DEF e
      <4> QED
        BY <4>1, FormParsed
    <3>2. sep \in Int
      BY Separators
    <3> QED
      BY <3>1, <3>2 DEF Text
  <2> HIDE DEF form, sep, u, all
  <2>3. url \o <<sep>> \in Text /\ ParseAll(s, url \o <<sep>>) = v
    <3>1. ParseAll(u, <<sep>>) = v
      BY <1>2, <2>2, ParseOne
    <3> QED
      BY <1>1, <2>2, <3>1, ParseJoined DEF u
  <2>4. v \in Parsings
    BY <1>2, <2>2, ParseType
  <2> HIDE DEF v
  <2>5. ParseAll(s, all) = ParseAll(v, form)
    BY <1>1, <2>1, <2>2, <2>3, ParseJoined
  <2>6. CASE Hash \in ToSet(url)
    <3>1. u.at = "fragment"
      BY <1>2, <2>6 DEF UrlRead
    <3>2. v = u
      BY <3>1 DEF v, Parse
    <3>3. ParseAll(v, form) = u
      BY <1>2, <2>2, <3>1, <3>2, FragmentParsed
    <3>4. EndPair(u).pairs \o <<>> = EndPair(u).pairs
      BY <1>4, ConcatEmptySeq
    <3> QED
      BY <1>3, <2>5, <2>6, <3>3, <3>4 DEF all
  <2>7. CASE Hash \notin ToSet(url)
    <3>1. Between(v) /\ v.pairs = EndPair(u).pairs
      <4>1. /\ u.at # "fragment" /\ u.form = FALSE
            /\ u.at \in {"path", "none"} => u.key = <<>> /\ u.value = <<>>
            /\ u.at = "path" <=> QuestionMark \notin ToSet(url)
        BY <1>2, <2>7 DEF UrlRead
      <4>2. CASE QuestionMark \in ToSet(url)
        <5>1. sep = Ampersand /\ u.at \in {"none", "key", "value"}
          BY <1>2, <4>1, <4>2 DEF sep, Parsings
        <5>2. v = EndPair(u)
          BY <4>1, <5>1, Separators DEF v, Parse, InPair
        <5>3. CASE u.at = "none"
          BY <4>1, <5>2, <5>3 DEF Between, EndPair
        <5>4. CASE u.at \in {"key", "value"}
          <6>1. v = [u EXCEPT !.pairs = Append(u.pairs, <<u.key, u.value>>), !.at = "none", !.key = <<>>, !.value = <<>>]
            BY <5>2, <5>4 DEF EndPair
          <6>2. Between(v)
            BY <1>2, <6>1 DEF Between, Parsings
          <6> QED
            BY <5>2, <6>2
        <5> QED
          BY <5>1, <5>3, <5>4
      <4>3. CASE QuestionMark \notin ToSet(url)
        <5>1. sep = QuestionMark /\ u.at = "path" /\ EndPair(u) = u
          BY <4>1, <4>3 DEF sep, EndPair
        <5>2. v = [u EXCEPT !.at = "none"]
          BY <5>1, Separators DEF v, Parse
        <5> QED
          BY <1>2, <4>1, <5>1, <5>2 DEF Between, Parsings
      <4> QED
        BY <4>2, <4>3
    <3>2. /\ Between(ParseAll(v, form))
          /\ ParseAll(v, form).pairs = v.pairs \o params
      BY <2>4, <3>1, FormParsed DEF form
    <3>3. EndPair(ParseAll(v, form)) = ParseAll(v, form)
      BY <3>2 DEF Between, EndPair
    <3> QED
      BY <1>3, <2>5, <2>7, <3>1, <3>2, <3>3 DEF all
  <2> QED
    BY <2>6, <2>7
<1> QED
  BY <1>5, <1>6

LEMMA FormIsParsed ==
    ASSUME NEW data \in Seq(Pairs)
    PROVE  Form(makeUrlencodedForm(data)) = data
<1> DEFINE s == Start(TRUE)
           r == ParseAll(s, makeUrlencodedForm(data))
<1>1. s \in Parsings /\ Between(s) /\ s.pairs = <<>>
  BY DEF Start, Parsings, Text, Between
<1> HIDE DEF s
<1>2. Between(r) /\ r.pairs = <<>> \o data
  BY <1>1, FormParsed
<1>3. EndPair(r) = r
  BY <1>2 DEF Between, EndPair
<1>4. <<>> \o data = data
  BY ConcatEmptySeq
<1>5. Form(makeUrlencodedForm(data)) = EndPair(r).pairs
  BY DEF Form, s
<1> QED
  BY <1>2, <1>3, <1>4, <1>5

-----------------------------------------------------------------------------
(* What is out is made of what was asked.                                  *)
MadeOf(request) ==
    LET wanted == request.asked IN
    /\ wanted.url \in Seq(Char) /\ wanted.params \in Seq(Pairs)
    /\ request.url = appendUrlParams(wanted.params, wanted.url)
    /\ \/ wanted.data \in Seq(Pairs) /\ wanted.body = makeUrlencodedForm(wanted.data)
       \/ wanted.data = <<>> /\ wanted.body = <<>>

Made == \A request \in sent : MadeOf(request)

LEMMA PerformMakes ==
    ASSUME NEW c, NEW options, NEW wanted, curl_easy_perform(c, options, wanted),
           wanted.url \in Seq(Char), wanted.params \in Seq(Pairs),
           \/ wanted.data \in Seq(Pairs) /\ wanted.body = makeUrlencodedForm(wanted.data)
           \/ wanted.data = <<>> /\ wanted.body = <<>>
    PROVE  Made'
<1> DEFINE request == [client |-> c, asked |-> wanted, options |-> options, posted |-> handle[c].post,
                       url |-> appendUrlParams(wanted.params, wanted.url)]
<1>1. sent' = {request}
  BY DEF curl_easy_perform
<1>2. request.asked = wanted /\ request.url = appendUrlParams(wanted.params, wanted.url)
  OBVIOUS
<1> HIDE DEF request
<1>3. MadeOf(request)
  BY <1>2 DEF MadeOf
<1> QED
  BY <1>1, <1>3 DEF Made, MadeOf

LEMMA RequestMakes == ASSUME NEW c, Request(c) PROVE Made'
<1>1. Urls \subseteq Seq(Char) /\ Maps \subseteq Seq(Pairs)
  BY HttpAssumption DEF Pairs
<1>2. ASSUME NEW url \in Urls, NEW params \in Maps, NEW headers, methodGET(c, url, params, headers) PROVE Made'
  <2> DEFINE options == SetOptions(handle[c], headers)
             wanted == [post |-> FALSE, url |-> url, params |-> params, headers |-> headers, data |-> <<>>, body |-> <<>>]
  <2>1. curl_easy_perform(c, options, wanted)
    BY <1>2 DEF methodGET
  <2>2. wanted.url = url /\ wanted.params = params /\ wanted.data = <<>> /\ wanted.body = <<>>
    OBVIOUS
  <2> HIDE DEF options, wanted
  <2> QED
    BY <1>1, <2>1, <2>2, PerformMakes
<1>3. ASSUME NEW url \in Urls, NEW params \in Maps, NEW headers, NEW data \in Maps,
             methodPost(c, url, params, headers, data)
      PROVE  Made'
  <2> DEFINE options == [SetOptions(handle[c], headers) EXCEPT !.post = TRUE, !.fields = "own"]
             wanted == [post |-> TRUE, url |-> url, params |-> params, headers |-> headers, data |-> data,
                        body |-> makeUrlencodedForm(data)]
  <2>1. curl_easy_perform(c, options, wanted)
    BY <1>3 DEF methodPost
  <2>2. wanted.url = url /\ wanted.params = params /\ wanted.data = data /\ wanted.body = makeUrlencodedForm(data)
    OBVIOUS
  <2> HIDE DEF options, wanted
  <2>3. wanted.data \in Seq(Pairs) /\ wanted.body = makeUrlencodedForm(wanted.data)
    BY <1>1, <2>2
  <2> QED
    BY <1>1, <2>1, <2>2, <2>3, PerformMakes
<1> QED
  BY <1>2, <1>3 DEF Request

(* For any URLs and parameters of any characters, what the server reads of *)
(* the URL is what the URL had and then the parameters, in their order,    *)
(* or none of them behind a fragment, and of a form what was put into it   *)
(* (httpclient.cpp:51-86,101-190).                                         *)
THEOREM ParamsAlwaysArrive == HttpSpec => []ParamsArrive
<1>1. HttpInit => Made
  BY DEF HttpInit, Made
<1>2. Made /\ [HttpNext]_objects => Made'
  <2> SUFFICES ASSUME Made, [HttpNext]_objects PROVE Made'
    OBVIOUS
  <2>1. ASSUME sent' = sent PROVE Made'
    BY <2>1 DEF Made, MadeOf
  <2>2. ASSUME NEW c, Construct(c) \/ Destroy(c) PROVE Made'
    BY <2>1, <2>2 DEF Construct, Destroy
  <2>3. ASSUME Return PROVE Made'
    BY <2>3 DEF Return, Made
  <2> QED
    BY <2>1, <2>2, <2>3, RequestMakes DEF HttpNext, objects
<1>3. Made => ParamsArrive
  <2> SUFFICES ASSUME NEW request \in sent, MadeOf(request)
               PROVE  LET wanted == request.asked IN
                      /\ Query(request.url) = Query(wanted.url) \o IF Hash \in ToSet(wanted.url) THEN <<>> ELSE wanted.params
                      /\ Form(wanted.body) = wanted.data
    BY DEF Made, ParamsArrive
  <2> DEFINE wanted == request.asked
  <2>1. /\ wanted.url \in Seq(Char) /\ wanted.params \in Seq(Pairs)
        /\ request.url = appendUrlParams(wanted.params, wanted.url)
        /\ \/ wanted.data \in Seq(Pairs) /\ wanted.body = makeUrlencodedForm(wanted.data)
           \/ wanted.data = <<>> /\ wanted.body = <<>>
    BY DEF MadeOf
  <2> HIDE DEF wanted
  <2>2. Query(request.url) = Query(wanted.url) \o IF Hash \in ToSet(wanted.url) THEN <<>> ELSE wanted.params
    BY <2>1, QueryParsed
  <2>3. Form(<<>>) = <<>>
    <3>1. Start(TRUE) \in Parsings
      BY DEF Start, Parsings, Text
    <3>2. ParseAll(Start(TRUE), <<>>) = Start(TRUE)
      BY <3>1, ParseNothing
    <3>3. EndPair(Start(TRUE)).pairs = <<>>
      BY DEF EndPair, Start
    <3> QED
      BY <3>2, <3>3 DEF Form
  <2>4. Form(wanted.body) = wanted.data
    BY <2>1, <2>3, FormIsParsed
  <2> QED
    BY <2>2, <2>4 DEF wanted
<1> QED
  BY <1>1, <1>2, <1>3, PTL DEF HttpSpec
=============================================================================
