--------------------------- MODULE MemoryIncrease ---------------------------
(***************************************************************************)
(* src/测试/memory_increase.c: a program that allocates COUNT blocks and   *)
(* frees them, and a handler of SIGINT that frees what it finds and exits. *)
(*                                                                         *)
(* malloc and free are calls with an inside: a handler that starts there   *)
(* calls free in the middle of another call, which C leaves undefined.     *)
(* SIGINT is blocked while its handler runs; SIGTERM, for which the        *)
(* handler has a case, is never given to it and ends the program.          *)
(***************************************************************************)
EXTENDS Integers

CONSTANT COUNT

ASSUME MemoryAssumption == COUNT \in Nat \ {0}

Blocks == 1 .. COUNT
NULL == 0

VARIABLES
    pc,     \* the call or statement that is next, or the call that is going on
    i,      \* the loop variable of main
    p,      \* the array of pointers: block b is the one allocated for p[b]
    heap,   \* what was done with each block
    h,      \* the loop variable of the handler
    came    \* where main was when SIGINT came

memory_vars == <<pc, i, p, heap, h, came>>

Main == {"signal", "malloc", "in_malloc", "store", "memset", "free", "in_free", "clear"}
Handler == {"handler", "handler_clear"}
Ended == {"exited", "crashed", "killed"}

MemoryTypeOK ==
    /\ pc \in Main \cup Handler \cup Ended
    /\ i \in Blocks
    /\ p \in [Blocks -> {NULL} \cup Blocks]
    /\ heap \in [Blocks -> {"none", "held", "free", "twice"}]
    /\ h \in 1 .. COUNT + 1
    /\ came \in Main \cup {"never"}

MemoryInit ==
    /\ pc = "signal"
    /\ i = 1
    /\ p = [b \in Blocks |-> NULL]
    /\ heap = [b \in Blocks |-> "none"]
    /\ h = 1
    /\ came = "never"

Goto(l) == pc' = l

-----------------------------------------------------------------------------
(* main: the first loop allocates, the second one frees.  Without a        *)
(* handler, when signal() fails, there is nothing to do.                   *)
Install ==
    /\ pc = "signal"
    /\ Goto("malloc") \/ Goto("exited")
    /\ UNCHANGED <<i, p, heap, h, came>>

CallMalloc ==
    /\ pc = "malloc"
    /\ Goto("in_malloc")
    /\ UNCHANGED <<i, p, heap, h, came>>

(* It returns a block, or a null pointer that is stored and then written   *)
(* through.                                                                *)
MallocReturns ==
    /\ pc = "in_malloc"
    /\ \/ Goto("store") /\ heap' = [heap EXCEPT ![i] = "held"]
       \/ Goto("memset") /\ UNCHANGED heap
    /\ UNCHANGED <<i, p, h, came>>

Store ==
    /\ pc = "store"
    /\ p' = [p EXCEPT ![i] = i]
    /\ Goto("memset")
    /\ UNCHANGED <<i, heap, h, came>>

Memset ==
    /\ pc = "memset"
    /\ IF p[i] = NULL THEN Goto("crashed") /\ UNCHANGED i
       ELSE IF i < COUNT THEN Goto("malloc") /\ i' = i + 1
       ELSE Goto("free") /\ i' = 1
    /\ UNCHANGED <<p, heap, h, came>>

NextBlock == IF i < COUNT THEN Goto("free") /\ i' = i + 1 ELSE Goto("exited") /\ UNCHANGED i

(* Freeing a block that is free already is undefined: the library aborts,  *)
(* or does not notice.                                                     *)
Free(b, l) ==
    /\ heap' = [heap EXCEPT ![b] = IF @ = "held" THEN "free" ELSE "twice"]
    /\ \/ Goto(l)
       \/ heap[b] # "held" /\ Goto("crashed")

(* No null pointer gets here: it was written through before.               *)
CallFree ==
    /\ pc = "free" /\ p[i] # NULL
    /\ Free(p[i], "in_free")
    /\ UNCHANGED <<i, p, h, came>>

FreeReturns ==
    /\ pc = "in_free"
    /\ Goto("clear")
    /\ UNCHANGED <<i, p, heap, h, came>>

(* Mutant: the pointer stays in the array. *)
KeepPointer ==
    /\ pc = "clear"
    /\ NextBlock
    /\ UNCHANGED <<p, heap, h, came>>

Clear ==
    /\ pc = "clear"
    /\ p' = [p EXCEPT ![i] = NULL]
    /\ NextBlock
    /\ UNCHANGED <<heap, h, came>>

-----------------------------------------------------------------------------
(* Signals.  Before the handler is installed SIGINT ends the program, as   *)
(* SIGTERM does at any time.                                               *)
SIGINT ==
    /\ pc \in Main \ {"signal"}
    /\ Goto("handler")
    /\ came' = pc
    /\ UNCHANGED <<i, p, heap, h>>

Killed ==
    /\ pc \notin Ended
    /\ Goto("killed")
    /\ UNCHANGED <<i, p, heap, h, came>>

HandlerFrees ==
    /\ pc = "handler" /\ h <= COUNT /\ p[h] # NULL
    /\ \/ Free(p[h], "handler_clear")
       \/ came \in {"in_malloc", "in_free"} /\ Goto("crashed") /\ UNCHANGED heap
    /\ UNCHANGED <<i, p, h, came>>

HandlerClears ==
    /\ pc = "handler_clear"
    /\ p' = [p EXCEPT ![h] = NULL]
    /\ h' = h + 1
    /\ Goto("handler")
    /\ UNCHANGED <<i, heap, came>>

HandlerSkips ==
    /\ pc = "handler" /\ h <= COUNT /\ p[h] = NULL
    /\ h' = h + 1
    /\ UNCHANGED <<pc, i, p, heap, came>>

HandlerExits ==
    /\ pc = "handler" /\ h > COUNT
    /\ Goto("exited")
    /\ UNCHANGED <<i, p, heap, h, came>>

Program ==
    \/ Install \/ CallMalloc \/ MallocReturns \/ Store \/ Memset
    \/ CallFree \/ FreeReturns \/ Clear
    \/ HandlerFrees \/ HandlerClears \/ HandlerSkips \/ HandlerExits

MemoryNext == Program \/ SIGINT \/ Killed

MemorySpec == MemoryInit /\ [][MemoryNext]_memory_vars

-----------------------------------------------------------------------------
(* Where main is, or was when SIGINT came.                                 *)
At(places) == (came = "never" /\ pc \in places) \/ came \in places

(* Every block is held and stored, or neither, except the one main works   *)
(* on; those main has not come to are fresh, and both loops and the loop   *)
(* of the handler leave null pointers behind.                              *)
BlockInv(b) ==
    \/ p[b] = b /\ heap[b] = "held" /\ ~(b = i /\ At({"store", "in_free", "clear"}))
    \/ p[b] = NULL /\ heap[b] \in {"none", "free"} /\ ~(b = i /\ At({"store", "in_free", "clear"}))
    \/ p[b] = NULL /\ heap[b] = "held" /\ b = i /\ At({"store"})
    \/ p[b] = b /\ heap[b] = "free" /\ b = i /\ At({"in_free", "clear"})
    \/ heap[b] = "twice" /\ b = i /\ came \in {"in_free", "clear"}

PhaseInv ==
    /\ came # "never" => pc \in Handler \cup Ended
    /\ pc \in Handler => came # "never"
    /\ pc \in Main => h = 1
    /\ pc = "signal" => i = 1
    /\ pc = "crashed" => \/ came \in {"in_malloc", "in_free", "clear"}
                         \/ came = "never" /\ heap[i] = "none"

LoopInv(b) ==
    /\ p[b] \in {NULL, b}
    /\ heap[b] = "twice" => b = i /\ came \in {"in_free", "clear"}
    /\ pc \in {"signal", "malloc", "in_malloc"} /\ b >= i => p[b] = NULL /\ heap[b] = "none"
    /\ pc \in {"store", "memset"} /\ b > i => p[b] = NULL /\ heap[b] = "none"
    /\ pc = "memset" /\ b = i /\ p[b] = NULL => heap[b] = "none"
    /\ pc \in {"malloc", "in_malloc", "store", "memset"} /\ b < i => p[b] = b
    /\ pc \in {"free", "in_free", "clear"} /\ b < i => p[b] = NULL
    /\ pc \in {"free", "in_free", "clear"} /\ b >= i => p[b] = b
    /\ pc \in Handler /\ b < h => p[b] = NULL
    /\ pc = "exited" => p[b] = NULL
    /\ pc = "handler_clear" /\ b = h =>
           /\ came = "store" => h # i
           /\ heap[h] = IF h = i /\ came \in {"in_free", "clear"} THEN "twice" ELSE "free"

MemoryInv ==
    /\ MemoryTypeOK
    /\ PhaseInv
    /\ pc = "handler_clear" => h \in Blocks
    /\ \A b \in Blocks : LoopInv(b)
    /\ pc # "killed" => \A b \in Blocks : (pc = "handler_clear" /\ b = h) \/ BlockInv(b)

(* Every block is freed exactly once wherever SIGINT comes, but in three   *)
(* windows: before the block that malloc returned is stored, it is left    *)
(* behind; until the pointer that was freed is cleared, its block is freed *)
(* again (memory_increase.c:71,85-86 and 42); and inside malloc or free    *)
(* the handler's own free may do anything.  Otherwise the program crashes  *)
(* only on a null pointer from malloc (line 75).                           *)
BlocksFreedOnce ==
    /\ \A b \in Blocks : heap[b] = "twice" => b = i /\ came \in {"in_free", "clear"}
    /\ pc = "exited" => {b \in Blocks : heap[b] = "held"} = IF came = "store" THEN {i} ELSE {}
    /\ pc = "crashed" => \/ came \in {"in_malloc", "in_free", "clear"}
                         \/ came = "never" /\ heap[i] = "none"
=============================================================================
