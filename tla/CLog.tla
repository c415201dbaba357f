-------------------------------- MODULE CLog --------------------------------
(***************************************************************************)
(* The typed logger of src/日志/C/log.{h,c}: one global object with a      *)
(* stream, a level and a table of log types.  Any function may be called   *)
(* at any time, before rte_log_init and after rte_log_free too, and any    *)
(* allocation may fail.                                                    *)
(*                                                                         *)
(* The table is the sequence of its entries, and <<>> the null pointer.    *)
(* An access beyond it is undefined: nothing is said of the program after. *)
(* Memory that is never freed is left out.  What TypedLog has by the same  *)
(* name begins with C here, so that a module can extend both.              *)
(***************************************************************************)
EXTENDS LogTypes

logtype_strings == reg_table
RTE_LOGTYPE_FIRST_EXT_ID == FIRST_EXT_ID
RTE_LOG_DEBUG == LEVEL_DEBUG

VARIABLES
    level, file, dynamic_types, dynamic_types_len,      \* struct rte_logs
    out,        \* where the last line went
    ready,      \* rte_log_init, which had its memory, was called last, and not rte_log_free
    undefined

table == <<dynamic_types, dynamic_types_len, ready>>
cvars == <<level, file, table, out, undefined>>

RTE_LOG_INFO == RTE_LOG_DEBUG - 1
Levels == 0 .. RTE_LOG_DEBUG + 1      \* one more than the valid ones

CTable == INSTANCE TypeTable WITH types <- dynamic_types

CInit ==
    /\ level = RTE_LOG_DEBUG
    /\ file = "null"
    /\ dynamic_types = <<>>
    /\ dynamic_types_len = 0
    /\ out = "nowhere"
    /\ ready = FALSE
    /\ undefined = FALSE

Undefined == undefined' = TRUE /\ UNCHANGED <<level, file, table, out>>

-----------------------------------------------------------------------------
rte_openlog_stream(f) ==
    /\ file' = f
    /\ UNCHANGED <<level, table, out, undefined>>

rte_log_set_global_level(l) ==
    /\ level' = l
    /\ UNCHANGED <<file, table, out, undefined>>

(* rte_log_get_level makes the same test and reads the same entry.         *)
rte_log_set_level(type, l) ==
    /\ type < dynamic_types_len
    /\ IF type >= Len(dynamic_types) THEN Undefined
       ELSE /\ l <= RTE_LOG_DEBUG
            /\ dynamic_types' = [dynamic_types EXCEPT ![type + 1].level = l]
            /\ UNCHANGED <<level, file, dynamic_types_len, ready, out, undefined>>

(* Entries without a name are skipped. *)
rte_log_lookup(name) == {i \in DOMAIN dynamic_types : dynamic_types[i].name = name}

(* Mutant: the length is moved although the name could not be stored.      *)
rte_RegisterCounts(name) ==
    IF Len(dynamic_types) < dynamic_types_len THEN Undefined
    ELSE /\ rte_log_lookup(name) = {}
         /\ dynamic_types_len < MaxTypes
         /\ dynamic_types_len' = dynamic_types_len + 1
         /\ UNCHANGED <<level, file, dynamic_types, ready, out, undefined>>

(* Mutant: the table is not searched for the name.                         *)
rte_RegisterBlindly(name) ==
    /\ dynamic_types_len < MaxTypes
    /\ dynamic_types' = Append(dynamic_types, [name |-> name, level |-> RTE_LOG_INFO])
    /\ dynamic_types_len' = dynamic_types_len + 1
    /\ UNCHANGED <<level, file, ready, out, undefined>>

(* A failing realloc or strdup changes nothing but the spare room at the   *)
(* end of the table; a name that is known gets its id again.               *)
rte_log_register(name) ==
    IF Len(dynamic_types) < dynamic_types_len THEN Undefined
    ELSE /\ rte_log_lookup(name) = {}
         /\ dynamic_types_len < MaxTypes
         /\ dynamic_types' = Append(dynamic_types, [name |-> name, level |-> RTE_LOG_INFO])
         /\ dynamic_types_len' = dynamic_types_len + 1
         /\ UNCHANGED <<level, file, ready, out, undefined>>

(* When calloc fails the pointer is null and the length stays what it was. *)
rte_log_init ==
    /\ level' = RTE_LOG_DEBUG
    /\ \/ /\ \E missing \in SUBSET DOMAIN logtype_strings : dynamic_types' = CTable!Builtin(missing)
          /\ dynamic_types_len' = RTE_LOGTYPE_FIRST_EXT_ID
          /\ ready' = TRUE
       \/ /\ dynamic_types' = <<>>
          /\ ready' = FALSE
          /\ UNCHANGED dynamic_types_len
    /\ UNCHANGED <<file, out, undefined>>

(* The names of the built-in ids are freed before the pointer is tested;   *)
(* then all of rte_logs is zero, the level too.                            *)
rte_log_free ==
    IF \E id \in DOMAIN logtype_strings : id >= Len(dynamic_types) THEN Undefined
    ELSE /\ dynamic_types' = <<>>
         /\ dynamic_types_len' = 0
         /\ level' = 0
         /\ file' = "null"
         /\ ready' = FALSE
         /\ UNCHANGED <<out, undefined>>

(* Mutant: the stream is used as it is. *)
AsItIs == file

(* default_log_stream is a null pointer for ever.                          *)
Stream == IF file = "null" THEN "stderr" ELSE file

(* A call that prints nothing changes nothing.                             *)
rte_vlog(l, logtype) ==
    /\ l <= level
    /\ logtype < dynamic_types_len
    /\ IF logtype >= Len(dynamic_types) THEN Undefined
       ELSE /\ l <= dynamic_types[logtype + 1].level
            /\ out' = Stream
            /\ UNCHANGED <<level, file, table, undefined>>

CNext ==
    /\ ~undefined
    /\ \/ \E f \in {"caller", "null"} : rte_openlog_stream(f)
       \/ \E l \in Levels : rte_log_set_global_level(l)
       \/ \E type \in 0 .. MaxTypes : \E l \in Levels : rte_log_set_level(type, l) \/ rte_vlog(l, type)
       \/ \E name \in Names : rte_log_register(name)
       \/ rte_log_init \/ rte_log_free

CSpec == CInit /\ [][CNext]_cvars

-----------------------------------------------------------------------------
(* The ids and the names of the types are those of the table both loggers  *)
(* promise (log.c:55-135).                                                 *)
CImplementsTable == CTable!Spec

(* log.h:143: the stream may be changed at any time, and null means        *)
(* standard error.  And from an rte_log_init that had its memory to the    *)
(* next rte_log_free or rte_log_init no call is undefined and every id     *)
(* that was given stays valid, whichever allocations fail and whatever ids *)
(* and levels are passed.  (Before the first one rte_log_free is undefined,*)
(* as a second rte_log_free is, and most calls after a failed second init.)*)
OrderlyProgram ==
    [][/\ ready => ~undefined'
       /\ ready /\ ready' /\ ~rte_log_init =>
              /\ dynamic_types_len' >= dynamic_types_len
              /\ \A i \in DOMAIN dynamic_types : dynamic_types'[i].name = dynamic_types[i].name
       /\ out' # "null"]_cvars
=============================================================================
