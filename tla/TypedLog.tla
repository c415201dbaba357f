------------------------------ MODULE TypedLog ------------------------------
(***************************************************************************)
(* The typed logger of src/日志/CXX/cxxlog.{h,cpp}: one log file with one  *)
(* backup, rotated by the constructor, and a table of log types, each with *)
(* a level of its own, that programs extend by name.                       *)
(*                                                                         *)
(* A line is its number; a file is the sequence of its lines, one unit of  *)
(* size each.  Every process that opens the log is a new incarnation; a    *)
(* process may be killed between any two calls to the file system, and any *)
(* allocation may fail.                                                    *)
(***************************************************************************)
EXTENDS LogTypes

CONSTANTS
    Mega,                   \* 1024 * 1024, in units of size
    Width,                  \* uint32_t wraps at Width
    Limits,                 \* the limits programs pass, in Mega units
    MaxLines,               \* bound: lines ever printed
    Absent                  \* no such file

LOG_TYPE_FIRST_EXT_ID == FIRST_EXT_ID
LOG_LEVEL_DBUG == LEVEL_DEBUG
LOG_LEVEL_EMER == 1
LOG_LEVEL_INFO == LOG_LEVEL_DBUG - 1

ASSUME LogAssumption ==
    /\ LOG_LEVEL_DBUG > LOG_LEVEL_EMER
    /\ Mega \in Nat \ {0} /\ Width \in Nat \ {0} /\ Limits \subseteq Nat
    /\ Absent \notin Seq(Nat)

Level == 0 .. LOG_LEVEL_DBUG + 1      \* one more than the valid ones

VARIABLES
    at,           \* where the program is: "none", in the constructor, or "live"
    same,         \* whether the log itself is named "old.log"
    log, old,     \* the log file and its backup
    lines,        \* how many lines have been printed to log files
    limit_size, arg_level,   \* the constructor's arguments
    m_nLevel, m_pFile, m_pLogTypes, m_nLogTypesSize,
    crashed       \* whether the last process used a null pointer

files == <<log, old, lines>>
args == <<limit_size, arg_level>>
object == <<m_nLevel, m_pFile, m_pLogTypes, m_nLogTypesSize>>
vars == <<at, same, files, args, object, crashed>>

TypeTable == INSTANCE TypeTable WITH types <- m_pLogTypes

Init ==
    /\ at = "none"
    /\ same \in BOOLEAN
    /\ log = Absent
    /\ old = Absent
    /\ lines = 0
    /\ limit_size = 0
    /\ arg_level = 0
    /\ m_nLevel = 0
    /\ m_pFile = "null"
    /\ m_pLogTypes = <<>>
    /\ m_nLogTypesSize = 0
    /\ crashed = FALSE

(* The process is gone, with the object; what was printed was flushed. *)
Gone(crash) ==
    /\ at' = "none"
    /\ crashed' = crash
    /\ m_nLevel' = 0
    /\ m_pFile' = "null"
    /\ m_pLogTypes' = <<>>
    /\ m_nLogTypesSize' = 0
    /\ limit_size' = 0
    /\ arg_level' = 0
    /\ UNCHANGED <<same, files>>

-----------------------------------------------------------------------------
(* The constructor.  Each of its errors is a `throw' with nothing to       *)
(* rethrow, which terminates the process.  Both sizes are uint32_t.        *)
TooBig(limit) == log # Absent /\ Len(log) % Width > (limit * Mega) % Width

Construct ==
    /\ at = "none"
    /\ limit_size' \in Limits
    /\ arg_level' \in Level
    /\ at' = IF TooBig(limit_size') THEN "unlink" ELSE "open"
    /\ crashed' = FALSE
    /\ UNCHANGED <<same, files, object>>

(* The backup and the log are one file when the log is named old.log. *)
UnlinkOld ==
    /\ at = "unlink"
    /\ IF same THEN log' = Absent /\ UNCHANGED old
               ELSE old' = Absent /\ UNCHANGED log
    /\ at' = "rename"
    /\ UNCHANGED <<same, lines, args, object, crashed>>

(* Mutant: the backup is copied to, and the log stays. *)
RenameCopies ==
    /\ at = "rename"
    /\ old' = log
    /\ at' = "open"
    /\ UNCHANGED <<same, log, lines, args, object, crashed>>

RenameLog ==
    /\ at = "rename"
    /\ log # Absent
    /\ old' = log
    /\ log' = Absent
    /\ at' = "open"
    /\ UNCHANGED <<same, lines, args, object, crashed>>

(* Names that strdup has no memory for are missing; without memory for the *)
(* table the size stays, and the constructor never set it: it is zero or   *)
(* not.                                                                    *)
log_init ==
    \/ /\ \E missing \in SUBSET DOMAIN reg_table : m_pLogTypes' = TypeTable!Builtin(missing)
       /\ m_nLogTypesSize' = LOG_TYPE_FIRST_EXT_ID
    \/ /\ m_pLogTypes' = <<>>
       /\ m_nLogTypesSize' \in IF at = "open" THEN {0, MaxTypes} ELSE {m_nLogTypesSize}

(* Mutant: the log is opened for writing from its start. *)
OpenTruncates ==
    /\ at = "open"
    /\ arg_level \in LOG_LEVEL_EMER .. LOG_LEVEL_DBUG
    /\ log' = <<>>
    /\ at' = "live"
    /\ m_nLevel' = arg_level
    /\ m_pFile' = "log"
    /\ log_init
    /\ limit_size' = 0 /\ arg_level' = 0
    /\ UNCHANGED <<same, old, lines, crashed>>

(* fopen with "a+"; the level is tested after that.  The arguments are not *)
(* used again.                                                             *)
Open ==
    /\ at = "open"
    /\ log' = IF log = Absent THEN <<>> ELSE log
    /\ IF arg_level \in LOG_LEVEL_EMER .. LOG_LEVEL_DBUG
       THEN /\ at' = "live"
            /\ m_nLevel' = arg_level
            /\ m_pFile' = "log"
            /\ log_init
       ELSE /\ at' = "none"
            /\ UNCHANGED object
    /\ limit_size' = 0 /\ arg_level' = 0
    /\ UNCHANGED <<same, old, lines, crashed>>

(* A failing mkdir, fopen, unlink or rename, or a kill from outside. *)
Die == at # "none" /\ Gone(FALSE)

-----------------------------------------------------------------------------
log_lookup(name) == {i \in 1 .. m_nLogTypesSize : m_pLogTypes[i].name = name}

(* Mutant: the size is moved although the name could not be stored. *)
RegisterCounts(name) ==
    /\ at = "live"
    /\ m_nLogTypesSize > 0 => m_pLogTypes # <<>>
    /\ log_lookup(name) = {}
    /\ m_nLogTypesSize < MaxTypes
    /\ m_nLogTypesSize' = m_nLogTypesSize + 1
    /\ UNCHANGED <<at, same, files, args, m_nLevel, m_pFile, m_pLogTypes, crashed>>

(* Mutant: a new type takes an unused id below the extensions. *)
RegisterInHole(name) ==
    /\ at = "live"
    /\ log_lookup(name) = {}
    /\ \E i \in log_lookup(NoName) :
          m_pLogTypes' = [m_pLogTypes EXCEPT ![i] = [name |-> name, level |-> LOG_LEVEL_INFO]]
    /\ UNCHANGED <<at, same, files, args, m_nLevel, m_pFile, m_nLogTypesSize, crashed>>

(* Mutant: the table is not searched for the name. *)
RegisterBlindly(name) ==
    /\ at = "live"
    /\ m_nLogTypesSize > 0 => m_pLogTypes # <<>>
    /\ m_nLogTypesSize < MaxTypes
    /\ m_pLogTypes' = Append(m_pLogTypes, [name |-> name, level |-> LOG_LEVEL_INFO])
    /\ m_nLogTypesSize' = m_nLogTypesSize + 1
    /\ UNCHANGED <<at, same, files, args, m_nLevel, m_pFile, crashed>>

(* realloc or strdup may fail, and then nothing changes. *)
log_register(name) ==
    /\ at = "live"
    /\ m_nLogTypesSize > 0 => m_pLogTypes # <<>>
    /\ log_lookup(name) = {}
    /\ m_nLogTypesSize < MaxTypes
    /\ m_pLogTypes' = Append(m_pLogTypes, [name |-> name, level |-> LOG_LEVEL_INFO])
    /\ m_nLogTypesSize' = m_nLogTypesSize + 1
    /\ UNCHANGED <<at, same, files, args, m_nLevel, m_pFile, crashed>>

log_set_level(logtype, level) ==
    /\ at = "live"
    /\ m_pLogTypes # <<>>
    /\ logtype < m_nLogTypesSize
    /\ level <= LOG_LEVEL_DBUG
    /\ m_pLogTypes' = [m_pLogTypes EXCEPT ![logtype + 1].level = level]
    /\ UNCHANGED <<at, same, files, args, m_nLevel, m_pFile, m_nLogTypesSize, crashed>>

log_set_global_level(level) ==
    /\ at = "live"
    /\ m_nLevel' = level
    /\ UNCHANGED <<at, same, files, args, m_pFile, m_pLogTypes, m_nLogTypesSize, crashed>>

log_open_stream(f) ==
    /\ at = "live"
    /\ m_pFile' = f
    /\ UNCHANGED <<at, same, files, args, m_nLevel, m_pLogTypes, m_nLogTypesSize, crashed>>

(* log_vlog.  A call that prints nothing changes nothing. *)
Reaches(level, logtype) ==
    /\ at = "live"
    /\ level <= m_nLevel
    /\ logtype < m_nLogTypesSize

LogLine(level, logtype) ==
    /\ Reaches(level, logtype)
    /\ m_pLogTypes # <<>>
    /\ level <= m_pLogTypes[logtype + 1].level
    /\ m_pFile = "log"
    /\ lines < MaxLines
    /\ log' = Append(log, lines + 1)
    /\ lines' = lines + 1
    /\ UNCHANGED <<at, same, old, args, object, crashed>>

(* The table was freed, or the stream is null: log_vlog uses it untested.  *)
LogNull(level, logtype) ==
    /\ Reaches(level, logtype)
    /\ \/ m_pLogTypes = <<>>
       \/ /\ m_pLogTypes # <<>>
          /\ level <= m_pLogTypes[logtype + 1].level
          /\ m_pFile = "null"
    /\ Gone(TRUE)

(* log_register, log_get_level and log_set_level trust the size alone. *)
UseFreed ==
    /\ at = "live"
    /\ m_pLogTypes = <<>>
    /\ m_nLogTypesSize > 0
    /\ Gone(TRUE)

(* The table is null, or so short that it has not all of the built-in ids: *)
(* log_free frees their names before it tests the pointer.                 *)
TooShort == \E id \in DOMAIN reg_table : id >= Len(m_pLogTypes)

(* log_free is public, frees the table and leaves its size. *)
log_free ==
    /\ at = "live"
    /\ IF TooShort THEN Gone(TRUE)
       ELSE /\ m_pLogTypes' = <<>>
            /\ UNCHANGED <<at, same, files, args, m_nLevel, m_pFile, m_nLogTypesSize, crashed>>

(* So is log_init, which starts the table afresh. *)
Reinit ==
    /\ at = "live"
    /\ log_init
    /\ UNCHANGED <<at, same, files, args, m_nLevel, m_pFile, crashed>>

(* The destructor: log_free once more, then fclose(m_pFile). *)
Destroy ==
    /\ at = "live"
    /\ Gone(TooShort \/ m_pFile = "null")

Client ==
    \/ \E n \in Names : log_register(n)
    \/ \E t \in 0 .. MaxTypes : \E l \in Level :
          log_set_level(t, l) \/ LogLine(l, t) \/ LogNull(l, t)
    \/ \E l \in Level : log_set_global_level(l)
    \/ \E f \in {"caller", "null"} : log_open_stream(f)
    \/ UseFreed \/ log_free \/ Reinit \/ Destroy

Next == Construct \/ UnlinkOld \/ RenameLog \/ Open \/ Die \/ Client

Spec == Init /\ [][Next]_vars

-----------------------------------------------------------------------------
Content(f) == IF f = Absent THEN <<>> ELSE f

(* The backup and the log together hold the newest lines without a gap, in *)
(* order, whatever rotation is cut short by a crash: only lines two        *)
(* rotations old are given up.  (A log named old.log is lost by UnlinkOld.)*)
NoGap ==
    LET all == Content(old) \o Content(log) IN
    ~same => /\ lines > 0 => all # <<>>
             /\ \A i \in 1 .. Len(all) : all[i] = lines - Len(all) + i

(* The ids and the names of the types are those of the table both loggers  *)
(* promise: a name has one id, and an id keeps its name                    *)
(* (cxxlog.cpp:129-217,264-294).                                           *)
ImplementsTable == TypeTable!Spec

(* A size that was left behind by log_free, or by a log_init without the   *)
(* memory for a table (cxxlog.cpp:264-294).                                *)
Stale == m_pLogTypes = <<>> /\ m_nLogTypesSize > 0

(* The size and the table go together, and the ids a program was given     *)
(* stay valid and keep their names, whichever allocation fails, until the  *)
(* program gives the table up itself: no call before that reads beyond the *)
(* table.  Only log_free and log_init take the table away.  From then on,  *)
(* until log_init makes another, no call gives out an id or prints a line: *)
(* what would use the stale size crashes.  Nothing else does, but log_free *)
(* of a table too short for it and what meets a null stream.               *)
IdsStable ==
    [][/\ at' = "live" /\ m_pLogTypes' # <<>> =>
             /\ m_nLogTypesSize' = Len(m_pLogTypes')
             /\ at = "live" /\ ~Reinit =>
                   /\ Len(m_pLogTypes') >= Len(m_pLogTypes)
                   /\ \A i \in DOMAIN m_pLogTypes : m_pLogTypes'[i].name = m_pLogTypes[i].name
       /\ at = "live" /\ ~Reinit =>
             /\ at' = "live" /\ m_pLogTypes # <<>> => m_pLogTypes' # <<>> \/ log_free
             /\ Stale => lines' = lines /\ (at' = "live" => Stale')
             /\ crashed' => Stale \/ TooShort \/ m_pFile = "null"]_vars

(* cxxlog.cpp:72: log_open_stream may be called at any time, and a null    *)
(* stream means standard error.  So a program with a null stream goes on,  *)
(* as long as it has its table.                                            *)
NullStreamIsStderr == [][m_pFile = "null" /\ ~TooShort => ~crashed']_vars
=============================================================================
