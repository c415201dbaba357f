--------------------------- MODULE LoggersProofs ---------------------------
(***************************************************************************)
(* Proofs about the two typed loggers, for any types, levels and limits:   *)
(* the table of the C++ logger, the files of the C++ logger, and the C     *)
(* logger, whose lemmas begin with C; and about the asynchronous logger,   *)
(* for any producers and records, whose lemmas begin with A.               *)
(***************************************************************************)
EXTENDS TypedLog, CLog, AsyncLog, TLAPS

USE DEF LOG_TYPE_FIRST_EXT_ID, LOG_LEVEL_DBUG

(* The table is one of types, and its size is the member's, or it is null. *)
TableInv ==
    /\ m_pLogTypes \in Seq(TypeTable!Type)
    /\ m_nLogTypesSize \in Nat
    /\ m_pLogTypes # <<>> => m_nLogTypesSize = Len(m_pLogTypes)

(* What a call does to the table when it leaves it in place. *)
Keeps ==
    /\ m_nLogTypesSize' = Len(m_pLogTypes')
    /\ Len(m_pLogTypes') >= Len(m_pLogTypes)
    /\ \A i \in DOMAIN m_pLogTypes : m_pLogTypes'[i].name = m_pLogTypes[i].name

LEMMA Assumptions ==
    /\ LOG_TYPE_FIRST_EXT_ID \in Nat /\ MaxTypes \in Nat
    /\ LOG_LEVEL_DBUG \in Nat \ {0} /\ LOG_LEVEL_INFO \in 0 .. LOG_LEVEL_DBUG
    /\ TypeTable!LEVEL_INFO = LOG_LEVEL_INFO
BY LogAssumption, TableAssumption DEF LOG_LEVEL_EMER, LOG_LEVEL_INFO, TypeTable!LEVEL_INFO

LEMMA BuiltinType ==
    ASSUME NEW missing
    PROVE  /\ TypeTable!Builtin(missing) \in Seq(TypeTable!Type)
           /\ Len(TypeTable!Builtin(missing)) = LOG_TYPE_FIRST_EXT_ID
<1>1. TypeTable!Builtin(missing) \in [1 .. LOG_TYPE_FIRST_EXT_ID -> TypeTable!Type]
  BY Assumptions, LogAssumption, TableAssumption DEF TypeTable!Builtin, TypeTable!Type
<1> QED
  BY <1>1, Assumptions

LEMMA InitStep == ASSUME TableInv, log_init, at = "open" \/ at = "live" PROVE TableInv' /\ TypeTable!Next
<1>1. CASE \E missing \in SUBSET DOMAIN reg_table :
             m_pLogTypes' = TypeTable!Builtin(missing) /\ m_nLogTypesSize' = LOG_TYPE_FIRST_EXT_ID
  BY <1>1, BuiltinType, Assumptions DEF TableInv, TypeTable!Next, TypeTable!Start
<1>2. CASE m_pLogTypes' = <<>> /\ m_nLogTypesSize' \in Nat
  BY <1>2 DEF TableInv, TypeTable!Next, TypeTable!GiveUp
<1> QED
  BY <1>1, <1>2, Assumptions DEF log_init, TableInv

LEMMA GoneStep == ASSUME NEW crash, Gone(crash) PROVE TableInv' /\ TypeTable!Next
BY DEF Gone, TableInv, TypeTable!Next, TypeTable!GiveUp

LEMMA RegisterStep ==
    ASSUME TableInv, NEW name \in Names, log_register(name)
    PROVE  TableInv' /\ TypeTable!Next /\ Keeps
<1> DEFINE type == [name |-> name, level |-> LOG_LEVEL_INFO]
<1>1. m_nLogTypesSize = Len(m_pLogTypes)
  BY DEF TableInv, log_register
<1>2. type \in TypeTable!Type
  BY Assumptions DEF TypeTable!Type
<1>3. m_pLogTypes' = Append(m_pLogTypes, type) /\ m_nLogTypesSize' = m_nLogTypesSize + 1
  BY DEF log_register
<1>4. TypeTable!Register(name)
  BY <1>1, <1>3, Assumptions DEF log_register, log_lookup, TypeTable!Register, TableInv
<1> HIDE DEF type
<1>5. m_pLogTypes' \in Seq(TypeTable!Type) /\ Len(m_pLogTypes') = Len(m_pLogTypes) + 1
  BY <1>2, <1>3 DEF TableInv
<1>6. \A i \in DOMAIN m_pLogTypes : m_pLogTypes'[i] = m_pLogTypes[i]
  BY <1>3 DEF TableInv
<1> QED
  BY <1>1, <1>3, <1>4, <1>5, <1>6 DEF TableInv, Keeps, TypeTable!Next

LEMMA SetLevelStep ==
    ASSUME TableInv, NEW logtype \in Nat, NEW lv \in Level, log_set_level(logtype, lv)
    PROVE  TableInv' /\ TypeTable!Next /\ Keeps
<1> DEFINE type == [m_pLogTypes[logtype + 1] EXCEPT !.level = lv]
<1>1. logtype + 1 \in DOMAIN m_pLogTypes /\ lv \in 0 .. LOG_LEVEL_DBUG
  BY Assumptions DEF TableInv, log_set_level, Level
<1>2. type \in TypeTable!Type /\ type.name = m_pLogTypes[logtype + 1].name
  <2>1. m_pLogTypes[logtype + 1] \in TypeTable!Type
    BY <1>1 DEF TableInv
  <2> QED
    BY <1>1, <2>1 DEF TypeTable!Type
<1>3. m_pLogTypes' = [m_pLogTypes EXCEPT ![logtype + 1] = type] /\ m_nLogTypesSize' = m_nLogTypesSize
  BY DEF log_set_level
<1>4. TypeTable!SetLevel(logtype + 1, lv)
  BY <1>1 DEF log_set_level, TypeTable!SetLevel
<1> HIDE DEF type
<1>5. m_pLogTypes' \in Seq(TypeTable!Type) /\ Len(m_pLogTypes') = Len(m_pLogTypes)
  BY <1>1, <1>2, <1>3 DEF TableInv
<1>6. \A i \in DOMAIN m_pLogTypes : m_pLogTypes'[i].name = m_pLogTypes[i].name
  BY <1>1, <1>2, <1>3 DEF TableInv
<1> QED
  BY <1>1, <1>3, <1>4, <1>5, <1>6 DEF TableInv, Keeps, TypeTable!Next, log_set_level

(* A step that leaves the table in place keeps its ids; another one starts *)
(* the table or gives it up.  The invariant holds afterwards.              *)
Step ==
    /\ TableInv'
    /\ [TypeTable!Next]_m_pLogTypes
    /\ at' = "live" /\ m_pLogTypes' # <<>> => Keeps \/ Reinit \/ at # "live"

LEMMA TableStep == ASSUME TableInv, [Next]_vars PROVE Step
<1>1. ASSUME UNCHANGED object PROVE Step
  BY <1>1 DEF object, TableInv, Keeps, Step
<1>2. ASSUME NEW crash, Gone(crash) PROVE Step
  BY <1>2, GoneStep DEF Gone, Step
<1>3. CASE Construct \/ UnlinkOld \/ RenameLog
  BY <1>1, <1>3 DEF Construct, UnlinkOld, RenameLog, object
<1>4. CASE Open
  <2>1. CASE log_init
    BY <1>4, <2>1, InitStep DEF Open, Step
  <2>2. CASE UNCHANGED object
    BY <1>1, <2>2
  <2> QED
    BY <1>4, <2>1, <2>2 DEF Open
<1>5. CASE Die
  BY <1>2, <1>5 DEF Die
<1>6. ASSUME NEW name \in Names, log_register(name) PROVE Step
  BY <1>6, RegisterStep DEF Step
<1>7. ASSUME NEW logtype \in 0 .. MaxTypes, NEW lv \in Level,
             log_set_level(logtype, lv) \/ LogLine(lv, logtype) \/ LogNull(lv, logtype)
      PROVE  Step
  <2>1. CASE log_set_level(logtype, lv)
    BY <2>1, SetLevelStep, Assumptions DEF Step
  <2>2. CASE LogLine(lv, logtype)
    BY <1>1, <2>2 DEF LogLine
  <2>3. CASE LogNull(lv, logtype)
    BY <1>2, <2>3 DEF LogNull
  <2> QED
    BY <1>7, <2>1, <2>2, <2>3
<1>8. ASSUME NEW lv \in Level, log_set_global_level(lv) PROVE Step
  BY <1>8 DEF log_set_global_level, TableInv, Keeps, Step
<1>9. ASSUME NEW f, log_open_stream(f) PROVE Step
  BY <1>9 DEF log_open_stream, TableInv, Keeps, Step
<1>10. CASE UseFreed \/ Destroy
  BY <1>2, <1>10 DEF UseFreed, Destroy
<1>11. CASE log_free
  <2>1. CASE TooShort
    BY <1>2, <1>11, <2>1 DEF log_free
  <2>2. CASE ~TooShort
    BY <1>11, <2>2 DEF log_free, TableInv, Step, TypeTable!Next, TypeTable!GiveUp
  <2> QED
    BY <2>1, <2>2
<1>12. CASE Reinit
  BY <1>12, InitStep DEF Reinit, Step
<1>13. CASE UNCHANGED vars
  BY <1>1, <1>13 DEF vars
<1> QED
  BY <1>3, <1>4, <1>5, <1>6, <1>7, <1>8, <1>9, <1>10, <1>11, <1>12, <1>13 DEF Next, Client

(* What a call that is not log_init does once the table is given up, and   *)
(* what makes it crash.                                                    *)
Given ==
    at = "live" /\ ~Reinit =>
       /\ at' = "live" /\ m_pLogTypes # <<>> => m_pLogTypes' # <<>> \/ log_free
       /\ Stale => lines' = lines /\ (at' = "live" => Stale')
       /\ crashed' => Stale \/ TooShort \/ m_pFile = "null"

(* No process that is in the constructor or live has crashed. *)
CrashInv == at # "none" => crashed = FALSE

LEMMA CrashStep == ASSUME CrashInv, [Next]_vars PROVE CrashInv'
<1>1. ASSUME NEW crash, Gone(crash) PROVE CrashInv'
  BY <1>1 DEF Gone, CrashInv
<1>2. ASSUME NEW name \in Names, log_register(name) PROVE CrashInv'
  BY <1>2 DEF log_register, CrashInv
<1>3. ASSUME NEW logtype \in 0 .. MaxTypes, NEW lv \in Level,
             log_set_level(logtype, lv) \/ LogLine(lv, logtype) \/ LogNull(lv, logtype)
      PROVE  CrashInv'
  BY <1>1, <1>3 DEF log_set_level, LogLine, LogNull, object, CrashInv
<1>4. ASSUME NEW lv \in Level, log_set_global_level(lv) PROVE CrashInv'
  BY <1>4 DEF log_set_global_level, CrashInv
<1>5. ASSUME NEW f, log_open_stream(f) PROVE CrashInv'
  BY <1>5 DEF log_open_stream, CrashInv
<1>6. CASE Die \/ UseFreed \/ Destroy
  BY <1>1, <1>6 DEF Die, UseFreed, Destroy
<1>7. CASE log_free
  BY <1>1, <1>7 DEF log_free, CrashInv
<1>8. CASE Construct \/ UnlinkOld \/ RenameLog \/ Open \/ Reinit \/ UNCHANGED vars
  BY <1>8 DEF Construct, UnlinkOld, RenameLog, Open, Reinit, vars, CrashInv
<1> QED
  BY <1>2, <1>3, <1>4, <1>5, <1>6, <1>7, <1>8 DEF Next, Client

LEMMA NoCrash == Spec => []CrashInv
<1>1. Init => CrashInv
  BY DEF Init, CrashInv
<1> QED
  BY <1>1, CrashStep, PTL DEF Spec

LEMMA GivenStep == ASSUME TableInv, CrashInv, [Next]_vars PROVE Given
<1> SUFFICES ASSUME at = "live", ~Reinit PROVE Given
  BY DEF Given
<1>0. crashed = FALSE /\ m_nLogTypesSize \in Nat
  BY DEF CrashInv, TableInv
<1>1. ASSUME UNCHANGED <<m_pLogTypes, m_nLogTypesSize, crashed>>, Stale => lines' = lines PROVE Given
  BY <1>0, <1>1 DEF Given, Stale
<1>2. ASSUME NEW crash, Gone(crash), crash => Stale \/ TooShort \/ m_pFile = "null" PROVE Given
  BY <1>2 DEF Gone, Given, files
<1>3. ASSUME NEW name \in Names, log_register(name) PROVE Given
  <2>1. ~Stale /\ crashed' = FALSE
    BY <1>0, <1>3 DEF log_register, Stale
  <2>2. m_pLogTypes' # <<>>
    BY <1>3, RegisterStep DEF Keeps, log_register, TableInv
  <2> QED
    BY <2>1, <2>2 DEF Given
<1>4. ASSUME NEW logtype \in 0 .. MaxTypes, NEW lv \in Level, log_set_level(logtype, lv) PROVE Given
  <2>1. ~Stale /\ crashed' = FALSE
    BY <1>0, <1>4 DEF log_set_level, Stale
  <2>2. m_pLogTypes' # <<>>
    BY <1>4 DEF log_set_level, TableInv
  <2> QED
    BY <2>1, <2>2 DEF Given
<1>5. ASSUME NEW logtype \in 0 .. MaxTypes, NEW lv \in Level, LogLine(lv, logtype) PROVE Given
  BY <1>1, <1>5 DEF LogLine, object, Stale
<1>6. ASSUME NEW logtype \in 0 .. MaxTypes, NEW lv \in Level, LogNull(lv, logtype) PROVE Given
  <2>1. m_pLogTypes = <<>> => m_nLogTypesSize > 0
    BY <1>0, <1>6 DEF LogNull, Reaches
  <2>2. Stale \/ m_pFile = "null"
    BY <1>6, <2>1 DEF LogNull, Stale
  <2> QED
    BY <1>2, <1>6, <2>2 DEF LogNull
<1>7. ASSUME NEW lv \in Level, log_set_global_level(lv) PROVE Given
  BY <1>1, <1>7 DEF log_set_global_level, files
<1>8. ASSUME NEW f, log_open_stream(f) PROVE Given
  BY <1>1, <1>8 DEF log_open_stream, files
<1>9. CASE Die \/ UseFreed \/ Destroy
  BY <1>2, <1>9 DEF Die, UseFreed, Destroy, Stale
<1>10. CASE log_free
  <2>1. CASE TooShort
    BY <1>2, <1>10, <2>1 DEF log_free
  <2>2. CASE ~TooShort
    BY <1>0, <1>10, <2>2 DEF log_free, Given, Stale, files
  <2> QED
    BY <2>1, <2>2
<1>11. CASE UNCHANGED vars
  BY <1>1, <1>11 DEF vars, object, files
<1>12. ~Construct /\ ~UnlinkOld /\ ~RenameLog /\ ~Open
  BY DEF Construct, UnlinkOld, RenameLog, Open
<1> QED
  BY <1>3, <1>4, <1>5, <1>6, <1>7, <1>8, <1>9, <1>10, <1>11, <1>12 DEF Next, Client

LEMMA Invariance == Spec => []TableInv
<1>1. Init => TableInv
  BY DEF Init, TableInv
<1>2. TableInv /\ [Next]_vars => TableInv'
  BY TableStep DEF Step
<1> QED
  BY <1>1, <1>2, PTL DEF Spec

(* cxxlog.cpp:129-294: for any built-in types, names and levels, and       *)
(* whichever allocations fail, the table of the C++ logger is the one      *)
(* promised.                                                               *)
THEOREM Refinement == Spec => ImplementsTable
<1>1. Init => TypeTable!Init
  BY DEF Init, TypeTable!Init
<1>2. TableInv /\ [Next]_vars => [TypeTable!Next]_m_pLogTypes
  BY TableStep DEF Step
<1> QED
  BY <1>1, <1>2, Invariance, PTL DEF Spec, ImplementsTable, TypeTable!Spec

(* Size and table go together and ids stay valid, for a table of any size: *)
(* log_register moves the size last (cxxlog.cpp:205-217).  A table that    *)
(* was given up gives out nothing (cxxlog.cpp:280-294).                    *)
THEOREM IdsStay == Spec => IdsStable
<1> DEFINE Stable ==
      /\ at' = "live" /\ m_pLogTypes' # <<>> =>
             /\ m_nLogTypesSize' = Len(m_pLogTypes')
             /\ at = "live" /\ ~Reinit =>
                   /\ Len(m_pLogTypes') >= Len(m_pLogTypes)
                   /\ \A i \in DOMAIN m_pLogTypes : m_pLogTypes'[i].name = m_pLogTypes[i].name
      /\ at = "live" /\ ~Reinit =>
             /\ at' = "live" /\ m_pLogTypes # <<>> => m_pLogTypes' # <<>> \/ log_free
             /\ Stale => lines' = lines /\ (at' = "live" => Stale')
             /\ crashed' => Stale \/ TooShort \/ m_pFile = "null"
<1>1. TableInv /\ CrashInv /\ [Next]_vars => [Stable]_vars
  BY TableStep, GivenStep DEF Step, TableInv, Keeps, Given
<1> QED
  BY <1>1, Invariance, NoCrash, PTL DEF Spec, IdsStable

-----------------------------------------------------------------------------
(* The files of the C++ logger.  A file is a sequence of line numbers, or  *)
(* absent.  The program only rotates a log that has a line, and when it    *)
(* renames it the backup has just been unlinked.                           *)
FileInv ==
    /\ lines \in Nat
    /\ log \in Seq(Nat) \cup {Absent} /\ old \in Seq(Nat) \cup {Absent}
    /\ at = "live" => log # Absent
    /\ ~same /\ at \in {"unlink", "rename"} => log # Absent /\ log # <<>>
    /\ ~same /\ at = "rename" => old = Absent
    /\ NoGap

(* What the directory holds, the backup first. *)
All == Content(old) \o Content(log)

LEMMA ContentType == FileInv => /\ Content(log) \in Seq(Nat) /\ Content(old) \in Seq(Nat)
                                /\ All \in Seq(Nat) /\ Len(All) = Len(Content(old)) + Len(Content(log))
BY DEF FileInv, Content, All

(* Only a log that has a line is too big. *)
LEMMA TooBigHasLine == ASSUME FileInv, NEW limit \in Limits, TooBig(limit) PROVE log # Absent /\ log # <<>>
<1>1. limit * Mega \in Nat
  BY LogAssumption
<1> DEFINE size == limit * Mega
<1>2. size \in Nat
  BY <1>1
<1> HIDE DEF size
<1>3. size % Width \in Nat /\ 0 % Width = 0
  BY <1>2, LogAssumption
<1>4. log # Absent /\ Len(log) % Width > size % Width
  BY DEF TooBig, size
<1>5. ASSUME log = <<>> PROVE FALSE
  <2>1. Len(log) % Width = 0
    BY <1>3, <1>5
  <2> QED
    BY <1>3, <1>4, <2>1
<1> QED
  BY <1>4, <1>5

LEMMA SameFiles ==
    ASSUME FileInv, UNCHANGED <<same, files>>, at' = at \/ at' = "none"
    PROVE  FileInv'
BY DEF FileInv, files, NoGap, Content

(* Without the backup the log alone holds the newest lines.                *)
LEMMA UnlinkKeeps == ASSUME FileInv, UnlinkOld PROVE FileInv'
<1>1. CASE same
  BY <1>1 DEF UnlinkOld, FileInv, NoGap
<1>2. CASE ~same
  <2>1. /\ log \in Seq(Nat) /\ log # Absent /\ log # <<>> /\ UNCHANGED <<log, lines, same>>
        /\ old' = Absent /\ at' = "rename"
    BY <1>2 DEF UnlinkOld, FileInv
  <2>2. Content(log) = log /\ (Content(old) \o Content(log))' = log
    BY <2>1 DEF Content
  <2>3. ASSUME NEW i \in 1 .. Len(log) PROVE log[i] = lines - Len(log) + i
    <3> DEFINE k == Len(Content(old))
    <3>1. k \in Nat /\ Len(All) = k + Len(log) /\ All[k + i] = log[i] /\ k + i \in 1 .. Len(All)
      BY <2>1, <2>2, ContentType DEF All
    <3>2. All[k + i] = lines - Len(All) + (k + i)
      BY <1>2, <3>1 DEF FileInv, NoGap, All
    <3> QED
      BY <2>1, <3>1, <3>2 DEF FileInv
  <2>4. NoGap'
    BY <2>1, <2>2, <2>3 DEF NoGap
  <2> QED
    BY <2>1, <2>4 DEF FileInv
<1> QED
  BY <1>1, <1>2

LEMMA RenameKeeps == ASSUME FileInv, RenameLog PROVE FileInv'
<1>1. /\ log \in Seq(Nat) /\ log # Absent /\ UNCHANGED <<lines, same>>
      /\ old' = log /\ log' = Absent /\ at = "rename" /\ at' = "open"
  BY DEF RenameLog, FileInv
<1>2. CASE same
  BY <1>1, <1>2 DEF FileInv, NoGap
<1>3. CASE ~same
  <2>1. old = Absent
    BY <1>1, <1>3 DEF FileInv
  <2>2. (Content(old) \o Content(log))' = log /\ Content(old) \o Content(log) = log
    BY <1>1, <2>1 DEF Content
  <2>3. NoGap'
    BY <1>1, <1>3, <2>2 DEF FileInv, NoGap
  <2> QED
    BY <1>1, <2>3 DEF FileInv
<1> QED
  BY <1>2, <1>3

LEMMA OpenKeeps == ASSUME FileInv, Open PROVE FileInv'
<1>1. /\ UNCHANGED <<lines, same, old>> /\ log' = IF log = Absent THEN <<>> ELSE log
      /\ at' \in {"none", "live"}
  BY DEF Open
<1>2. Content(log)' = Content(log) /\ Content(old)' = Content(old)
  BY <1>1, LogAssumption DEF Content
<1>3. NoGap'
  BY <1>1, <1>2 DEF FileInv, NoGap
<1>4. log' \in Seq(Nat) /\ log' # Absent
  <2>1. CASE log = Absent
    <3>1. log' = <<>>
      BY <1>1, <2>1
    <3>2. log' \in Seq(Nat)
      BY <3>1
    <3> QED
      BY <3>2, LogAssumption
  <2>2. CASE log # Absent
    BY <1>1, <2>2 DEF FileInv
  <2> QED
    BY <2>1, <2>2
<1> QED
  BY <1>1, <1>3, <1>4 DEF FileInv

LEMMA LineKeeps == ASSUME FileInv, NEW lv, NEW logtype, LogLine(lv, logtype) PROVE FileInv'
<1>1. /\ UNCHANGED <<at, same, old>> /\ at = "live" /\ log' = Append(log, lines + 1) /\ lines' = lines + 1
  BY DEF LogLine, Reaches
<1>2. log \in Seq(Nat) /\ log # Absent /\ lines \in Nat
  BY <1>1 DEF FileInv
<1>3. log' \in Seq(Nat) /\ log' # Absent
  BY <1>1, <1>2, LogAssumption
<1>4. Content(old)' = Content(old) /\ Content(log)' = Append(Content(log), lines + 1)
  BY <1>1, <1>2, <1>3 DEF Content
<1>5. /\ Len(All') = Len(All) + 1 /\ All'[Len(All) + 1] = lines + 1
      /\ \A i \in 1 .. Len(All) : All'[i] = All[i]
  <2>1. All' = Content(old) \o Append(Content(log), lines + 1)
    BY <1>4 DEF All
  <2>2. Content(old) \in Seq(Nat) /\ Content(log) \in Seq(Nat) /\ All = Content(old) \o Content(log)
    BY ContentType DEF All
  <2> QED
    BY <1>2, <2>1, <2>2
<1>6. ASSUME ~same PROVE All' # <<>> /\ \A i \in 1 .. Len(All') : All'[i] = lines' - Len(All') + i
  <2>1. \A i \in 1 .. Len(All) : All[i] = lines - Len(All) + i
    BY <1>6 DEF FileInv, NoGap, All
  <2>2. Len(All) \in Nat /\ Len(All') = Len(All) + 1
    BY <1>5, ContentType
  <2>3. All' # <<>>
    BY <2>2
  <2>4. ASSUME NEW i \in 1 .. Len(All') PROVE All'[i] = lines' - Len(All') + i
    <3>1. CASE i = Len(All) + 1
      BY <1>1, <1>2, <1>5, <2>2, <3>1
    <3>2. CASE i \in 1 .. Len(All)
      BY <1>1, <1>2, <1>5, <2>1, <2>2, <3>2
    <3> QED
      BY <2>2, <3>1, <3>2
  <2> QED
    BY <2>3, <2>4
<1>7. NoGap'
  BY <1>1, <1>6 DEF NoGap, All
<1> QED
  BY <1>1, <1>2, <1>3, <1>7 DEF FileInv

LEMMA FileStep == ASSUME FileInv, [Next]_vars PROVE FileInv'
<1>1. CASE Construct
  <2>1. UNCHANGED <<same, files>> /\ at = "none" /\ limit_size' \in Limits
    BY <1>1 DEF Construct
  <2>2. at' = "open" \/ (at' = "unlink" /\ TooBig(limit_size'))
    BY <1>1 DEF Construct
  <2>3. at' = "unlink" => log # Absent /\ log # <<>>
    BY <2>1, <2>2, TooBigHasLine
  <2> QED
    BY <2>1, <2>2, <2>3 DEF FileInv, files, NoGap, Content
<1>2. ASSUME NEW crash, Gone(crash) PROVE FileInv'
  BY <1>2, SameFiles DEF Gone
<1>3. CASE Die
  BY <1>2, <1>3 DEF Die
<1>4. ASSUME NEW lv, NEW logtype, LogNull(lv, logtype) PROVE FileInv'
  BY <1>2, <1>4 DEF LogNull
<1>5. ASSUME NEW name, log_register(name) PROVE FileInv'
  BY <1>5, SameFiles DEF log_register
<1>6. ASSUME NEW lv, NEW logtype, log_set_level(logtype, lv) PROVE FileInv'
  BY <1>6, SameFiles DEF log_set_level
<1>7. ASSUME NEW lv, log_set_global_level(lv) PROVE FileInv'
  BY <1>7, SameFiles DEF log_set_global_level
<1>8. ASSUME NEW f, log_open_stream(f) PROVE FileInv'
  BY <1>8, SameFiles DEF log_open_stream
<1>9. CASE UseFreed \/ Destroy
  BY <1>2, <1>9 DEF UseFreed, Destroy
<1>10. CASE log_free
  BY <1>2, <1>10, SameFiles DEF log_free
<1>11. CASE Reinit
  BY <1>11, SameFiles DEF Reinit
<1>12. CASE UNCHANGED vars
  BY <1>12, SameFiles DEF vars
<1> QED
  BY <1>1, <1>3, <1>4, <1>5, <1>6, <1>7, <1>8, <1>9, <1>10, <1>11, <1>12,
     UnlinkKeeps, RenameKeeps, OpenKeeps, LineKeeps
  DEF Next, Client

(* cxxlog.cpp:33-66: whatever rotation a crash cuts short, and for any     *)
(* limits, sizes and number of lines, the backup and the log hold the      *)
(* newest lines without a gap.                                             *)
THEOREM NoLineLost == Spec => []NoGap
<1>1. Init => FileInv
  BY DEF Init, FileInv, NoGap, Content
<1>2. FileInv /\ [Next]_vars => FileInv'
  BY FileStep
<1>3. FileInv => NoGap
  BY DEF FileInv
<1> QED
  BY <1>1, <1>2, <1>3, PTL DEF Spec

-----------------------------------------------------------------------------
USE DEF RTE_LOGTYPE_FIRST_EXT_ID, RTE_LOG_DEBUG, logtype_strings

(* Where the table is not null its length is the one that is stored; after *)
(* an init that had its memory it holds the built-in types at least.       *)
CInv ==
    /\ level \in Levels
    /\ dynamic_types \in Seq(CTable!Type)
    /\ dynamic_types_len \in Nat
    /\ Len(dynamic_types) \in {0, dynamic_types_len}
    /\ ready => /\ Len(dynamic_types) = dynamic_types_len
                /\ dynamic_types_len >= RTE_LOGTYPE_FIRST_EXT_ID
    /\ out # "null"

CKeeps ==
    /\ dynamic_types_len' >= dynamic_types_len
    /\ \A i \in DOMAIN dynamic_types : dynamic_types'[i].name = dynamic_types[i].name

(* What every step does: it keeps the invariant, does to the table what is *)
(* promised, and is defined and keeps the ids while the table is in place. *)
CStep ==
    /\ CInv'
    /\ [CTable!Next]_dynamic_types
    /\ ready => ~undefined' \/ undefined
    /\ ready /\ ready' => rte_log_init \/ CKeeps

LEMMA CAssumptions ==
    /\ RTE_LOGTYPE_FIRST_EXT_ID \in Nat /\ RTE_LOG_DEBUG \in Nat \ {0}
    /\ RTE_LOG_INFO \in 0 .. RTE_LOG_DEBUG /\ CTable!LEVEL_INFO = RTE_LOG_INFO
    /\ 0 \in Levels /\ RTE_LOG_DEBUG \in Levels
BY TableAssumption DEF RTE_LOG_INFO, CTable!LEVEL_INFO, Levels

LEMMA CBuiltinType ==
    ASSUME NEW missing
    PROVE  /\ CTable!Builtin(missing) \in Seq(CTable!Type)
           /\ Len(CTable!Builtin(missing)) = RTE_LOGTYPE_FIRST_EXT_ID
<1>1. CTable!Builtin(missing) \in [1 .. RTE_LOGTYPE_FIRST_EXT_ID -> CTable!Type]
  BY CAssumptions, TableAssumption DEF CTable!Builtin, CTable!Type
<1> QED
  BY <1>1, CAssumptions

LEMMA CSameTable ==
    ASSUME CInv, UNCHANGED table, level' \in Levels, out' # "null", ready => ~undefined' \/ undefined
    PROVE  CStep
BY DEF CInv, CStep, CKeeps, table

LEMMA UndefinedStep == ASSUME CInv, ~ready, Undefined PROVE CStep
BY DEF Undefined, CStep, CInv, table

LEMMA CRegisterStep == ASSUME CInv, ~undefined, NEW name \in Names, rte_log_register(name) PROVE CStep
<1> DEFINE type == [name |-> name, level |-> RTE_LOG_INFO]
<1>1. CASE Len(dynamic_types) < dynamic_types_len
  BY <1>1, UndefinedStep DEF rte_log_register, CInv
<1>2. CASE ~(Len(dynamic_types) < dynamic_types_len)
  <2>1. Len(dynamic_types) = dynamic_types_len
    BY <1>2 DEF CInv
  <2>2. /\ dynamic_types' = Append(dynamic_types, type)
        /\ dynamic_types_len' = dynamic_types_len + 1
        /\ UNCHANGED <<level, file, ready, out, undefined>>
    BY <1>2 DEF rte_log_register
  <2>3. CTable!Register(name)
    BY <1>2, <2>2, CAssumptions DEF rte_log_register, rte_log_lookup, CTable!Register
  <2>4. type \in CTable!Type
    BY CAssumptions DEF CTable!Type
  <2> HIDE DEF type
  <2>5. dynamic_types' \in Seq(CTable!Type) /\ Len(dynamic_types') = Len(dynamic_types) + 1
    BY <2>2, <2>4 DEF CInv
  <2>6. \A i \in 1 .. Len(dynamic_types) : dynamic_types'[i] = dynamic_types[i]
    BY <2>2 DEF CInv
  <2>7. CInv'
    BY <2>1, <2>2, <2>5, CAssumptions DEF CInv
  <2> QED
    BY <2>1, <2>2, <2>3, <2>5, <2>6, <2>7 DEF CStep, CKeeps, CInv, CTable!Next
<1> QED
  BY <1>1, <1>2

LEMMA CSetLevelStep ==
    ASSUME CInv, ~undefined, NEW type \in Nat, NEW l \in Levels, rte_log_set_level(type, l)
    PROVE  CStep
<1> DEFINE entry == [dynamic_types[type + 1] EXCEPT !.level = l]
<1>1. CASE type >= Len(dynamic_types)
  BY <1>1, UndefinedStep DEF rte_log_set_level, CInv
<1>2. CASE ~(type >= Len(dynamic_types))
  <2>1. type + 1 \in DOMAIN dynamic_types /\ l \in 0 .. RTE_LOG_DEBUG
    BY <1>2, CAssumptions DEF rte_log_set_level, CInv, Levels
  <2>2. /\ dynamic_types' = [dynamic_types EXCEPT ![type + 1] = entry]
        /\ UNCHANGED <<level, file, dynamic_types_len, ready, out, undefined>>
    BY <1>2 DEF rte_log_set_level
  <2>3. CTable!SetLevel(type + 1, l)
    BY <1>2, <2>1 DEF rte_log_set_level, CTable!SetLevel
  <2>4. entry \in CTable!Type /\ entry.name = dynamic_types[type + 1].name
    <3>1. dynamic_types[type + 1] \in CTable!Type
      BY <2>1 DEF CInv
    <3> QED
      BY <2>1, <3>1 DEF CTable!Type
  <2> HIDE DEF entry
  <2>5. dynamic_types' \in Seq(CTable!Type) /\ Len(dynamic_types') = Len(dynamic_types)
    BY <2>1, <2>2, <2>4 DEF CInv
  <2>6. \A i \in DOMAIN dynamic_types : dynamic_types'[i].name = dynamic_types[i].name
    BY <2>1, <2>2, <2>4 DEF CInv
  <2>7. CInv'
    BY <2>2, <2>5 DEF CInv
  <2>8. CTable!Next
    BY <2>1, <2>3 DEF CTable!Next
  <2>9. ASSUME ready PROVE CKeeps
    BY <2>2, <2>6 DEF CKeeps, CInv
  <2> QED
    BY <2>2, <2>7, <2>8, <2>9 DEF CStep
<1> QED
  BY <1>1, <1>2

LEMMA CLogStep ==
    ASSUME CInv, ~undefined, NEW type \in Nat, NEW l \in Levels, rte_vlog(l, type)
    PROVE  CStep
<1>1. CASE type >= Len(dynamic_types)
  BY <1>1, UndefinedStep DEF rte_vlog, CInv
<1>2. CASE ~(type >= Len(dynamic_types))
  BY <1>2, CSameTable DEF rte_vlog, Stream, CInv
<1> QED
  BY <1>1, <1>2

LEMMA CInitStep == ASSUME CInv, ~undefined, rte_log_init PROVE CStep
<1>1. CASE \E missing \in SUBSET DOMAIN logtype_strings : dynamic_types' = CTable!Builtin(missing)
  <2>1. CTable!Next
    BY <1>1 DEF CTable!Next, CTable!Start
  <2> QED
    BY <1>1, <2>1, CBuiltinType, CAssumptions DEF rte_log_init, CInv, CStep
<1>2. CASE dynamic_types' = <<>> /\ ready' = FALSE /\ UNCHANGED dynamic_types_len
  BY <1>2, CAssumptions DEF rte_log_init, CInv, CStep, CTable!Next, CTable!GiveUp
<1> QED
  BY <1>1, <1>2 DEF rte_log_init

LEMMA FreeStep == ASSUME CInv, ~undefined, rte_log_free PROVE CStep
<1>1. CASE \E id \in DOMAIN logtype_strings : id >= Len(dynamic_types)
  <2>1. ~ready
    BY <1>1, TableAssumption DEF CInv
  <2> QED
    BY <1>1, <2>1, UndefinedStep DEF rte_log_free
<1>2. CASE ~\E id \in DOMAIN logtype_strings : id >= Len(dynamic_types)
  BY <1>2, CAssumptions DEF rte_log_free, CInv, CStep, CTable!Next, CTable!GiveUp
<1> QED
  BY <1>1, <1>2

LEMMA CEveryStep == ASSUME CInv, [CNext]_cvars PROVE CStep
<1>1. CASE UNCHANGED cvars
  BY <1>1, CSameTable DEF cvars, CInv
<1>2. CASE CNext
  <2>1. ~undefined
    BY <1>2 DEF CNext
  <2>2. ASSUME NEW f, rte_openlog_stream(f) PROVE CStep
    BY <2>1, <2>2, CSameTable DEF rte_openlog_stream, CInv
  <2>3. ASSUME NEW l \in Levels, rte_log_set_global_level(l) PROVE CStep
    BY <2>1, <2>3, CSameTable DEF rte_log_set_global_level, CInv
  <2>4. ASSUME NEW type \in 0 .. MaxTypes, NEW l \in Levels, rte_log_set_level(type, l) PROVE CStep
    BY <2>1, <2>4, CSetLevelStep, TableAssumption
  <2>5. ASSUME NEW type \in 0 .. MaxTypes, NEW l \in Levels, rte_vlog(l, type) PROVE CStep
    BY <2>1, <2>5, CLogStep, TableAssumption
  <2> QED
    BY <1>2, <2>1, <2>2, <2>3, <2>4, <2>5, CRegisterStep, CInitStep, FreeStep DEF CNext
<1> QED
  BY <1>1, <1>2

LEMMA CInvariance == CSpec => []CInv
<1>1. CInit => CInv
  BY CAssumptions DEF CInit, CInv
<1>2. CInv /\ [CNext]_cvars => CInv'
  BY CEveryStep DEF CStep
<1> QED
  BY <1>1, <1>2, PTL DEF CSpec

(* log.c:55-135: for any built-in types, names and levels, and whichever   *)
(* allocations fail, the table of the C logger is the one promised.        *)
THEOREM CRefinement == CSpec => CImplementsTable
<1>1. CInit => CTable!Init
  BY DEF CInit, CTable!Init
<1>2. CInv /\ [CNext]_cvars => [CTable!Next]_dynamic_types
  BY CEveryStep DEF CStep
<1> QED
  BY <1>1, <1>2, CInvariance, PTL DEF CSpec, CImplementsTable, CTable!Spec

(* log.h:143 and log.c: a program that calls rte_log_init first, with      *)
(* memory for it, meets nothing undefined before rte_log_free, keeps its   *)
(* ids, and may set a null stream; for tables and levels of any size.      *)
THEOREM OrderlyIsDefined == CSpec => OrderlyProgram
<1> DEFINE Orderly ==
      /\ ready => ~undefined'
      /\ ready /\ ready' /\ ~rte_log_init =>
             /\ dynamic_types_len' >= dynamic_types_len
             /\ \A i \in DOMAIN dynamic_types : dynamic_types'[i].name = dynamic_types[i].name
      /\ out' # "null"
<1>1. CInv /\ [CNext]_cvars => [Orderly]_cvars
  <2> SUFFICES ASSUME CInv, CNext PROVE Orderly
    OBVIOUS
  <2>1. CStep /\ ~undefined
    BY CEveryStep DEF CNext
  <2> QED
    BY <2>1 DEF CStep, CKeeps, CInv
<1> QED
  BY <1>1, CInvariance, PTL DEF CSpec, OrderlyProgram
-----------------------------------------------------------------------------
(* A name has one id in the tables of both loggers.  The built-in names    *)
(* differ, and an extension gets a name that no type has.                  *)
NamesDiffer(q) ==
    \A i, j \in DOMAIN q : q[i].name = q[j].name /\ q[i].name # NoName => i = j

LEMMA BuiltinNamesDiffer == ASSUME NEW missing PROVE NamesDiffer(TypeTable!Builtin(missing))
BY TableAssumption DEF NamesDiffer, TypeTable!Builtin

LEMMA AppendedNamesDiffer ==
    ASSUME NEW q \in Seq(TypeTable!Type), NamesDiffer(q), NEW name, NEW l,
           NEW r, r = Append(q, [name |-> name, level |-> l]),
           \A i \in DOMAIN q : q[i].name # name
    PROVE  NamesDiffer(r)
<1>1. /\ DOMAIN r = DOMAIN q \cup {Len(q) + 1} /\ r[Len(q) + 1].name = name
      /\ \A i \in DOMAIN q : r[i] = q[i]
  OBVIOUS
<1> QED
  BY <1>1 DEF NamesDiffer

LEMMA LeveledNamesDiffer ==
    ASSUME NEW q \in Seq(TypeTable!Type), NamesDiffer(q), NEW id \in DOMAIN q, NEW l,
           NEW r, r = [q EXCEPT ![id].level = l]
    PROVE  NamesDiffer(r)
<1>1. DOMAIN r = DOMAIN q /\ \A i \in DOMAIN q : r[i].name = q[i].name
  BY DEF TypeTable!Type
<1> QED
  BY <1>1 DEF NamesDiffer

(* cxxlog.cpp:189-217: whatever is registered, under whatever failures, a  *)
(* name of the C++ logger has one id.                                      *)
THEOREM OneIdPerName == Spec => []TypeTable!NamesUnique
<1>1. ASSUME TableInv, NamesDiffer(m_pLogTypes), [TypeTable!Next]_m_pLogTypes
      PROVE  NamesDiffer(m_pLogTypes')
  <2> USE DEF TableInv
  <2>1. CASE TypeTable!Start
    BY <2>1, BuiltinNamesDiffer DEF TypeTable!Start
  <2>2. CASE TypeTable!GiveUp
    BY <2>2 DEF TypeTable!GiveUp, NamesDiffer
  <2>3. ASSUME NEW name \in Names, TypeTable!Register(name) PROVE NamesDiffer(m_pLogTypes')
    BY <1>1, <2>3, AppendedNamesDiffer DEF TypeTable!Register
  <2>4. ASSUME NEW id \in DOMAIN m_pLogTypes, NEW l, TypeTable!SetLevel(id, l)
        PROVE  NamesDiffer(m_pLogTypes')
    BY <1>1, <2>4, LeveledNamesDiffer DEF TypeTable!SetLevel
  <2> QED
    BY <1>1, <2>1, <2>2, <2>3, <2>4 DEF TypeTable!Next
<1>2. TableInv /\ NamesDiffer(m_pLogTypes) /\ [Next]_vars => NamesDiffer(m_pLogTypes)'
  BY <1>1, TableStep DEF Step, NamesDiffer
<1>3. Init => NamesDiffer(m_pLogTypes)
  BY DEF Init, NamesDiffer
<1>4. NamesDiffer(m_pLogTypes) => TypeTable!NamesUnique
  BY DEF NamesDiffer, TypeTable!NamesUnique
<1> QED
  BY <1>2, <1>3, <1>4, Invariance, PTL DEF Spec

(* log.c:90-135: and so has a name of the C logger.                        *)
THEOREM COneIdPerName == CSpec => []CTable!NamesUnique
<1>1. ASSUME CInv, NamesDiffer(dynamic_types), [CTable!Next]_dynamic_types
      PROVE  NamesDiffer(dynamic_types')
  <2>1. dynamic_types \in Seq(TypeTable!Type)
    <3>1. CTable!Type = TypeTable!Type
      BY DEF CTable!Type, TypeTable!Type
    <3> QED
      BY <1>1, <3>1 DEF CInv
  <2>2. CASE CTable!Start
    BY <2>2, BuiltinNamesDiffer DEF CTable!Start, CTable!Builtin, TypeTable!Builtin, CTable!LEVEL_INFO, TypeTable!LEVEL_INFO
  <2>3. CASE CTable!GiveUp
    BY <2>3 DEF CTable!GiveUp, NamesDiffer
  <2>4. ASSUME NEW name \in Names, CTable!Register(name) PROVE NamesDiffer(dynamic_types')
    BY <1>1, <2>1, <2>4, AppendedNamesDiffer DEF CTable!Register
  <2>5. ASSUME NEW id \in DOMAIN dynamic_types, NEW l, CTable!SetLevel(id, l)
        PROVE  NamesDiffer(dynamic_types')
    BY <1>1, <2>1, <2>5, LeveledNamesDiffer DEF CTable!SetLevel
  <2> QED
    BY <1>1, <2>2, <2>3, <2>4, <2>5 DEF CTable!Next
<1>2. CInv /\ NamesDiffer(dynamic_types) /\ [CNext]_cvars => NamesDiffer(dynamic_types)'
  BY <1>1, CEveryStep DEF CStep, NamesDiffer
<1>3. CInit => NamesDiffer(dynamic_types)
  BY DEF CInit, NamesDiffer
<1>4. NamesDiffer(dynamic_types) => CTable!NamesUnique
  BY DEF NamesDiffer, CTable!NamesUnique
<1> QED
  BY <1>2, <1>3, <1>4, CInvariance, PTL DEF CSpec
-----------------------------------------------------------------------------
(* The asynchronous logger is the channel of LogChannel.                    *)

(* The log thread holds a record exactly between Take and log_decorate.    *)
Hand == IF wpc \in {"unlock", "decorate"} THEN \E r \in Record : log_pair = <<r>>
                                          ELSE log_pair = <<>>

(* A producer about to push has a record left to push.                     *)
HasNext == \A p \in Producers :
             /\ sent[p] <= Len(Script[p])
             /\ pc[p] = "push" => sent[p] < Len(Script[p])

AInv == TypeOK /\ Hand /\ HasNext

LEMMA NextIsRecord ==
  ASSUME TypeOK, HasNext, NEW p \in Producers, pc[p] = "push"
  PROVE  NextRecord(p) \in Record
<1>1. sent[p] \in Nat /\ sent[p] < Len(Script[p]) /\ Script[p] \in Seq(ALevel)
  BY AsyncAssumption DEF TypeOK, HasNext
<1>2. sent[p] + 1 \in DOMAIN Script[p]
  BY <1>1
<1> QED
  BY <1>2 DEF NextRecord, Record

LEMMA AInitInv == AInit => AInv
BY AsyncAssumption DEF AInit, AInv, TypeOK, Hand, HasNext

LEMMA AInvStep == AInv /\ [ANext]_avars => AInv'
<1> SUFFICES ASSUME AInv, [ANext]_avars PROVE AInv'
  OBVIOUS
<1> USE AsyncAssumption DEF AInv, TypeOK, Hand, HasNext
<1>1. ASSUME NEW t \in Producers \cup {LogThread}, StartThread(t) PROVE AInv'
  BY <1>1 DEF StartThread
<1>2. ASSUME NEW p \in Producers, ProducerStep(p) PROVE AInv'
  <2>1. CASE Lock(p)
    BY <2>1 DEF Lock
  <2>2. CASE Push(p)
    <3>1. NextRecord(p) \in Record
      BY <2>2, NextIsRecord DEF Push
    <3> QED
      BY <2>2, <3>1 DEF Push
  <2>3. CASE Notify(p)
    BY <2>3 DEF Notify
  <2>4. CASE Unlock(p)
    BY <2>4 DEF Unlock
  <2> QED
    BY <1>2, <2>1, <2>2, <2>3, <2>4 DEF ProducerStep
<1>3. CASE LogStep
  <2>1. CASE Enter
    BY <2>1 DEF Enter
  <2>2. CASE Acquire("lock", "test") \/ Acquire("relock", "test")
               \/ Acquire("relockLate", "late")
    BY <2>2 DEF Acquire
  <2>3. CASE Wait \/ Timeout \/ GiveUp
    BY <2>3 DEF Wait, Timeout, GiveUp
  <2>4. CASE Take
    <3>1. Head(m_queues) \in Record /\ Tail(m_queues) \in Seq(Record)
      BY <2>4 DEF Take
    <3> QED
      BY <2>4, <3>1 DEF Take
  <2>5. CASE Release
    BY <2>5 DEF Release
  <2>6. CASE log_decorate
    BY <2>6 DEF log_decorate
  <2> QED
    BY <1>3, <2>1, <2>2, <2>3, <2>4, <2>5, <2>6 DEF LogStep
<1>4. CASE UNCHANGED avars
  BY <1>4 DEF avars
<1> QED
  BY <1>1, <1>2, <1>3, <1>4 DEF ANext

LEMMA AInvariance == ASpec => []AInv
BY AInitInv, AInvStep, PTL DEF ASpec

(* Every variable keeps its type, for any producers and records. *)
THEOREM ATypeCorrect == ASpec => []TypeOK
BY AInvariance, PTL DEF AInv
-----------------------------------------------------------------------------
(* Every step is a push onto the channel, a step of the channel to the     *)
(* file, or nothing the channel sees.                                      *)
LEMMA AStepMaps == AInv /\ [ANext]_avars => [Channel!Next]_(Channel!vars)
<1> SUFFICES ASSUME AInv, [ANext]_avars PROVE [Channel!Next]_(Channel!vars)
  OBVIOUS
<1>t. TypeOK /\ Hand
  BY DEF AInv
<1> USE DEF Channel!vars
<1>1. ASSUME NEW t \in Producers \cup {LogThread}, StartThread(t)
      PROVE UNCHANGED Channel!vars
  BY <1>1 DEF StartThread
<1>2. ASSUME NEW p \in Producers, ProducerStep(p) PROVE [Channel!Next]_(Channel!vars)
  <2>1. CASE Lock(p) \/ Notify(p) \/ Unlock(p)
    BY <2>1 DEF Lock, Notify, Unlock
  <2>2. CASE Push(p)
    <3>1. NextRecord(p) \in Record
      BY <2>2, NextIsRecord DEF Push, AInv
    <3>2. log_pair \o Append(m_queues, NextRecord(p))
            = Append(log_pair \o m_queues, NextRecord(p))
      BY <1>t, <3>1 DEF TypeOK
    <3>3. Channel!Accept(NextRecord(p))
      BY <2>2, <3>2 DEF Push, Channel!Accept
    <3> QED
      BY <3>1, <3>3 DEF Channel!Next
  <2> QED
    BY <1>2, <2>1, <2>2 DEF ProducerStep
<1>3. CASE LogStep
  <2>1. CASE Take
    <3>1. log_pair = <<>> /\ m_queues # <<>>
      BY <1>t, <2>1 DEF Take, Hand
    <3>2. <<Head(m_queues)>> \o Tail(m_queues) = <<>> \o m_queues
      BY <1>t, <3>1 DEF TypeOK
    <3> QED
      BY <2>1, <3>1, <3>2 DEF Take
  <2>2. CASE log_decorate
    <3>1. PICK r \in Record : log_pair = <<r>>
      BY <1>t, <2>2 DEF log_decorate, Hand
    <3>2. /\ log_pair \o m_queues # <<>>
          /\ Head(log_pair \o m_queues) = r
          /\ Tail(log_pair \o m_queues) = <<>> \o m_queues
      BY <1>t, <3>1 DEF TypeOK
    <3>3. m_ofs \o <<r>> = Append(m_ofs, r)
      BY <1>t, <3>1 DEF TypeOK
    <3>4. r.level > m_level <=> ~Passes(r)
      <4>1. PICK p \in Producers : \E k \in DOMAIN Script[p] :
              r = [from |-> p, n |-> k, level |-> Script[p][k]]
        BY <3>1 DEF Record
      <4>2. Script[p] \in Seq(ALevel)
        BY AsyncAssumption
      <4>3. r.level \in ALevel
        BY <4>1, <4>2
      <4> QED
        BY <4>3 DEF Passes, m_level, INFO, ALevel
    <3>5. Head(log_pair) = r /\ log_pair' = <<>> /\ UNCHANGED m_queues
      BY <2>2, <3>1 DEF log_decorate
    <3>6. m_ofs' = IF Passes(r) THEN Append(m_ofs, r) ELSE m_ofs
      BY <2>2, <3>1, <3>3, <3>4, <3>5 DEF log_decorate
    <3>7. Channel!Emit
      BY <3>2, <3>5, <3>6 DEF Channel!Emit
    <3> QED
      BY <3>7 DEF Channel!Next
  <2>3. CASE Enter \/ Wait \/ Timeout \/ GiveUp \/ Release
    BY <2>3 DEF Enter, Wait, Timeout, GiveUp, Release
  <2>4. CASE Acquire("lock", "test") \/ Acquire("relock", "test")
               \/ Acquire("relockLate", "late")
    BY <2>4 DEF Acquire
  <2> QED
    BY <1>3, <2>1, <2>2, <2>3, <2>4 DEF LogStep
<1>4. CASE UNCHANGED avars
  BY <1>4 DEF avars
<1> QED
  BY <1>1, <1>2, <1>3, <1>4 DEF ANext

(* Between operator<< and the file of asynclog.cpp nothing is lost,        *)
(* doubled, reordered or let through above the threshold.                  *)
THEOREM ARefinement == ASpec => ImplementsChannel
<1>1. AInit => Channel!Init
  BY DEF AInit, Channel!Init
<1> QED
  BY <1>1, AInvariance, AStepMaps, PTL DEF ASpec, ImplementsChannel, Channel!Spec
=============================================================================
