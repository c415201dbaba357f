------------------------------ MODULE TypeTable ------------------------------
(***************************************************************************)
(* What both typed loggers promise of their log types: a type is known by  *)
(* the id a program was given for its name, a name has one id, and the     *)
(* table only grows until the program starts it afresh or gives it up.     *)
(* TypedLog (C++) and CLog (C) implement this.                             *)
(***************************************************************************)
EXTENDS LogTypes

VARIABLE types      \* the type with id i is types[i + 1]

LEVEL_INFO == LEVEL_DEBUG - 1

Type == [name : Names \cup {NoName}, level : 0 .. LEVEL_DEBUG]

(* The first table; the names of some types could not be stored. *)
Builtin(missing) ==
    [i \in 1 .. FIRST_EXT_ID |->
        IF i - 1 \in DOMAIN reg_table \ missing THEN [name |-> reg_table[i - 1], level |-> LEVEL_INFO]
                                                ELSE [name |-> NoName, level |-> 0]]

Init == types = <<>>

Start == \E missing \in SUBSET DOMAIN reg_table : types' = Builtin(missing)

GiveUp == types' = <<>>

Register(name) ==
    /\ \A i \in DOMAIN types : types[i].name # name
    /\ types' = Append(types, [name |-> name, level |-> LEVEL_INFO])

SetLevel(id, level) == id \in DOMAIN types /\ types' = [types EXCEPT ![id].level = level]

Next ==
    \/ Start \/ GiveUp
    \/ \E name \in Names : Register(name)
    \/ \E id \in DOMAIN types : \E level \in 0 .. LEVEL_DEBUG : SetLevel(id, level)

Spec == Init /\ [][Next]_types

(* A name has one id. *)
NamesUnique ==
    \A i, j \in DOMAIN types : types[i].name = types[j].name /\ types[i].name # NoName => i = j
=============================================================================
