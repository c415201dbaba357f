------------------------------ MODULE LogTypes ------------------------------
(* The built-in log types and levels of the two typed loggers.             *)
EXTENDS Integers, Sequences

CONSTANTS
    Names,          \* names of log types
    reg_table,      \* the built-in types: id -> name
    FIRST_EXT_ID,   \* the first id of an extension
    LEVEL_DEBUG,    \* the highest level
    NoName,         \* a type without a name
    MaxTypes        \* bound: the size of a table

ASSUME TableAssumption ==
    /\ FIRST_EXT_ID \in Nat /\ LEVEL_DEBUG \in Nat \ {0} /\ MaxTypes \in Nat
    /\ DOMAIN reg_table \subseteq 0 .. FIRST_EXT_ID - 1
    /\ \A i \in DOMAIN reg_table : reg_table[i] \in Names
    /\ \A i, j \in DOMAIN reg_table : reg_table[i] = reg_table[j] => i = j
    /\ NoName \notin Names
=============================================================================
