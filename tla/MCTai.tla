------------------------------- MODULE MCTai -------------------------------
(* A program has a Tai or is time_conver; the variables of the other keep  *)
(* one value.                                                              *)
(* Dates around ends of months, of years and of leap days, real and not,   *)
(* among them those on both sides of 2100, which is no leap year; the      *)
(* amounts are those of tai_test.cpp and a few more.  MCLateClocks are     *)
(* dates after February of the year before a leap year; five years later   *)
(* is another leap year.  The texts are a clock, one with more characters, *)
(* one with few digits, one with a blank before and a sign within, a date, *)
(* a date that does not exist, a blank and a word.                         *)
EXTENDS Tai, TimeConver

MCClocks == [year : {2023, 2024, 2099, 2100}, month : {0, 1, 2, 4, 8, 12, 13},
             day : {0, 1, 28, 29, 30, 31}]

MCLateClocks == [year : {2023}, month : 3 .. 12, day : {1, 15}]

MCDaytimes == {0, 18 * 3600 + 22 * 60 + 8}

MCAmounts == [years |-> {1, 2, 5}, months |-> {0, 1, 13, 22}, weeks |-> {8},
              days |-> {5}, hours |-> {5}, minutes |-> {20}, seconds |-> {59}]

MCLateAmounts == [MCAmounts EXCEPT !.years = {5}]

D == 10
B == 11
C == 12
Letter == 13
MCChars == 0 .. 13
MCTexts == {<<2,0,1,9, D, 1,1, D, 1,5, B, 1,8, C, 2,2, C, 0,8>>, <<2,0,1,9, D, 0,1,1, D, 1,5, B, 1,8, C, 2,2, C, 0,8>>,
            <<B, 2,0,2,0, D, 2, D, 2,9, D,0, C, 2, C, 3>>, <<2,0,2,0, D, 2, D, 2,9, B, 1, C, 2, C, 3>>,
            <<2,0,2,0, D, 1,2, D, 3,1>>, <<2,0,1,9, D, 0,2, D, 2,9, B, 0,0, C, 0,0, C, 0,0>>, <<B>>, <<Letter>>}
MCOutOfRange == -1
MCNumbers == {0, 500898128, MCOutOfRange}
MCMaxOptions == 3
MCNow == {1709164799, 1709164800}

VARIABLE program

MCInit ==
    /\ program \in {"tai", "time_conver"}
    /\ Init
    /\ ConverInit
    /\ program = "time_conver" => clock = CHOOSE c \in Clocks : TRUE

MCNext ==
    \/ program = "tai" /\ Next /\ UNCHANGED <<program, conver>>
    \/ program = "time_conver" /\ ConverNext /\ UNCHANGED <<program, vars>>

MCSpec == MCInit /\ [][MCNext]_<<program, vars, conver>>
=============================================================================
