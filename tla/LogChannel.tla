----------------------------- MODULE LogChannel -----------------------------
(***************************************************************************)
(* What a logger promises: the records that were accepted reach the file   *)
(* once, in the order of acceptance, those above the threshold level being *)
(* dropped on the way.                                                     *)
(***************************************************************************)
EXTENDS Naturals, Sequences

CONSTANTS Record,       \* what can be logged
          Enabled(_)    \* whether the threshold lets a record through

VARIABLES pending,      \* records accepted and not yet written or dropped
          written       \* the file

vars == <<pending, written>>

Init == pending = <<>> /\ written = <<>>

Accept(r) == /\ pending' = Append(pending, r)
             /\ UNCHANGED written

Emit == /\ pending # <<>>
        /\ pending' = Tail(pending)
        /\ written' = IF Enabled(Head(pending)) THEN Append(written, Head(pending)) ELSE written

Next == Emit \/ \E r \in Record : Accept(r)

Spec == Init /\ [][Next]_vars
=============================================================================
