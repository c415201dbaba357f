----------------------------- MODULE MCAsyncLog -----------------------------
(* Three producers; two log twice, and two of the records are above the    *)
(* threshold.                                                              *)
EXTENDS AsyncLog, TLC

CONSTANTS p1, p2, p3

MCProducers == {p1, p2, p3}
MCScript == (p1 :> <<INFO, DBUG>>) @@ (p2 :> <<INFO, INFO>>) @@ (p3 :> <<DBUG>>)
=============================================================================
