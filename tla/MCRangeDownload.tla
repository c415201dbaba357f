--------------------------- MODULE MCRangeDownload ---------------------------
(* Three threads; the lengths are fewer bytes than slices (1), a multiple  *)
(* of THREAD_NUM - 1, whose last slice is empty (2), and one with a rest   *)
(* for the last slice (5).  size_t is 12 bits wide.                         *)
(* With three slices no length has a rest that is more than a slice, so    *)
(* the thirty of the program are cut as well, on both sides of each case;  *)
(* their threads are not run: the first pthread_create fails.              *)
EXTENDS RangeDownload

MCThreads == 3
MCLengths == {1, 2, 5}
MCChunks == {2}
MCWidth == 4096

MCManyLengths == {28, 29, 30, 31, 57, 58, 86, 87, 88, 811, 812, 900}

Many == INSTANCE RangeDownload WITH
    THREAD_NUM <- 30, Lengths <- MCManyLengths, Width <- MCWidth

MCMainStep ==
    \/ length \in MCLengths /\ MainStep
    \/ length \in MCManyLengths /\ Many!MainStep /\ created' = 0

MCThreadStep(t) == length \in MCLengths /\ ThreadStep(t)

MCSpec ==
    /\ Init \/ Many!Init
    /\ [][MCMainStep \/ \E t \in Index : MCThreadStep(t)]_vars
    /\ WF_vars(MCMainStep)
    /\ \A t \in Index : WF_vars(MCThreadStep(t))

(* SlicesPartition for thirty threads. *)
ManySlicesPartition == length \in MCManyLengths => Many!SlicesPartition
=============================================================================
