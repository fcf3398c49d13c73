----------------------------- MODULE MCBatchSum -----------------------------
(***************************************************************************)
(* Small instances of BatchSum: files that are shorter than, as long as    *)
(* and longer than they declare.                                           *)
(***************************************************************************)
EXTENDS BatchSum

MCLengths == {0, 1, 5, 6, 7}

\* The numbers 10, 20, ...
MCValue(n) == 10 * n

\* For the run that looks at the mean: a file that is as long as it declares, and a short one.
ShortLengths == {5, 6}
=============================================================================
