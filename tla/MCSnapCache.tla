---------------------------- MODULE MCSnapCache ----------------------------
(* Three threads ask for one file while it changes twice: one loads, one     *)
(* erases, one gets what both have left.                                     *)
EXTENDS SnapCache, TLC

CONSTANTS t1, t2, t3, a

MCThreads == {t1, t2, t3}
MCPaths == {a}
MCSymmetry == Permutations(MCThreads)
=============================================================================
