---------------------------- MODULE MCDirWalkPool ----------------------------
(* The start directory has a subdirectory and siblings; one file is hidden.  *)
(* Its path is spelled with or without a slash at the end.                  *)
EXTENDS DirWalkPool, TLC

CONSTANTS top, here, sub, deep, a, f, g, h, k, w1, w2

MCDirs == {top, here, sub, deep}
MCFiles == {a, f, g, h, k}
MCChildren == (top :> <<a, here>>) @@ (here :> <<sub, f>>) @@ (sub :> <<h, deep, g>>) @@ (deep :> <<k>>)
MCHidden == {h}
MCWays == {<<top>>, <<here, top>>}
MCWorkers == {w1, w2}
=============================================================================
