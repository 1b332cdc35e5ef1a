---------------------------- MODULE MCDirWalkSeq ----------------------------
(* The start directory has a subdirectory and siblings; one file is hidden.  *)
(* Its path ends in here, here/, ./ or here/sub/.. (the four ways up).         *)
EXTENDS DirWalkSeq, TLC

CONSTANTS top, here, sub, deep, a, f, g, h, k

MCDirs == {top, here, sub, deep}
MCFiles == {a, f, g, h, k}
MCChildren == (top :> <<a, here>>) @@ (here :> <<sub, f>>) @@ (sub :> <<h, deep, g>>) @@ (deep :> <<k>>)
MCHidden == {h}
MCWays == {<<top>>, <<here, top>>, <<here, here, top>>, <<sub, here, top>>}
=============================================================================
