----------------------------- MODULE MCLanguages -----------------------------
(* Two threads and two languages, with room for two libraries and three      *)
(* engines; one language may be in any state on disk, the other is built.    *)
EXTENDS Languages, TLC

CONSTANTS t1, t2, java, cpp, x, y, e1, e2, e3

MCThreads == {t1, t2}
MCLangs == {java, cpp}
MCLangAddrs == {x, y}
MCEngineAddrs == {e1, e2, e3}
MCFolders == {f \in [MCLangs -> States] : f[cpp] = "built"}
MCSymmetry == Permutations(MCThreads) \cup Permutations(MCLangAddrs) \cup Permutations(MCEngineAddrs)
=============================================================================
