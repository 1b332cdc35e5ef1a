------------------------------- MODULE MCGit -------------------------------
(* Two threads and two handles, as of a script and the walk it starts, on a  *)
(* repository with two branches, a committed file and one that is not yet.   *)
EXTENDS Git, TLC

CONSTANTS t1, t2, outer, walk, a, b, main, topic, old, new, newer

MCThreads == {t1, t2}
MCHandles == {outer, walk}
MCPaths == {a, b}
MCBranches == {main, topic}
MCContents == {old, new, newer, Absent}
MCFirstTree == (a :> old) @@ (b :> Absent)
MCEdits == {<<a, new>>, <<a, newer>>, <<b, new>>}
MCIgnorable == {b}
MCSymmetry == Permutations(MCThreads) \cup Permutations(MCHandles)
=============================================================================
