----------------------------- MODULE MCWatcher -----------------------------
(* Two watches of one script, which is written twice and may vanish at any  *)
(* time, and one of the console, on one executor.                           *)
EXTENDS Watcher

CONSTANTS j1, j2, j3

MCJobs == {j1, j2, j3}
MCConsoles == {j3}
=============================================================================
