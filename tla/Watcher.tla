------------------------------- MODULE Watcher -------------------------------
(* LuaExecutor (src/LuaKitty.cpp) and main.cpp: one Lua state, on which the  *)
(* main thread executes scripts, and a pool of one thread whose jobs watch a *)
(* script and execute it whenever its time has changed, or execute what the  *)
(* user types.  A flag that every watch raises and the destructor lowers     *)
(* tells them to stop.                                                       *)
(*                                                                           *)
(* The pool is what JobService promises: jobs in order, each once, and a     *)
(* wait that ends only when none is left.  That the wait does end then is    *)
(* more than ThreadPool gives, and no property here takes it for granted.    *)
(* A write of the script gives it a version, and a time of its own.          *)
EXTENDS Naturals, Sequences, FiniteSets

CONSTANTS Jobs,       \* the calls of watchAndExecThreaded
          Consoles,   \* those whose path is "-"
          MaxVersion  \* bound: writes of the script

ASSUME ConsolesAssumption == Consoles \subseteq Jobs
ASSUME VersionAssumption == MaxVersion \in Nat

VARIABLES
  version, there,  \* the script: its version, and whether the file exists
  watcherRunning,
  queue,     \* the jobs the pool has not begun
  pc,        \* where each watch is
  lastWrite, \* lastWrite[j]: the version that watch j saw last
  once,      \* the watches whose execDoneOnce is true
  main,      \* where the main thread is
  luaOpen,   \* L has not been closed
  runs,      \* history: how often a watch has run a version
  stopping   \* history: the watches the destructor found past their start

disk == <<version, there>>
watch == <<lastWrite, once, runs>>
vars == <<disk, watcherRunning, queue, pc, watch, main, luaOpen, stopping>>

Files == Jobs \ Consoles
Versions == 0..MaxVersion
Outstanding == {j \in Jobs : pc[j] \notin {"new", "over"}}

Init ==
  /\ version = 0 /\ there = TRUE
  /\ watcherRunning = FALSE
  /\ queue = <<>>
  /\ pc = [j \in Jobs |-> "new"]
  /\ lastWrite = [j \in Jobs |-> 0]
  /\ once = {}
  /\ main = "out" /\ luaOpen = TRUE
  /\ runs = [j \in Jobs |-> [v \in Versions |-> 0]]
  /\ stopping = {}

Goto(j, place) == pc' = [pc EXCEPT ![j] = place]

-----------------------------------------------------------------------------
(* The user *)

Write ==
  /\ version < MaxVersion
  /\ version' = version + 1 /\ there' = TRUE
  /\ UNCHANGED <<watcherRunning, queue, pc, watch, main, luaOpen, stopping>>

Remove ==
  /\ there
  /\ there' = FALSE
  /\ UNCHANGED <<version, watcherRunning, queue, pc, watch, main, luaOpen, stopping>>

-----------------------------------------------------------------------------
(* A watch, in the pool's thread *)

Take(j) ==
  /\ queue # <<>> /\ Head(queue) = j
  /\ \A k \in Jobs : pc[k] \in {"new", "queued", "over"}
  /\ queue' = Tail(queue)
  /\ Goto(j, "begun")
  /\ UNCHANGED <<disk, watcherRunning, watch, main, luaOpen, stopping>>

\* watchAndExec raises the flag itself, whatever the destructor has made of it.
Start(j) ==
  /\ pc[j] = "begun"
  /\ watcherRunning' = TRUE
  /\ Goto(j, IF j \in Consoles THEN "test" ELSE "stat")
  /\ UNCHANGED <<disk, queue, watch, main, luaOpen, stopping>>

\* fs::last_write_time throws when there is no file, and the pool's thread
\* catches what its job throws: the flag stays raised.
Fails(j) ==
  /\ pc[j] \in {"stat", "poll"} /\ ~there
  /\ Goto(j, "over")
  /\ UNCHANGED <<disk, watcherRunning, queue, watch, main, luaOpen, stopping>>

FirstStat(j) ==
  /\ pc[j] = "stat" /\ there
  /\ lastWrite' = [lastWrite EXCEPT ![j] = version]
  /\ Goto(j, "test")
  /\ UNCHANGED <<disk, watcherRunning, queue, once, runs, main, luaOpen, stopping>>

\* while (watcherRunning), and what follows the loop
Continue(j) ==
  /\ pc[j] = "test" /\ watcherRunning
  /\ Goto(j, IF j \in Consoles THEN "read" ELSE "poll")
  /\ UNCHANGED <<disk, watcherRunning, queue, watch, main, luaOpen, stopping>>

Leave(j) ==
  /\ pc[j] = "test" /\ ~watcherRunning
  /\ watcherRunning' = FALSE
  /\ Goto(j, "over")
  /\ UNCHANGED <<disk, queue, watch, main, luaOpen, stopping>>

\* The time has changed, or the script was not run yet.
Changed(j) == version # lastWrite[j] \/ j \notin once

\* Mutant: the time is not remembered.
Bug_PollChanged(j) ==
  /\ pc[j] = "poll" /\ there /\ Changed(j)
  /\ Goto(j, "load")
  /\ UNCHANGED <<disk, watcherRunning, queue, watch, main, luaOpen, stopping>>

\* After the sleep
PollChanged(j) ==
  /\ pc[j] = "poll" /\ there /\ Changed(j)
  /\ lastWrite' = [lastWrite EXCEPT ![j] = version]
  /\ Goto(j, "load")
  /\ UNCHANGED <<disk, watcherRunning, queue, once, runs, main, luaOpen, stopping>>

PollSame(j) ==
  /\ pc[j] = "poll" /\ there /\ ~Changed(j)
  /\ Goto(j, "test")
  /\ UNCHANGED <<disk, watcherRunning, queue, watch, main, luaOpen, stopping>>

\* exec reads the file again, at whatever version it has come to.
LoadScript(j) ==
  /\ pc[j] = "load" /\ there
  /\ runs' = [runs EXCEPT ![j][version] = @ + 1]
  /\ Goto(j, "run")
  /\ UNCHANGED <<disk, watcherRunning, queue, lastWrite, once, main, luaOpen, stopping>>

\* A load error is caught and logged.
LoadFails(j) ==
  /\ pc[j] = "load" /\ ~there
  /\ once' = once \cup {j}
  /\ Goto(j, "test")
  /\ UNCHANGED <<disk, watcherRunning, queue, lastWrite, runs, main, luaOpen, stopping>>

\* Mutant: the time is taken again after the script has run.
Bug_ScriptEnds(j) ==
  /\ pc[j] = "run"
  /\ once' = once \cup {j}
  /\ lastWrite' = [lastWrite EXCEPT ![j] = version]
  /\ Goto(j, "test")
  /\ UNCHANGED <<disk, watcherRunning, queue, runs, main, luaOpen, stopping>>

\* The script returns, or throws what is caught and logged.
ScriptEnds(j) ==
  /\ pc[j] = "run"
  /\ once' = once \cup {j}
  /\ Goto(j, "test")
  /\ UNCHANGED <<disk, watcherRunning, queue, lastWrite, runs, main, luaOpen, stopping>>

\* The user types lines up to ":run", or ends the input; without any line the
\* loop goes round.
Typed(j) ==
  /\ pc[j] = "read"
  /\ Goto(j, "run") \/ Goto(j, "test")
  /\ UNCHANGED <<disk, watcherRunning, queue, watch, main, luaOpen, stopping>>

-----------------------------------------------------------------------------
(* The main thread *)

WatchAndExecThreaded(j) ==
  /\ main = "out" /\ pc[j] = "new"
  /\ queue' = Append(queue, j)
  /\ Goto(j, "queued")
  /\ UNCHANGED <<disk, watcherRunning, watch, main, luaOpen, stopping>>

JoinWatcher ==
  /\ main = "out"
  /\ main' = "joining"
  /\ UNCHANGED <<disk, watcherRunning, queue, pc, watch, luaOpen, stopping>>

Exec ==
  /\ main = "out"
  /\ main' = "executing"
  /\ UNCHANGED <<disk, watcherRunning, queue, pc, watch, luaOpen, stopping>>

\* exec returns or throws; joinWatcher returns when no job is left.
Returns ==
  /\ main = "executing" \/ (main = "joining" /\ Outstanding = {})
  /\ main' = "out"
  /\ UNCHANGED <<disk, watcherRunning, queue, pc, watch, luaOpen, stopping>>

\* The watches that will look at the flag and not raise it, whatever the user does
Started == {j \in Outstanding : pc[j] \notin {"queued", "begun", "read"}}

\* Mutant: the destructor waits without lowering the flag.
Bug_Destruct ==
  /\ main = "out"
  /\ main' = "closing"
  /\ stopping' = Started
  /\ UNCHANGED <<disk, watcherRunning, queue, pc, watch, luaOpen>>

\* The destructor lowers the flag ...
Destruct ==
  /\ main = "out"
  /\ main' = "closing"
  /\ watcherRunning' = FALSE
  /\ stopping' = Started
  /\ UNCHANGED <<disk, queue, pc, watch, luaOpen>>

\* Mutant: the state is closed without waiting.
Bug_Close ==
  /\ main = "closing"
  /\ luaOpen' = FALSE
  /\ main' = "gone"
  /\ UNCHANGED <<disk, watcherRunning, queue, pc, watch, stopping>>

\* ... waits, and closes the state; the pool, by then idle, goes last.
Close ==
  /\ main = "closing" /\ Outstanding = {}
  /\ luaOpen' = FALSE
  /\ main' = "gone"
  /\ UNCHANGED <<disk, watcherRunning, queue, pc, watch, stopping>>

-----------------------------------------------------------------------------
WatchStep(j) ==
  \/ Take(j) \/ Start(j) \/ Fails(j) \/ FirstStat(j) \/ Continue(j) \/ Leave(j)
  \/ PollChanged(j) \/ PollSame(j) \/ LoadScript(j) \/ LoadFails(j) \/ ScriptEnds(j)

MainCall == JoinWatcher \/ Exec \/ Destruct \/ \E j \in Jobs : WatchAndExecThreaded(j)

Next == \/ \E j \in Jobs : WatchStep(j) \/ Typed(j)
        \/ MainCall \/ Returns \/ Close
        \/ Write \/ Remove

(* The pool's thread runs and scripts end.  The user need not write, type or  *)
(* remove anything; the main thread need not call anything, nor wake up.      *)
Fairness == \A j \in Jobs : WF_vars(WatchStep(j))

Spec == Init /\ [][Next]_vars /\ Fairness

-----------------------------------------------------------------------------
(* Properties *)

InLua == {j \in Jobs : pc[j] \in {"load", "run"}}

\* No watch is inside the Lua state, or will be, when it is closed, and two
\* watches are never inside it together, whatever was queued when the
\* destructor began or while another watch failed.
LuaHeld == (luaOpen \/ Outstanding = {}) /\ Cardinality(InLua) <= 1

\* A watch runs a version at most twice: a second time only when the file was
\* written between the look at its time and the reading of it.
RunsTwice == \A j \in Jobs, v \in Versions : runs[j][v] <= 2

\* What was written last is run, however the writes fall between the watch's
\* look, its reading of the file and the end of the script: unless the file
\* goes away, the flag is lowered, or the watch has failed.
LatestRuns ==
  \A j \in Files, v \in Versions :
    pc[j] \notin {"new", "queued", "begun", "over"} /\ version = v
      ~> runs[j][v] > 0 \/ version # v \/ ~there \/ ~watcherRunning \/ pc[j] = "over"

\* The destructor ends every watch that it finds past its start, whatever that
\* is doing and whatever is queued behind it.  It does not end the others: one
\* that it overtakes raises the flag again, one that reads waits for the user.
WatchesStop == \A j \in Jobs : j \in stopping ~> pc[j] = "over"

-----------------------------------------------------------------------------
(* The inductive invariants behind LuaHeld and RunsTwice *)

Waiting == {"new", "queued", "over"}
Places == Waiting \cup {"begun", "stat", "test", "poll", "load", "run", "read"}

TypeOK ==
  /\ version \in Versions /\ there \in BOOLEAN
  /\ queue \in Seq(Jobs)
  /\ pc \in [Jobs -> Places]
  /\ lastWrite \in [Jobs -> Versions] /\ once \subseteq Jobs
  /\ runs \in [Jobs -> [Versions -> Nat]]
  /\ main \in {"out", "executing", "joining", "closing", "gone"}

\* The queue holds each job at most once, and one that has not begun.
QueueInv ==
  /\ \A i \in DOMAIN queue : pc[queue[i]] = "queued"
  /\ \A i, k \in DOMAIN queue : queue[i] = queue[k] => i = k

\* The pool's thread is in one watch; the state is closed when none is left.
OneWatch == \A j, k \in Jobs : pc[j] \notin Waiting /\ pc[k] \notin Waiting => j = k
ClosedLast == /\ luaOpen <=> main # "gone"
              /\ main = "gone" => Outstanding = {}

LuaInv == QueueInv /\ OneWatch /\ ClosedLast

\* How often a watch may have run a version: it has seen no later one than
\* lastWrite, and has yet to run that when it is about to load.
Allowed(j, v) ==
  IF v > version \/ (j \notin once /\ pc[j] # "run") THEN 0
  ELSE IF v > lastWrite[j] THEN (IF pc[j] = "load" THEN 0 ELSE 1)
  ELSE IF v = lastWrite[j] /\ pc[j] = "load" THEN 1
  ELSE 2

RunsInv == \A j \in Jobs : /\ lastWrite[j] <= version
                           /\ \A v \in Versions : runs[j][v] <= Allowed(j, v)
=============================================================================
