------------------------------ MODULE SnapCache ------------------------------
(* FileSnapCache (src/CacheAndPool.cpp): snapshots of files by path behind a *)
(* shared mutex.  get looks under the shared lock, and only when it misses   *)
(* loads the file under the exclusive one, without looking again.  Files     *)
(* change meanwhile.  (DirEntryCache has the same get, and only clear.)      *)
(*                                                                           *)
(* A snapshot is the version of the file it holds; a file gets a version     *)
(* each time it changes, the truncation that a save begins with included.    *)
EXTENDS Naturals

CONSTANTS Threads, Paths,
          NoThread, NoSnap,
          MaxVersion  \* bound: changes of a file

ASSUME NobodyAssumption == NoThread \notin Threads
ASSUME NoSnapAssumption == NoSnap \notin Nat
ASSUME MaxVersionAssumption == MaxVersion \in Nat

VARIABLES
  file,    \* the version on disk, by path
  cache,   \* the map
  writer,  \* who holds mtx exclusively
  call,    \* the call a thread makes: get, update or invalidate
  path,    \* and its argument
  pc,
  snap,    \* the snapshot a thread has loaded, or got
  since,   \* history: the version on disk when the call began
  latest,  \* history: the newest version a call has returned, by path
  floor    \* history: that version when the call began

vars == <<file, cache, writer, call, path, pc, snap, since, latest, floor>>
history == <<since, latest, floor>>

TypeOK ==
  /\ file \in [Paths -> Nat] /\ latest \in [Paths -> Nat]
  /\ cache \in [Paths -> Nat \cup {NoSnap}]
  /\ writer \in Threads \cup {NoThread}
  /\ call \in [Threads -> {"get", "update", "invalidate"}]
  /\ path \in [Threads -> Paths]
  /\ pc \in [Threads -> {"idle", "erase", "lookup", "miss", "load", "got"}]
  /\ snap \in [Threads -> Nat] /\ since \in [Threads -> Nat] /\ floor \in [Threads -> Nat]

Init ==
  /\ file = [p \in Paths |-> 0] /\ latest = [p \in Paths |-> 0]
  /\ cache = [p \in Paths |-> NoSnap]
  /\ writer = NoThread
  /\ call = [t \in Threads |-> "get"]
  /\ path \in [Threads -> Paths]
  /\ pc = [t \in Threads |-> "idle"]
  /\ snap = [t \in Threads |-> 0] /\ since = [t \in Threads |-> 0]
  /\ floor = [t \in Threads |-> 0]

Goto(t, place) == pc' = [pc EXCEPT ![t] = place]

\* A file changes: FileWriter::save, or any other program.
Change(p) ==
  /\ file[p] < MaxVersion
  /\ file' = [file EXCEPT ![p] = @ + 1]
  /\ UNCHANGED <<cache, writer, call, path, pc, snap, history>>

\* get(p), updateAndGet(p), invalidate(p)
Begin(t, c, p) ==
  /\ pc[t] = "idle"
  /\ call' = [call EXCEPT ![t] = c]
  /\ path' = [path EXCEPT ![t] = p]
  /\ Goto(t, IF c = "get" THEN "lookup" ELSE "erase")
  /\ since' = [since EXCEPT ![t] = file[p]]
  /\ floor' = [floor EXCEPT ![t] = latest[p]]
  /\ UNCHANGED <<file, cache, writer, snap, latest>>

Erase(t) ==
  /\ pc[t] = "erase"
  /\ writer = NoThread
  /\ cache' = [cache EXCEPT ![path[t]] = NoSnap]
  /\ Goto(t, IF call[t] = "update" THEN "lookup" ELSE "idle")
  /\ UNCHANGED <<file, writer, call, path, snap, history>>

Clear(t) ==
  /\ pc[t] = "idle"
  /\ writer = NoThread
  /\ cache' = [p \in Paths |-> NoSnap]
  /\ UNCHANGED <<file, writer, call, path, pc, snap, history>>

\* The shared section
Hit(t) ==
  /\ pc[t] = "lookup"
  /\ writer = NoThread
  /\ cache[path[t]] # NoSnap
  /\ snap' = [snap EXCEPT ![t] = cache[path[t]]]
  /\ Goto(t, "got")
  /\ UNCHANGED <<file, cache, writer, call, path, history>>

Miss(t) ==
  /\ pc[t] = "lookup"
  /\ writer = NoThread
  /\ cache[path[t]] = NoSnap
  /\ Goto(t, "miss")
  /\ UNCHANGED <<file, cache, writer, call, path, snap, history>>

\* Mutant: the file is read before the exclusive lock is taken.
Bug_Holder(t) == NoThread

\* Who holds the lock between the reading of the file and the store
Holder(t) == t

Load(t) ==
  /\ pc[t] = "miss"
  /\ writer = NoThread
  /\ writer' = Holder(t)
  /\ snap' = [snap EXCEPT ![t] = file[path[t]]]
  /\ Goto(t, "load")
  /\ UNCHANGED <<file, cache, call, path, history>>

\* cache[key] = snap, over what another thread may have stored meanwhile
Store(t) ==
  /\ pc[t] = "load"
  /\ writer = Holder(t)
  /\ writer' = NoThread
  /\ cache' = [cache EXCEPT ![path[t]] = snap[t]]
  /\ Goto(t, "got")
  /\ UNCHANGED <<file, call, path, snap, history>>

Return(t) ==
  /\ pc[t] = "got"
  /\ Goto(t, "idle")
  /\ latest' = [latest EXCEPT ![path[t]] = IF @ > snap[t] THEN @ ELSE snap[t]]
  /\ UNCHANGED <<file, cache, writer, call, path, snap, since, floor>>

Next ==
  \/ \E p \in Paths : Change(p)
  \/ \E t \in Threads :
       \/ \E c \in {"get", "update", "invalidate"}, p \in Paths : Begin(t, c, p)
       \/ Erase(t) \/ Clear(t) \/ Hit(t) \/ Miss(t) \/ Load(t) \/ Store(t) \/ Return(t)

Spec == Init /\ [][Next]_vars

-----------------------------------------------------------------------------
(* Properties *)

\* updateAndGet returns the file as it was when the call began, or newer,
\* whatever other threads load and store between its two halves.
UpdateFresh == \A t \in Threads : pc[t] = "got" /\ call[t] = "update" => snap[t] >= since[t]

\* No call returns an older version than a call that had returned before it
\* began: the second of two loads never puts an older snapshot back.
NeverOlder == \A t \in Threads : pc[t] = "got" => snap[t] >= floor[t]

-----------------------------------------------------------------------------
(* The inductive invariant *)

\* Between load and store, and only then, the lock is held.
LockInv == \A t \in Threads : pc[t] = "load" <=> writer = t

\* Nothing is newer than the file.
FileInv ==
  /\ \A p \in Paths : latest[p] <= file[p] /\ (cache[p] # NoSnap => cache[p] <= file[p])
  /\ \A t \in Threads :
       /\ since[t] <= file[path[t]] /\ floor[t] <= latest[path[t]]
       /\ pc[t] \in {"load", "got"} => snap[t] <= file[path[t]]

\* What may be stored or returned next is at least this new: what is cached, and
\* what the holder of the lock has loaded.
AtLeast(p, v) ==
  /\ cache[p] # NoSnap => cache[p] >= v
  /\ \A u \in Threads : pc[u] = "load" /\ path[u] = p => snap[u] >= v

\* Everything handed out is no newer than that,
OrderInv ==
  /\ \A p \in Paths : AtLeast(p, latest[p])
  /\ \A t \in Threads : pc[t] = "got" => AtLeast(path[t], snap[t])
  /\ \A u \in Threads : pc[u] = "load" /\ cache[path[u]] # NoSnap => snap[u] >= cache[path[u]]

\* and a call that has erased sees only what was loaded since it began.
EraseInv ==
  \A t \in Threads : call[t] = "update" /\ pc[t] \in {"lookup", "miss", "load"}
                       => AtLeast(path[t], since[t])

IInv == TypeOK /\ LockInv /\ FileInv /\ OrderInv /\ EraseInv /\ UpdateFresh /\ NeverOlder
=============================================================================
