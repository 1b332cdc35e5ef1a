---------------------------- MODULE WatcherProofs ----------------------------
(* Proofs about Watcher for any number of watches and of writes: the Lua     *)
(* state is used by one watch at a time and closed after all, and a watch    *)
(* runs no version of its script more than twice.                            *)
EXTENDS Watcher, FiniteSetTheorems, TLAPS

\* A watch's steps, but for those that enqueue or take it
InWatch(j) ==
  \/ Start(j) \/ Fails(j) \/ FirstStat(j) \/ Continue(j) \/ Leave(j) \/ PollChanged(j)
  \/ PollSame(j) \/ LoadScript(j) \/ LoadFails(j) \/ ScriptEnds(j) \/ Typed(j)

\* The steps that leave the watches alone
Beside == \/ JoinWatcher \/ Exec \/ Destruct \/ Returns \/ Close
          \/ Write \/ Remove \/ UNCHANGED vars

LEMMA Steps ==
  ASSUME [Next]_vars
  PROVE  \/ \E j \in Jobs : InWatch(j) \/ Take(j) \/ WatchAndExecThreaded(j)
         \/ Beside
BY DEF Next, WatchStep, MainCall, InWatch, Beside

\* Where a watch's step leads, and what it leaves alone
LEMMA WatchMoves ==
  ASSUME TypeOK, NEW j \in Jobs, InWatch(j)
  PROVE  /\ pc[j] \notin Waiting /\ queue' = queue /\ main' = main /\ luaOpen' = luaOpen
         /\ \E place \in Places \ {"new", "queued"} : pc' = [pc EXCEPT ![j] = place]
<1>1. pc[j] \notin Waiting /\ queue' = queue /\ main' = main /\ luaOpen' = luaOpen
  BY DEF InWatch, Start, Fails, FirstStat, Continue, Leave, PollChanged, PollSame, LoadScript,
         LoadFails, ScriptEnds, Typed, Waiting
<1>2. CASE Start(j) \/ Continue(j)
  BY <1>2 DEF Start, Continue, Goto, Places, Waiting
<1>3. CASE Fails(j) \/ FirstStat(j) \/ Leave(j) \/ PollSame(j) \/ LoadFails(j) \/ ScriptEnds(j)
  BY <1>3 DEF Fails, FirstStat, Leave, PollSame, LoadFails, ScriptEnds, Goto, Places, Waiting
<1>4. CASE PollChanged(j) \/ LoadScript(j) \/ Typed(j)
  BY <1>4 DEF PollChanged, LoadScript, Typed, Goto, Places, Waiting
<1> QED
  BY <1>1, <1>2, <1>3, <1>4 DEF InWatch

-----------------------------------------------------------------------------
(* Types *)

LEMMA InitInv == Init => TypeOK /\ LuaInv /\ RunsInv
<1> SUFFICES ASSUME Init PROVE TypeOK /\ LuaInv /\ RunsInv
  OBVIOUS
<1>1. 0 \in Versions
  BY VersionAssumption DEF Versions
<1>2. TypeOK
  BY <1>1 DEF Init, TypeOK, Places, Waiting
<1>3. LuaInv
  BY DEF Init, LuaInv, QueueInv, OneWatch, ClosedLast, Waiting, Outstanding
<1>4. RunsInv
  BY <1>1 DEF Init, RunsInv, Allowed, Versions
<1> QED
  BY <1>2, <1>3, <1>4

LEMMA TypeStep == TypeOK /\ [Next]_vars => TypeOK'
<1> SUFFICES ASSUME TypeOK, [Next]_vars PROVE TypeOK'
  OBVIOUS
<1>1. ASSUME NEW j \in Jobs, InWatch(j) PROVE TypeOK'
  <2>1. pc' \in [Jobs -> Places] /\ queue' = queue /\ main' = main
    BY <1>1, WatchMoves DEF TypeOK
  <2>2. there' = there /\ version' = version
    BY <1>1 DEF InWatch, Start, Fails, FirstStat, Continue, Leave, PollChanged, PollSame,
                LoadScript, LoadFails, ScriptEnds, Typed, disk
  <2>3. lastWrite' \in [Jobs -> Versions] /\ once' \subseteq Jobs
    BY <1>1 DEF InWatch, Start, Fails, FirstStat, Continue, Leave, PollChanged, PollSame,
                LoadScript, LoadFails, ScriptEnds, Typed, watch, TypeOK
  <2>4. runs' \in [Jobs -> [Versions -> Nat]]
    <3>1. CASE LoadScript(j)
      <4>1. runs[j] \in [Versions -> Nat] /\ runs[j][version] \in Nat
        BY DEF TypeOK
      <4>2. [runs[j] EXCEPT ![version] = @ + 1] \in [Versions -> Nat]
        <5>1. \A f \in [Versions -> Nat], n \in Nat : [f EXCEPT ![version] = n] \in [Versions -> Nat]
          BY Zenon
        <5>2. runs[j][version] + 1 \in Nat
          BY <4>1
        <5> QED
          BY <4>1, <5>1, <5>2, Zenon
      <4>3. runs' = [runs EXCEPT ![j] = [runs[j] EXCEPT ![version] = @ + 1]]
        BY <3>1 DEF LoadScript
      <4>4. runs \in [Jobs -> [Versions -> Nat]]
        BY DEF TypeOK
      <4>5. \A f \in [Versions -> Nat] : [runs EXCEPT ![j] = f] \in [Jobs -> [Versions -> Nat]]
        BY <4>4, Zenon
      <4> QED
        BY <4>2, <4>3, <4>5
    <3>2. CASE ~LoadScript(j)
      BY <1>1, <3>2 DEF InWatch, Start, Fails, FirstStat, Continue, Leave, PollChanged, PollSame,
                        LoadFails, ScriptEnds, Typed, watch, TypeOK
    <3> QED
      BY <3>1, <3>2
  <2> QED
    BY <2>1, <2>2, <2>3, <2>4 DEF TypeOK
<1>2. ASSUME NEW j \in Jobs, Take(j) PROVE TypeOK'
  <2>1. pc' \in [Jobs -> Places]
    BY <1>2 DEF Take, Goto, TypeOK, Places
  <2>2. queue' \in Seq(Jobs)
    BY <1>2 DEF Take, TypeOK
  <2> QED
    BY <1>2, <2>1, <2>2 DEF Take, TypeOK, disk, watch
<1>3. ASSUME NEW j \in Jobs, WatchAndExecThreaded(j) PROVE TypeOK'
  <2>1. pc' \in [Jobs -> Places]
    BY <1>3 DEF WatchAndExecThreaded, Goto, TypeOK, Places, Waiting
  <2>2. queue' \in Seq(Jobs)
    BY <1>3 DEF WatchAndExecThreaded, TypeOK
  <2> QED
    BY <1>3, <2>1, <2>2 DEF WatchAndExecThreaded, TypeOK, disk, watch
<1>4. CASE Beside
  <2>1. version' \in Versions
    <3>1. version' = version \/ (version < MaxVersion /\ version' = version + 1)
      BY <1>4 DEF Beside, JoinWatcher, Exec, Destruct, Returns, Close, Write, Remove, vars, disk
    <3> QED
      BY <3>1, VersionAssumption DEF TypeOK, Versions
  <2>2. there' \in {there, TRUE, FALSE}
        /\ main' \in {main, "out", "executing", "joining", "closing", "gone"}
    BY <1>4 DEF Beside, JoinWatcher, Exec, Destruct, Returns, Close, Write, Remove, vars, disk
  <2>3. UNCHANGED <<queue, pc, watch>>
    BY <1>4 DEF Beside, JoinWatcher, Exec, Destruct, Returns, Close, Write, Remove, vars
  <2> QED
    BY <2>1, <2>2, <2>3 DEF watch, TypeOK
<1> QED
  BY <1>1, <1>2, <1>3, <1>4, Steps

-----------------------------------------------------------------------------
(* One watch at a time *)

LEMMA LuaStep == TypeOK /\ LuaInv /\ [Next]_vars => LuaInv'
<1> SUFFICES ASSUME TypeOK, LuaInv, [Next]_vars PROVE LuaInv'
  OBVIOUS
<1> USE DEF LuaInv
<1>1. ASSUME NEW j \in Jobs, InWatch(j) PROVE LuaInv'
  <2>1. PICK place \in Places \ {"new", "queued"} : pc' = [pc EXCEPT ![j] = place]
    BY <1>1, WatchMoves
  <2>2. pc[j] \notin Waiting /\ queue' = queue /\ main' = main /\ luaOpen' = luaOpen
    BY <1>1, WatchMoves
  <2>3. QueueInv'
    BY <2>1, <2>2 DEF QueueInv, TypeOK, Waiting
  <2>4. OneWatch'
    BY <2>1, <2>2 DEF OneWatch, TypeOK
  <2>5. main # "gone"
    BY <2>2 DEF ClosedLast, Outstanding, Waiting
  <2> QED
    BY <2>2, <2>3, <2>4, <2>5 DEF ClosedLast
<1>2. ASSUME NEW j \in Jobs, Take(j) PROVE LuaInv'
  <2>1. /\ queue # <<>> /\ j = queue[1] /\ queue' = Tail(queue) /\ queue \in Seq(Jobs)
        /\ pc' = [pc EXCEPT ![j] = "begun"] /\ main' = main /\ luaOpen' = luaOpen
        /\ \A k \in Jobs : pc[k] \in Waiting
    BY <1>2 DEF Take, Goto, TypeOK, Waiting
  <2>2. pc[j] = "queued"
    BY <2>1 DEF QueueInv
  <2>3. QueueInv'
    <3>1. /\ Len(queue') = Len(queue) - 1 /\ DOMAIN queue' = 1..Len(queue')
          /\ Len(queue) \in Nat /\ DOMAIN queue = 1..Len(queue)
          /\ \A i \in DOMAIN queue' : queue'[i] = queue[i + 1]
      BY <2>1
    <3>2. \A i \in DOMAIN queue' : i + 1 \in DOMAIN queue /\ i + 1 # 1 /\ 1 \in DOMAIN queue
      BY <3>1
    <3>3. \A i \in DOMAIN queue' : queue'[i] # j /\ queue'[i] \in Jobs
      BY <2>1, <3>1, <3>2 DEF QueueInv
    <3>4. \A i \in DOMAIN queue' : pc'[queue'[i]] = "queued"
      BY <2>1, <3>1, <3>2, <3>3 DEF QueueInv, TypeOK
    <3>5. \A i, k \in DOMAIN queue' : queue'[i] = queue'[k] => i = k
      BY <3>1, <3>2 DEF QueueInv
    <3> QED
      BY <3>4, <3>5 DEF QueueInv
  <2>4. OneWatch'
    BY <2>1 DEF OneWatch, TypeOK
  <2>5. main # "gone"
    BY <2>2 DEF ClosedLast, Outstanding
  <2> QED
    BY <2>1, <2>3, <2>4, <2>5 DEF ClosedLast
<1>3. ASSUME NEW j \in Jobs, WatchAndExecThreaded(j) PROVE LuaInv'
  <2>1. /\ main = "out" /\ main' = main /\ luaOpen' = luaOpen /\ pc[j] = "new"
        /\ pc' = [pc EXCEPT ![j] = "queued"] /\ queue' = Append(queue, j) /\ queue \in Seq(Jobs)
    BY <1>3 DEF WatchAndExecThreaded, Goto, TypeOK
  <2>2. QueueInv'
    <3>1. /\ Len(queue) \in Nat /\ DOMAIN queue = 1..Len(queue)
          /\ DOMAIN queue' = 1..Len(queue) + 1 /\ queue'[Len(queue) + 1] = j
          /\ \A i \in DOMAIN queue : queue'[i] = queue[i] /\ queue[i] \in Jobs
      BY <2>1
    <3>2. \A i \in DOMAIN queue : queue[i] # j
      BY <2>1 DEF QueueInv
    <3>3. \A i \in DOMAIN queue' : i \in DOMAIN queue \/ i = Len(queue) + 1
      BY <3>1
    <3>4. \A i \in DOMAIN queue' : pc'[queue'[i]] = "queued"
      BY <2>1, <3>1, <3>3 DEF QueueInv, TypeOK
    <3>5. \A i, k \in DOMAIN queue' : queue'[i] = queue'[k] => i = k
      BY <3>1, <3>2, <3>3 DEF QueueInv
    <3> QED
      BY <3>4, <3>5 DEF QueueInv
  <2>3. OneWatch'
    BY <2>1 DEF OneWatch, TypeOK, Waiting
  <2> QED
    BY <2>1, <2>2, <2>3 DEF ClosedLast
<1>4. CASE Beside
  <2>1. UNCHANGED <<queue, pc>>
    BY <1>4 DEF Beside, JoinWatcher, Exec, Destruct, Returns, Close, Write, Remove, vars
  <2>2. /\ main = "gone" => main' = "gone"
        /\ main' = "gone" /\ main # "gone" => Outstanding = {} /\ ~luaOpen'
        /\ main' # "gone" \/ main = "gone" => luaOpen' = luaOpen
    BY <1>4 DEF Beside, JoinWatcher, Exec, Destruct, Returns, Close, Write, Remove, vars
  <2>3. ClosedLast'
    BY <2>1, <2>2 DEF ClosedLast, Outstanding
  <2> QED
    BY <2>1, <2>3 DEF QueueInv, OneWatch
<1> QED
  BY <1>1, <1>2, <1>3, <1>4, Steps

\* The variables of the executor and its watches stay in their types.
THEOREM TypeCorrect == Spec => []TypeOK
<1>1. Init => TypeOK
  BY InitInv
<1> QED
  BY <1>1, TypeStep, PTL DEF Spec

\* The Lua state is closed after the last watch, and no two watches are in it.
THEOREM OneAtATime == Spec => []LuaHeld
<1>1. Init => TypeOK /\ LuaInv
  BY InitInv
<1>2. TypeOK /\ LuaInv /\ [Next]_vars => TypeOK' /\ LuaInv'
  BY TypeStep, LuaStep
<1>3. LuaInv => LuaHeld
  <2> SUFFICES ASSUME LuaInv PROVE LuaHeld
    OBVIOUS
  <2>1. luaOpen \/ Outstanding = {}
    BY DEF LuaInv, ClosedLast
  <2>2. InLua = {} \/ \E j \in Jobs : InLua = {j}
    BY DEF LuaInv, OneWatch, InLua, Waiting
  <2>3. Cardinality(InLua) <= 1
    BY <2>2, FS_EmptySet, FS_Singleton
  <2> QED
    BY <2>1, <2>3 DEF LuaHeld
<1> QED
  BY <1>1, <1>2, <1>3, PTL DEF Spec

-----------------------------------------------------------------------------
(* How often a version is run *)

LEMMA RunsStep == TypeOK /\ RunsInv /\ [Next]_vars => RunsInv'
<1> SUFFICES ASSUME TypeOK, RunsInv, [Next]_vars PROVE RunsInv'
  OBVIOUS
<1> USE VersionAssumption
<1>1. ASSUME NEW j \in Jobs, InWatch(j) PROVE RunsInv'
  <2>1. /\ version' = version /\ version \in Nat /\ lastWrite[j] \in Nat
        /\ Versions \subseteq Nat /\ \A v \in Versions : runs[j][v] \in Nat
    BY <1>1 DEF InWatch, Start, Fails, FirstStat, Continue, Leave, PollChanged, PollSame,
                LoadScript, LoadFails, ScriptEnds, Typed, disk, TypeOK, Versions
  <2>2. /\ \A k \in Jobs \ {j} : /\ pc'[k] = pc[k] /\ lastWrite'[k] = lastWrite[k]
                                 /\ (k \in once' <=> k \in once)
        /\ \A k \in Jobs \ {j} : runs'[k] = runs[k]
    <3>1. \A k \in Jobs \ {j} : pc'[k] = pc[k]
      BY <1>1, WatchMoves DEF TypeOK
    <3>2. \A k \in Jobs \ {j} : lastWrite'[k] = lastWrite[k] /\ (k \in once' <=> k \in once)
      BY <1>1 DEF InWatch, Start, Fails, FirstStat, Continue, Leave, PollChanged, PollSame,
                  LoadScript, LoadFails, ScriptEnds, Typed, watch, TypeOK
    <3>3. \A k \in Jobs \ {j} : runs'[k] = runs[k]
      BY <1>1 DEF InWatch, Start, Fails, FirstStat, Continue, Leave, PollChanged, PollSame,
                  LoadScript, LoadFails, ScriptEnds, Typed, watch, TypeOK
    <3> QED
      BY <3>1, <3>2, <3>3
  <2>3. ASSUME NEW k \in Jobs \ {j}
        PROVE  lastWrite'[k] <= version' /\ \A v \in Versions : runs'[k][v] <= Allowed(k, v)'
    BY <2>1, <2>2 DEF RunsInv, Allowed
  <2>4. lastWrite'[j] <= version' /\ \A v \in Versions : runs'[j][v] <= Allowed(j, v)'
    <3>1. CASE PollChanged(j)
      <4>1. /\ pc[j] = "poll" /\ pc'[j] = "load" /\ lastWrite'[j] = version
            /\ once' = once /\ runs' = runs /\ Changed(j)
        BY <3>1 DEF PollChanged, Goto, TypeOK
      <4> QED
        BY <2>1, <4>1 DEF RunsInv, Allowed, Changed
    <3>2. CASE LoadScript(j)
      <4>1. /\ pc[j] = "load" /\ pc'[j] = "run" /\ lastWrite' = lastWrite /\ once' = once
            /\ runs' = [runs EXCEPT ![j] = [runs[j] EXCEPT ![version] = @ + 1]]
        BY <3>2 DEF LoadScript, Goto, TypeOK
      <4>2. \A v \in Versions : runs'[j][v] = runs[j][v] + (IF v = version THEN 1 ELSE 0)
        <5>1. runs'[j] = [runs[j] EXCEPT ![version] = @ + 1]
          BY <4>1 DEF TypeOK
        <5>2. runs[j] \in [Versions -> Nat] /\ version \in Versions
          BY DEF TypeOK
        <5> QED
          BY <2>1, <5>1, <5>2
      <4> QED
        BY <2>1, <4>1, <4>2 DEF RunsInv, Allowed
    <3>3. CASE FirstStat(j)
      <4>1. /\ pc[j] = "stat" /\ pc'[j] = "test" /\ lastWrite'[j] = version
            /\ once' = once /\ runs' = runs
        BY <3>3 DEF FirstStat, Goto, TypeOK
      <4> QED
        BY <2>1, <4>1 DEF RunsInv, Allowed
    <3>4. CASE ~PollChanged(j) /\ ~LoadScript(j) /\ ~FirstStat(j)
      <4>1. /\ pc'[j] # "load" /\ lastWrite' = lastWrite /\ runs' = runs
            /\ j \in once => j \in once'
            /\ pc[j] = "run" => j \in once'
        BY <1>1, <3>4 DEF InWatch, Start, Fails, Continue, Leave, PollSame, LoadFails, ScriptEnds,
                          Typed, Goto, watch, TypeOK
      <4> QED
        BY <2>1, <4>1 DEF RunsInv, Allowed
    <3> QED
      BY <3>1, <3>2, <3>3, <3>4
  <2> QED
    BY <2>3, <2>4 DEF RunsInv
<1>2. ASSUME NEW j \in Jobs, Take(j) \/ WatchAndExecThreaded(j) PROVE RunsInv'
  <2>1. /\ UNCHANGED <<version, lastWrite, once, runs>>
        /\ \A k \in Jobs : pc'[k] = pc[k] \/ (pc'[k] \in {"queued", "begun"} /\ pc[k] \in Waiting)
    BY <1>2 DEF Take, WatchAndExecThreaded, Goto, disk, watch, TypeOK, Waiting
  <2> QED
    BY <2>1 DEF RunsInv, Allowed, Waiting
<1>3. CASE Beside
  <2>1. /\ UNCHANGED <<pc, lastWrite, once, runs>>
        /\ version' \in {version, version + 1}
    BY <1>3 DEF Beside, JoinWatcher, Exec, Destruct, Returns, Close, Write, Remove, vars, disk, watch
  <2>2. /\ version \in Nat /\ Versions \subseteq Nat /\ \A j \in Jobs : lastWrite[j] \in Nat
        /\ \A j \in Jobs, v \in Versions : runs[j][v] \in Nat
    BY DEF TypeOK, Versions
  <2> QED
    BY <2>1, <2>2 DEF RunsInv, Allowed
<1> QED
  BY <1>1, <1>2, <1>3, Steps

\* A watch runs a version at most twice, however the writes fall between its
\* look at the time and its reading of the file.
THEOREM AtMostTwice == Spec => []RunsTwice
<1>1. Init => TypeOK /\ RunsInv
  BY InitInv
<1>2. TypeOK /\ RunsInv /\ [Next]_vars => TypeOK' /\ RunsInv'
  BY TypeStep, RunsStep
<1>3. TypeOK /\ RunsInv => RunsTwice
  <2> SUFFICES ASSUME TypeOK, RunsInv, NEW j \in Jobs, NEW v \in Versions PROVE runs[j][v] <= 2
    BY DEF RunsTwice
  <2>1. runs[j][v] \in Nat /\ runs[j][v] <= Allowed(j, v) /\ Allowed(j, v) \in 0..2
    BY DEF TypeOK, RunsInv, Allowed
  <2> QED
    BY <2>1
<1> QED
  BY <1>1, <1>2, <1>3, PTL DEF Spec
=============================================================================
