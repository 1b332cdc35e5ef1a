------------------------------ MODULE GitProofs ------------------------------
(* Proofs about Git, for any threads, handles, paths, branches and contents  *)
(* and any number of calls: HEAD always names a commit; branches only grow;  *)
(* a commit holds what was staged; and a reset repairs what a checkout left. *)
EXTENDS Git, TLAPS

-----------------------------------------------------------------------------
(* What the steps on an index do *)

\* Whatever is staged or read, the index in memory is a tree (git_index_* keep
\* an index well formed).
LEMMA IndexTypes ==
  ASSUME NEW h \in Handles, TypeOK
  PROVE  /\ Opened(h) \in Trees /\ Synced(h) \in Trees
         /\ \A i \in Trees : Remember(h, i) \/ WriteIndex(h, i) \/ ReadIndex(h)
              => /\ index' \in Trees /\ mem' \in [Handles -> Trees \cup {NotLoaded}]
                 /\ mem'[h] # NotLoaded
                 /\ fresh' \subseteq Handles /\ dirty' \subseteq Handles
<1>1. Opened(h) \in Trees /\ Synced(h) \in Trees
  BY DEF TypeOK, Opened, Synced, Outdated
<1>2. ASSUME NEW i \in Trees, Remember(h, i) \/ WriteIndex(h, i) \/ ReadIndex(h)
      PROVE  /\ index' \in Trees /\ mem' \in [Handles -> Trees \cup {NotLoaded}]
             /\ mem'[h] # NotLoaded
             /\ fresh' \subseteq Handles /\ dirty' \subseteq Handles
  BY <1>1, <1>2, AbsentAssumption DEF TypeOK, Remember, WriteIndex, ReadIndex
<1> QED
  BY <1>1, <1>2

\* HEAD is a commit that exists (git_repository_head does not fail).
LEMMA HeadExists ==
  ASSUME RefsOK
  PROVE  /\ HeadCommit \in DOMAIN commits /\ DOMAIN commits = 1..Len(commits)
         /\ Len(commits) \in Nat
         /\ \A c \in DOMAIN commits : TreeOf(c) \in Trees
<1> DEFINE C == [tree : Trees, parent : Nat]
<1>1. commits \in Seq(C) /\ tips \in [Branches -> 0..Len(commits)]
  BY DEF RefsOK
<1>2. DOMAIN commits = 1..Len(commits) /\ Len(commits) \in Nat
  BY <1>1
<1>3. \A c \in DOMAIN commits : TreeOf(c) \in Trees
  <2>1. \A c \in DOMAIN commits : commits[c] \in C
    <3> HIDE DEF C
    <3> QED
      BY <1>1, <1>2
  <2> QED
    BY <2>1 DEF TreeOf
<1>4. HeadCommit \in DOMAIN commits
  BY <1>1, <1>2, MainAssumption DEF RefsOK, HeadCommit
<1> QED
  BY <1>2, <1>3, <1>4

\* A commit, a reset or a detached HEAD leaves HEAD on a commit that exists.
LEMMA MoveHeadType ==
  ASSUME RefsOK, NEW c \in DOMAIN commits', MoveHead(c),
         commits' \in Seq([tree : Trees, parent : Nat]), Len(commits) <= Len(commits')
  PROVE  RefsOK'
<1>1. c \in 1..Len(commits') /\ c # 0 /\ Len(commits) \in Nat /\ Len(commits') \in Nat
  BY DEF RefsOK
<1>2. CASE head \in Branches
  BY <1>1, <1>2, MainAssumption DEF RefsOK, MoveHead
<1>3. CASE head \notin Branches
  BY <1>1, <1>3, MainAssumption DEF RefsOK, MoveHead
<1> QED
  BY <1>2, <1>3

-----------------------------------------------------------------------------
(* Types *)

\* Trees that are cut out of trees are trees.
LEMMA TreeTypes ==
  ASSUME TypeOK
  PROVE  /\ \A h \in Handles, i \in Trees : Swept(h, i) \in Trees
         /\ \A h \in Handles, c \in DOMAIN commits : Forced(h, c) \in Trees
         /\ \A i \in Trees, c \in DOMAIN commits : Updated(i, c) \in Trees
<1>1. HeadTree \in Trees /\ \A c \in DOMAIN commits : TreeOf(c) \in Trees
  BY HeadExists DEF TypeOK, HeadTree
<1>2. work \in Trees
  BY DEF TypeOK
<1>3. \A h \in Handles, i \in Trees : Swept(h, i) \in Trees
  BY <1>2, AbsentAssumption DEF Swept, Trees
<1>4. ASSUME NEW h \in Handles, NEW c \in DOMAIN commits PROVE Forced(h, c) \in Trees
  <2>1. TreeOf(c) \in [Paths -> Contents] /\ work \in [Paths -> Contents]
    BY <1>1, <1>2 DEF Trees
  <2> QED
    BY <2>1 DEF Forced, Trees
<1>5. ASSUME NEW i \in Trees, NEW c \in DOMAIN commits PROVE Updated(i, c) \in Trees
  <2>1. TreeOf(c) \in [Paths -> Contents] /\ i \in [Paths -> Contents]
    BY <1>1 DEF Trees
  <2> QED
    BY <2>1 DEF Updated, Trees
<1> QED
  BY <1>3, <1>4, <1>5

\* A thread that starts, goes on or ends is in one of the places of Ops.
LEMMA OpTypes ==
  ASSUME TypeOK, NEW t \in Threads, NEW o, op' = [op EXCEPT ![t] = o],
         commits' = commits, o \in Ops
  PROVE  op' \in [Threads -> Ops]'
<1>1. Ops' = Ops
  BY DEF Ops, Idle
<1> QED
  BY <1>1 DEF TypeOK

\* The calls in progress are in the same places after a commit.
LEMMA OpsGrow ==
  ASSUME TypeOK, NEW c \in [tree : Trees, parent : Nat], commits' = Append(commits, c)
  PROVE  Ops \subseteq Ops' /\ DOMAIN commits \subseteq DOMAIN commits'
<1>1. DOMAIN commits \subseteq DOMAIN commits'
  BY DEF TypeOK, RefsOK
<1> QED
  BY <1>1 DEF Ops, Idle

\* Every step keeps the types: HEAD and the calls in progress name commits that
\* exist, and what is committed, staged or checked out is a tree.
LEMMA TypeStep ==
  ASSUME TypeOK, MutexInv, [Next]_vars
  PROVE  TypeOK'
<1> USE DEF Begins, Continues
<1>1. ASSUME NEW t \in Threads, NEW h \in Handles, NEW p \in Paths, Add(t, h, p)
      PROVE  TypeOK'
  <2> DEFINE o == [at |-> "write", handle |-> h, path |-> p, content |-> work[p]]
             i == IF work[p] = Absent THEN Opened(h) ELSE [Opened(h) EXCEPT ![p] = work[p]]
  <2>1. work[p] \in Contents
    BY DEF TypeOK, Trees
  <2>2. i \in Trees
    BY <2>1, IndexTypes DEF Trees
  <2>3. op' \in [Threads -> Ops]'
    <3>1. o \in Ops
      BY <2>1 DEF Ops
    <3>2. op' = [op EXCEPT ![t] = o] /\ commits' = commits
      BY <1>1 DEF Add, Enter, refs
    <3> QED
      BY <3>1, <3>2, OpTypes
  <2>4. Remember(h, i)
    BY <1>1 DEF Add
  <2>5. RefsOK'
    BY <1>1 DEF Add, refs, TypeOK, RefsOK
  <2> QED
    BY <1>1, <2>2, <2>3, <2>4, <2>5, IndexTypes DEF Add, TypeOK, history
<1>2. ASSUME NEW t \in Threads, AddWrites(t) PROVE TypeOK'
  <2> DEFINE h == op[t].handle
  <2>1. h \in Handles /\ op[t].at = "write" /\ mem[h] \in Trees
    <3>1. op[t] \in Ops /\ op[t].at = "write"
      BY <1>2 DEF AddWrites, TypeOK
    <3>2. h \in Handles
      BY <3>1 DEF Ops, Idle
    <3> QED
      BY <3>1, <3>2 DEF TypeOK, MutexInv, Loaded
  <2>2. Added(t) \in Trees
    <3>1. op[t] \in [at : {"write"}, handle : Handles, path : Paths, content : Contents]
      BY <2>1 DEF TypeOK, Ops, Idle
    <3> QED
      BY <3>1 DEF Added, TypeOK, Trees
  <2>3. op' \in [Threads -> Ops]'
    BY <1>2, OpTypes DEF AddWrites, Return, refs, Ops
  <2>4. RefsOK'
    BY <1>2 DEF AddWrites, refs, TypeOK, RefsOK
  <2>5. WriteIndex(h, mem[h])
    BY <1>2 DEF AddWrites
  <2> QED
    BY <1>2, <2>1, <2>2, <2>3, <2>4, <2>5, IndexTypes DEF AddWrites, TypeOK
<1>3. ASSUME NEW t \in Threads, NEW h \in Handles, AddAll(t, h) PROVE TypeOK'
  <2>1. Swept(h, Opened(h)) \in Trees /\ Swept(h, stage) \in Trees
    BY TreeTypes, IndexTypes DEF TypeOK
  <2>2. op' \in [Threads -> Ops]'
    BY <1>3, OpTypes DEF AddAll, Enter, refs, Ops
  <2>3. RefsOK'
    BY <1>3 DEF AddAll, refs, TypeOK, RefsOK
  <2>4. Remember(h, Swept(h, Opened(h)))
    BY <1>3 DEF AddAll
  <2> QED
    BY <1>3, <2>1, <2>2, <2>3, <2>4, IndexTypes DEF AddAll, TypeOK
<1>4. ASSUME NEW h \in Handles, NEW p \in Paths, AddIgnoreRule(h, p) PROVE TypeOK'
  BY <1>4 DEF AddIgnoreRule, refs, indexes, history, TypeOK, RefsOK, Ops
<1>5. ASSUME NEW t \in Threads, NEW h \in Handles, CommitReads(t, h) PROVE TypeOK'
  <2> DEFINE o == [at |-> "head", handle |-> h, tree |-> mem'[h], wanted |-> stage]
  <2>1. ReadIndex(h) /\ mem'[h] \in Trees
    BY <1>5, IndexTypes DEF CommitReads, ReadIndex, TypeOK
  <2>2. op' \in [Threads -> Ops]'
    <3>1. o \in Ops
      BY <2>1 DEF Ops, TypeOK
    <3> QED
      BY <1>5, <3>1, OpTypes DEF CommitReads, Enter, refs
  <2>3. RefsOK'
    BY <1>5 DEF CommitReads, refs, TypeOK, RefsOK
  <2>4. stage \in Trees
    BY DEF TypeOK
  <2> QED
    BY <1>5, <2>1, <2>2, <2>3, <2>4, IndexTypes DEF CommitReads, TypeOK
<1>6. ASSUME NEW t \in Threads, CommitFindsParent(t) PROVE TypeOK'
  <2> DEFINE o == [at |-> "create", handle |-> op[t].handle, tree |-> op[t].tree,
                   wanted |-> op[t].wanted, parent |-> HeadCommit]
  <2>1. op[t] \in [at : {"head"}, handle : Handles, tree : Trees, wanted : Trees]
    BY <1>6 DEF CommitFindsParent, TypeOK, Ops, Idle
  <2>2. HeadCommit \in Nat
    BY HeadExists DEF TypeOK
  <2>3. o \in Ops
    BY <2>1, <2>2 DEF Ops
  <2>4. op' \in [Threads -> Ops]'
    BY <1>6, <2>3, OpTypes DEF CommitFindsParent, refs
  <2> QED
    BY <1>6, <2>4 DEF CommitFindsParent, refs, indexes, history, TypeOK, RefsOK
<1>7. ASSUME NEW t \in Threads, CommitCreates(t) PROVE TypeOK'
  <2> DEFINE c == [tree |-> op[t].tree, parent |-> op[t].parent]
  <2>1. c \in [tree : Trees, parent : Nat]
    <3>1. op[t] \in [at : {"create"}, handle : Handles, tree : Trees, wanted : Trees, parent : Nat]
      BY <1>7 DEF CommitCreates, TypeOK, Ops, Idle
    <3> QED
      BY <3>1
  <2>2. commits' = Append(commits, c)
    BY <1>7 DEF CommitCreates
  <2>3. /\ commits' \in Seq([tree : Trees, parent : Nat])
        /\ Len(commits') = Len(commits) + 1 /\ Len(commits) \in Nat
        /\ Len(commits) + 1 \in DOMAIN commits'
    BY <2>1, <2>2 DEF TypeOK, RefsOK
  <2>4. RefsOK'
    <3>1. MoveHead(Len(commits) + 1) /\ RefsOK /\ Len(commits) <= Len(commits')
      BY <1>7, <2>3 DEF CommitCreates, TypeOK
    <3> QED
      BY <2>3, <3>1, MoveHeadType
  <2>5. op' \in [Threads -> Ops]'
    BY <1>7, <2>1, <2>2, OpsGrow DEF CommitCreates, Return, TypeOK, Ops
  <2> QED
    BY <1>7, <2>4, <2>5 DEF CommitCreates, indexes, history, TypeOK
<1>8. ASSUME NEW t \in Threads, CommitThrows(t) PROVE TypeOK'
  <2>1. op' \in [Threads -> Ops]'
    BY <1>8, OpTypes DEF CommitThrows, Return, refs, Ops
  <2> QED
    BY <1>8, <2>1 DEF CommitThrows, refs, indexes, history, TypeOK, RefsOK
<1>9. ASSUME NEW t \in Threads, NEW h \in Handles, ResetResolves(t, h) PROVE TypeOK'
  <2> DEFINE o == [at |-> "reset", handle |-> h, commit |-> HeadCommit]
  <2>1. o \in Ops
    BY HeadExists DEF TypeOK, Ops
  <2>2. op' \in [Threads -> Ops]'
    BY <1>9, <2>1, OpTypes DEF ResetResolves, refs
  <2> QED
    BY <1>9, <2>2 DEF ResetResolves, refs, indexes, history, TypeOK, RefsOK
<1>10. ASSUME NEW t \in Threads, Resets(t) PROVE TypeOK'
  <2> DEFINE h == op[t].handle
             c == op[t].commit
  <2>1. h \in Handles /\ c \in DOMAIN commits
    <3>1. op[t] \in [at : {"reset", "detach"}, handle : Handles, commit : DOMAIN commits]
      BY <1>10 DEF Resets, TypeOK, Ops, Idle
    <3> QED
      BY <3>1
  <2>2. TreeOf(c) \in Trees /\ Forced(h, c) \in Trees
    BY <2>1, TreeTypes, HeadExists DEF TypeOK
  <2>3. commits' = commits /\ MoveHead(c) /\ WriteIndex(h, TreeOf(c))
    BY <1>10 DEF Resets
  <2>4. RefsOK'
    <3>1. RefsOK /\ Len(commits) <= Len(commits') /\ c \in DOMAIN commits'
          /\ commits' \in Seq([tree : Trees, parent : Nat])
      BY <2>1, <2>3 DEF TypeOK, RefsOK
    <3> QED
      BY <2>3, <3>1, MoveHeadType
  <2>5. op' \in [Threads -> Ops]'
    BY <1>10, OpTypes DEF Resets, Return, Ops
  <2> QED
    BY <1>10, <2>1, <2>2, <2>3, <2>4, <2>5, IndexTypes DEF Resets, TypeOK
<1>11. ASSUME NEW t \in Threads, NEW h \in Handles, NEW b \in Branches, CheckoutBranch(t, h, b)
       PROVE  TypeOK'
  <2> DEFINE o == [at |-> "checkout", handle |-> h]
  <2>1. o \in Ops
    BY DEF Ops
  <2>2. op' \in [Threads -> Ops]'
    BY <1>11, <2>1, OpTypes DEF CheckoutBranch, Enter
  <2>3. RefsOK'
    BY <1>11 DEF CheckoutBranch, TypeOK, RefsOK
  <2> QED
    BY <1>11, <2>2, <2>3 DEF CheckoutBranch, indexes, history, TypeOK
<1>12. ASSUME NEW t \in Threads, CheckoutHead(t) PROVE TypeOK'
  <2> DEFINE h == op[t].handle
  <2>1. h \in Handles
    <3>1. op[t] \in [at : {"checkout"}, handle : Handles]
      BY <1>12 DEF CheckoutHead, TypeOK, Ops, Idle
    <3> QED
      BY <3>1
  <2>2. op' \in [Threads -> Ops]'
    BY <1>12, OpTypes DEF CheckoutHead, Return, refs, Ops
  <2>3. RefsOK' /\ WriteIndex(h, Synced(h))
    BY <1>12 DEF CheckoutHead, refs, TypeOK, RefsOK
  <2> QED
    BY <1>12, <2>1, <2>2, <2>3, IndexTypes DEF CheckoutHead, TypeOK
<1>13. ASSUME NEW t \in Threads, NEW h \in Handles, NEW c \in DOMAIN commits, CheckoutCommit(t, h, c)
       PROVE  TypeOK'
  <2> DEFINE o == [at |-> "detach", handle |-> h, commit |-> c]
  <2>1. o \in Ops
    BY DEF Ops
  <2>2. op' \in [Threads -> Ops]'
    BY <1>13, <2>1, OpTypes DEF CheckoutCommit, Enter, refs
  <2>3. RefsOK'
    BY <1>13 DEF CheckoutCommit, refs, TypeOK, RefsOK
  <2>4. {work', index', stage'} \subseteq Trees /\ mem' \in [Handles -> Trees \cup {NotLoaded}]
        /\ fresh' \subseteq Handles /\ dirty' \subseteq Handles
    <3>1. CASE Refused(c)
      <4>1. ReadIndex(h) /\ work' = work /\ stage' = stage
        BY <1>13, <3>1 DEF CheckoutCommit
      <4>2. {work, stage} \subseteq Trees
        BY DEF TypeOK
      <4> QED
        BY <4>1, <4>2, IndexTypes
    <3>2. CASE ~Refused(c)
      <4>1. work' = Updated(work, c) /\ WriteIndex(h, Updated(Synced(h), c)) /\ stage' = Updated(stage, c)
        BY <1>13, <3>2 DEF CheckoutCommit
      <4>2. Updated(work, c) \in Trees /\ Updated(Synced(h), c) \in Trees /\ Updated(stage, c) \in Trees
        BY TreeTypes, IndexTypes DEF TypeOK
      <4> QED
        BY <4>1, <4>2, IndexTypes
    <3> QED
      BY <3>1, <3>2
  <2> QED
    BY <1>13, <2>2, <2>3, <2>4 DEF CheckoutCommit, TypeOK
<1>14. ASSUME NEW t \in Threads, Detach(t) PROVE TypeOK'
  <2>1. op[t].commit \in DOMAIN commits
    <3>1. op[t] \in [at : {"reset", "detach"}, handle : Handles, commit : DOMAIN commits]
      BY <1>14 DEF Detach, TypeOK, Ops, Idle
    <3> QED
      BY <3>1
  <2>2. op' \in [Threads -> Ops]'
    BY <1>14, OpTypes DEF Detach, Return, Ops
  <2>3. RefsOK'
    BY <1>14, <2>1 DEF Detach, TypeOK, RefsOK
  <2> QED
    BY <1>14, <2>2, <2>3 DEF Detach, indexes, history, TypeOK
<1>15. ASSUME NEW t \in Threads, NEW h \in Handles, NEW b \in Branches, BranchCreate(t, h, b)
       PROVE  TypeOK'
  <2>1. op' \in [Threads -> Ops]'
    BY <1>15, OpTypes DEF BranchCreate, Enter, Ops
  <2>2. HeadCommit \in 1..Len(commits) /\ HeadCommit # 0
    BY HeadExists DEF TypeOK
  <2>3. RefsOK'
    BY <1>15, <2>2 DEF BranchCreate, TypeOK, RefsOK
  <2> QED
    BY <1>15, <2>1, <2>3 DEF BranchCreate, indexes, history, TypeOK
<1>16. ASSUME NEW t \in Threads, NEW h \in Handles, Diff(t, h) PROVE TypeOK'
  <2>1. ReadIndex(h) /\ RefsOK' /\ op' \in [Threads -> Ops]'
    BY <1>16 DEF Diff, refs, TypeOK, RefsOK, Ops
  <2>2. NotLoaded \notin Trees /\ {work, stage, index} \subseteq Trees
    BY AbsentAssumption DEF TypeOK
  <2> QED
    BY <1>16, <2>1, <2>2, IndexTypes DEF Diff, TypeOK
<1>17. ASSUME NEW p \in Paths, NEW c \in Contents, Edit(p, c) PROVE TypeOK'
  <2>1. work' \in Trees
    BY <1>17 DEF Edit, TypeOK, Trees
  <2> QED
    BY <1>17, <2>1 DEF Edit, refs, indexes, history, TypeOK, RefsOK, Ops
<1>18. ASSUME Exit PROVE TypeOK'
  <2>1. op' \in [Threads -> Ops]'
    BY <1>18 DEF Exit, Ops
  <2> QED
    BY <1>18, <2>1 DEF Exit, refs, TypeOK, RefsOK
<1>19. CASE UNCHANGED vars
  BY <1>19 DEF vars, refs, indexes, history, TypeOK, RefsOK, Ops
<1> QED
  BY <1>1, <1>2, <1>3, <1>4, <1>5, <1>6, <1>7, <1>8, <1>9, <1>10, <1>11, <1>12, <1>13, <1>14,
     <1>15, <1>16, <1>17, <1>18, <1>19, TreeAssumption DEF Next

-----------------------------------------------------------------------------
(* The mutex *)

\* The lock_guard lets one thread past it, and the steps of a call keep it.
LEMMA LockTaken ==
  ASSUME TypeOK, Exclusive, NEW t \in Threads, NEW h \in Handles, NEW o,
         Enter(t, h, o), o = Idle \/ o.handle = h
  PROVE  Exclusive'
<1>1. /\ op'[t] = o /\ \A u \in Threads \ {t} : op'[u] = op[u]
      /\ \A u \in Threads : Holds(u) => op[u].handle # h
  BY DEF Enter, Free, TypeOK, Holds
<1>2. CASE o = Idle
  BY <1>1, <1>2 DEF Exclusive, Holds, Idle
<1>3. CASE o.handle = h
  BY <1>1, <1>3 DEF Exclusive, Holds
<1> QED
  BY <1>2, <1>3

LEMMA LockKept ==
  ASSUME TypeOK, Exclusive, NEW t \in Threads, NEW o, op' = [op EXCEPT ![t] = o],
         \/ o.at \in {"idle", "reset"}
         \/ Holds(t) /\ o.handle = op[t].handle
  PROVE  Exclusive'
<1>1. op'[t] = o /\ \A u \in Threads \ {t} : op'[u] = op[u]
  BY DEF TypeOK
<1> QED
  BY <1>1 DEF Exclusive, Holds

\* A step on the index of h loads it, if it was not, and unloads nothing.
LEMMA LoadedKept ==
  ASSUME TypeOK, Loaded, NEW h \in Handles, NEW i \in Trees,
         Remember(h, i) \/ WriteIndex(h, i) \/ ReadIndex(h),
         \A u \in Threads : op'[u].at = "write" => op'[u] = op[u] \/ op'[u].handle = h
  PROVE  Loaded'
<1>1. mem'[h] # NotLoaded
  BY IndexTypes
<1>2. \A g \in Handles \ {h} : mem'[g] = mem[g]
  BY DEF TypeOK, Remember, WriteIndex, ReadIndex
<1>3. dirty' \subseteq dirty \cup {h} /\ dirty \subseteq Handles
  BY DEF TypeOK, Remember, WriteIndex, ReadIndex
<1>4. \A g \in dirty' : mem'[g] # NotLoaded
  BY <1>1, <1>2, <1>3 DEF Loaded
<1>5. ASSUME NEW u \in Threads, op'[u].at = "write"
      PROVE  mem'[op'[u].handle] # NotLoaded
  <2>1. CASE op'[u].handle = h
    BY <1>1, <2>1
  <2>2. CASE op'[u].handle # h
    <3>1. op'[u] = op[u] /\ op[u].at = "write"
      BY <1>5, <2>2
    <3>2. op[u].handle \in Handles
      BY <3>1 DEF TypeOK, Ops, Idle
    <3> QED
      BY <1>2, <2>2, <3>1, <3>2 DEF Loaded
  <2> QED
    BY <2>1, <2>2
<1> QED
  BY <1>4, <1>5 DEF Loaded

\* Nobody begins to write, and the indexes stay: what was loaded stays so.
LEMMA LoadedStays ==
  ASSUME Loaded, UNCHANGED indexes,
         \A u \in Threads : op'[u].at = "write" => op'[u] = op[u]
  PROVE  Loaded'
BY DEF Loaded, indexes

\* A call that goes on or ends is in no add's second step.
LEMMA NoWrite ==
  ASSUME TypeOK, NEW t \in Threads, NEW o, op' = [op EXCEPT ![t] = o], o.at # "write"
  PROVE  \A u \in Threads : op'[u].at = "write" => op'[u] = op[u]
BY DEF TypeOK

\* Every step keeps a handle's mutex with one thread.
LEMMA MutexStep ==
  ASSUME TypeOK, MutexInv, [Next]_vars
  PROVE  MutexInv'
<1> USE DEF Begins, Continues, MutexInv
<1>1. ASSUME NEW t \in Threads, NEW h \in Handles, NEW p \in Paths, Add(t, h, p)
      PROVE  MutexInv'
  <2> DEFINE o == [at |-> "write", handle |-> h, path |-> p, content |-> work[p]]
             i == IF work[p] = Absent THEN Opened(h) ELSE [Opened(h) EXCEPT ![p] = work[p]]
  <2>1. Remember(h, i) /\ Enter(t, h, o) /\ i \in Trees
    <3>1. work[p] \in Contents
      BY DEF TypeOK, Trees
    <3> QED
      BY <1>1, <3>1, IndexTypes DEF Add, Trees
  <2>2. \A u \in Threads : op'[u].at = "write" => op'[u] = op[u] \/ op'[u].handle = h
    BY <2>1 DEF Enter, TypeOK
  <2>3. o.handle = h
    OBVIOUS
  <2> HIDE DEF o, i
  <2> QED
    BY <2>1, <2>2, <2>3, LockTaken, LoadedKept
<1>2. ASSUME NEW t \in Threads, AddWrites(t) PROVE MutexInv'
  <2> DEFINE h == op[t].handle
  <2>1. op[t] \in [at : {"write"}, handle : Handles, path : Paths, content : Contents]
    BY <1>2 DEF AddWrites, TypeOK, Ops, Idle
  <2>2. h \in Handles /\ mem[h] \in Trees /\ WriteIndex(h, mem[h])
    BY <1>2, <2>1 DEF AddWrites, TypeOK, Loaded
  <2>3. op' = [op EXCEPT ![t] = Idle] /\ Idle.at = "idle"
    BY <1>2 DEF AddWrites, Return, Idle
  <2> QED
    BY <2>2, <2>3, NoWrite, LockKept, LoadedKept
<1>3. ASSUME NEW t \in Threads, NEW h \in Handles, AddAll(t, h) PROVE MutexInv'
  <2>1. Swept(h, Opened(h)) \in Trees /\ Remember(h, Swept(h, Opened(h))) /\ Enter(t, h, Idle)
    BY <1>3, TreeTypes, IndexTypes DEF AddAll
  <2>2. op' = [op EXCEPT ![t] = Idle] /\ Idle.at = "idle"
    BY <2>1 DEF Enter, Idle
  <2> QED
    BY <2>1, <2>2, NoWrite, LockKept, LoadedKept
<1>4. ASSUME NEW h \in Handles, NEW p \in Paths, AddIgnoreRule(h, p) PROVE MutexInv'
  BY <1>4 DEF AddIgnoreRule, indexes, Exclusive, Loaded, Holds
<1>5. ASSUME NEW t \in Threads, NEW h \in Handles, CommitReads(t, h) PROVE MutexInv'
  <2> DEFINE o == [at |-> "head", handle |-> h, tree |-> mem'[h], wanted |-> stage]
  <2>1. ReadIndex(h) /\ Enter(t, h, o) /\ index \in Trees
    BY <1>5 DEF CommitReads, TypeOK
  <2>2. op' = [op EXCEPT ![t] = o] /\ o.at = "head" /\ o.handle = h
    BY <2>1 DEF Enter
  <2> HIDE DEF o
  <2> QED
    BY <2>1, <2>2, NoWrite, LockTaken, LoadedKept
<1>6. ASSUME NEW t \in Threads, CommitFindsParent(t) PROVE MutexInv'
  <2> DEFINE o == [at |-> "create", handle |-> op[t].handle, tree |-> op[t].tree,
                   wanted |-> op[t].wanted, parent |-> HeadCommit]
  <2>1. op' = [op EXCEPT ![t] = o] /\ o.at = "create" /\ o.handle = op[t].handle
        /\ Holds(t) /\ UNCHANGED indexes
    BY <1>6 DEF CommitFindsParent, Holds
  <2> HIDE DEF o
  <2> QED
    BY <2>1, NoWrite, LockKept, LoadedStays
<1>7. ASSUME NEW t \in Threads, CommitCreates(t) \/ CommitThrows(t) \/ Detach(t) PROVE MutexInv'
  <2>1. op' = [op EXCEPT ![t] = Idle] /\ Idle.at = "idle" /\ UNCHANGED indexes
    BY <1>7 DEF CommitCreates, CommitThrows, Detach, Return, Idle
  <2> QED
    BY <2>1, NoWrite, LockKept, LoadedStays
<1>8. ASSUME NEW t \in Threads, NEW h \in Handles, ResetResolves(t, h) PROVE MutexInv'
  <2> DEFINE o == [at |-> "reset", handle |-> h, commit |-> HeadCommit]
  <2>1. op' = [op EXCEPT ![t] = o] /\ o.at = "reset" /\ UNCHANGED indexes
    BY <1>8 DEF ResetResolves
  <2> HIDE DEF o
  <2> QED
    BY <2>1, NoWrite, LockKept, LoadedStays
<1>9. ASSUME NEW t \in Threads, Resets(t) PROVE MutexInv'
  <2> DEFINE h == op[t].handle
             c == op[t].commit
  <2>1. h \in Handles /\ c \in DOMAIN commits
    <3>1. op[t] \in [at : {"reset", "detach"}, handle : Handles, commit : DOMAIN commits]
      BY <1>9 DEF Resets, TypeOK, Ops, Idle
    <3> QED
      BY <3>1
  <2>2. TreeOf(c) \in Trees /\ WriteIndex(h, TreeOf(c))
    BY <1>9, <2>1, HeadExists DEF TypeOK, Resets
  <2>3. op' = [op EXCEPT ![t] = Idle] /\ Idle.at = "idle"
    BY <1>9 DEF Resets, Return, Idle
  <2> QED
    BY <2>1, <2>2, <2>3, NoWrite, LockKept, LoadedKept
<1>10. ASSUME NEW t \in Threads, NEW h \in Handles, NEW b \in Branches, CheckoutBranch(t, h, b)
       PROVE  MutexInv'
  <2> DEFINE o == [at |-> "checkout", handle |-> h]
  <2>1. Enter(t, h, o) /\ o.at = "checkout" /\ o.handle = h /\ UNCHANGED indexes
    BY <1>10 DEF CheckoutBranch
  <2>2. op' = [op EXCEPT ![t] = o]
    BY <2>1 DEF Enter
  <2> HIDE DEF o
  <2> QED
    BY <2>1, <2>2, NoWrite, LockTaken, LoadedStays
<1>11. ASSUME NEW t \in Threads, CheckoutHead(t) PROVE MutexInv'
  <2> DEFINE h == op[t].handle
  <2>1. h \in Handles
    <3>1. op[t] \in [at : {"checkout"}, handle : Handles]
      BY <1>11 DEF CheckoutHead, TypeOK, Ops, Idle
    <3> QED
      BY <3>1
  <2>2. Synced(h) \in Trees /\ WriteIndex(h, Synced(h))
    BY <1>11, <2>1, IndexTypes DEF CheckoutHead
  <2>3. op' = [op EXCEPT ![t] = Idle] /\ Idle.at = "idle"
    BY <1>11 DEF CheckoutHead, Return, Idle
  <2> QED
    BY <2>1, <2>2, <2>3, NoWrite, LockKept, LoadedKept
<1>12. ASSUME NEW t \in Threads, NEW h \in Handles, NEW c \in DOMAIN commits, CheckoutCommit(t, h, c)
       PROVE  MutexInv'
  <2> DEFINE o == [at |-> "detach", handle |-> h, commit |-> c]
             i == Updated(Synced(h), c)
  <2>1. Enter(t, h, o) /\ o.at = "detach" /\ o.handle = h /\ i \in Trees /\ index \in Trees
        /\ (ReadIndex(h) \/ WriteIndex(h, i))
    BY <1>12, TreeTypes, IndexTypes DEF CheckoutCommit, TypeOK
  <2>2. op' = [op EXCEPT ![t] = o]
    BY <2>1 DEF Enter
  <2> HIDE DEF o, i
  <2> QED
    BY <2>1, <2>2, NoWrite, LockTaken, LoadedKept
<1>13. ASSUME NEW t \in Threads, NEW h \in Handles, NEW b \in Branches, BranchCreate(t, h, b)
       PROVE  MutexInv'
  <2>1. op' = [op EXCEPT ![t] = Idle] /\ Idle.at = "idle" /\ UNCHANGED indexes
    BY <1>13 DEF BranchCreate, Enter, Idle
  <2> QED
    BY <2>1, NoWrite, LockKept, LoadedStays
<1>14. ASSUME NEW t \in Threads, NEW h \in Handles, Diff(t, h) PROVE MutexInv'
  <2>1. ReadIndex(h) /\ op' = op /\ index \in Trees
    BY <1>14 DEF Diff, TypeOK
  <2>2. Exclusive'
    BY <2>1 DEF Exclusive, Holds
  <2> QED
    BY <2>1, <2>2, LoadedKept
<1>15. ASSUME NEW p \in Paths, NEW c \in Contents, Edit(p, c) PROVE MutexInv'
  BY <1>15 DEF Edit, indexes, Exclusive, Loaded, Holds
<1>16. ASSUME Exit PROVE MutexInv'
  BY <1>16 DEF Exit, Exclusive, Loaded, Holds, Idle
<1>17. CASE UNCHANGED vars
  BY <1>17 DEF vars, indexes, Exclusive, Loaded, Holds
<1> QED
  BY <1>1, <1>2, <1>3, <1>4, <1>5, <1>6, <1>7, <1>8, <1>9, <1>10, <1>11, <1>12, <1>13, <1>14,
     <1>15, <1>16, <1>17, TreeAssumption DEF Next

-----------------------------------------------------------------------------
(* Where what is staged is *)

\* No add begins or ends in the step.
WritersStay ==
  \A u \in Threads : op[u].at = "write" \/ op'[u].at = "write" => op'[u] = op[u]

\* A call that begins on h finds no add of another thread in progress on it.
LEMMA EnterAlone ==
  ASSUME TypeOK, NEW t \in Threads, NEW h \in Handles, NEW o, Enter(t, h, o)
  PROVE  /\ ~Adding(h) /\ op[t].at = "idle" /\ op' = [op EXCEPT ![t] = o]
         /\ o.at # "write" => WritersStay
BY DEF Enter, Free, Adding, Idle, TypeOK, WritersStay

\* A call in progress on h shuts adds on h out, and goes on without any.
LEMMA OnlyOne ==
  ASSUME TypeOK, Exclusive, NEW t \in Threads, Holds(t), op[t].at # "write",
         NEW o, op' = [op EXCEPT ![t] = o], o.at # "write"
  PROVE  ~Adding(op[t].handle) /\ WritersStay
BY DEF Exclusive, Holds, Adding, TypeOK, WritersStay

\* The index that h works on is all that was staged, if nobody else has any.
LEMMA OpenedIsStage ==
  ASSUME TypeOK, Loaded, StageInv, NEW h \in Handles, ~Adding(h), dirty \subseteq {h},
         mem[h] = NotLoaded \/ h \in fresh
  PROVE  Opened(h) = stage
<1>1. CASE h \in dirty
  BY <1>1 DEF Loaded, StageInv, Outdated, Opened
<1>2. CASE h \notin dirty
  BY <1>2 DEF StageInv, Outdated, Opened
<1> QED
  BY <1>1, <1>2

LEMMA SyncedIsStage ==
  ASSUME TypeOK, Loaded, StageInv, NEW h \in Handles, ~Adding(h), dirty \subseteq {h},
         ~DropsOwn(h)
  PROVE  Synced(h) = stage
<1>1. CASE Outdated(h)
  BY <1>1 DEF StageInv, DropsOwn, Synced
<1>2. CASE ~Outdated(h)
  BY <1>2, OpenedIsStage DEF Outdated, Opened, Synced
<1> QED
  BY <1>1, <1>2

\* Reading the index loses nothing that is staged.
LEMMA StageRead ==
  ASSUME TypeOK, StageInv, NEW h \in Handles, ReadIndex(h), ~DropsOwn(h), stage' = stage,
         WritersStay
  PROVE  StageInv'
<1>1. dirty' = dirty /\ index' = index
  BY DEF ReadIndex, DropsOwn
<1>2. ASSUME NEW g \in Handles, g # h
      PROVE  mem'[g] = mem[g] /\ (g \in fresh' <=> g \in fresh)
  BY <1>2 DEF ReadIndex, TypeOK
<1>3. h \in fresh' /\ mem'[h] = Synced(h)
  BY DEF ReadIndex, TypeOK
<1>4. \A g \in Handles : Adding(g)' <=> Adding(g)
  BY DEF Adding, WritersStay
<1>5. ASSUME NEW g \in Handles, ~Outdated(g)'
      PROVE  /\ g \notin dirty' => mem'[g] = index'
             /\ dirty' = {g} /\ ~Adding(g)' => mem'[g] = stage'
  <2>1. CASE g # h
    BY <1>1, <1>2, <1>4, <1>5, <2>1 DEF StageInv, Outdated
  <2>2. CASE g = h
    BY <1>1, <1>3, <1>4, <2>2 DEF StageInv, Synced, DropsOwn
  <2> QED
    BY <2>1, <2>2
<1>6. ASSUME NEW u \in Threads, op'[u].at = "write"
      PROVE  /\ op'[u].handle \in dirty'
             /\ op'[u].handle \in fresh' /\ dirty' = {op'[u].handle}
                  => mem'[op'[u].handle] = Added(u)'
  <2>1. op'[u] = op[u] /\ op[u].at = "write"
    BY <1>6 DEF WritersStay
  <2>2. Added(u)' = Added(u)
    BY <2>1 DEF Added
  <2>3. op[u].handle \in dirty /\ op[u].handle \in Handles
    BY <2>1 DEF StageInv, TypeOK
  <2>4. CASE op[u].handle # h
    BY <1>1, <1>2, <2>1, <2>2, <2>3, <2>4 DEF StageInv
  <2>5. CASE op[u].handle = h
    <3>1. ~Outdated(h)
      BY <2>3, <2>5 DEF DropsOwn
    <3> QED
      BY <1>1, <1>3, <2>1, <2>2, <2>3, <2>5, <3>1 DEF StageInv, Synced, Outdated
  <2> QED
    BY <2>4, <2>5
<1> QED
  BY <1>1, <1>5, <1>6 DEF StageInv

\* An index that is written leaves what is staged in the file, if it holds it.
LEMMA StageWritten ==
  ASSUME TypeOK, StageInv, NEW h \in Handles, NEW i, WriteIndex(h, i),
         dirty \subseteq {h} => i = stage',
         \A u \in Threads : op'[u].at = "write" => op'[u] = op[u] /\ op[u].handle # h
  PROVE  StageInv'
<1>1. dirty' = dirty \ {h} /\ fresh' = {h} /\ index' = i /\ mem'[h] = i
  BY DEF WriteIndex, TypeOK
<1>2. dirty' = {} => index' = stage'
  BY <1>1
<1>3. \A g \in Handles : ~Outdated(g)' => g = h
  BY <1>1 DEF Outdated
<1>4. \A u \in Threads : op'[u].at = "write"
        => op'[u].handle \in dirty' /\ op'[u].handle \notin fresh'
  BY <1>1 DEF StageInv
<1> QED
  BY <1>1, <1>2, <1>3, <1>4 DEF StageInv

\* What is staged in memory only is not in the file, and its handle is known.
LEMMA StageRemembered ==
  ASSUME TypeOK, StageInv, NEW h \in Handles, NEW i, Remember(h, i),
         dirty \subseteq {h} /\ (mem[h] = NotLoaded \/ h \in fresh)
           => /\ ~Adding(h)' => i = stage'
              /\ \A u \in Threads : op'[u].at = "write" /\ op'[u].handle = h => i = Added(u)',
         \A u \in Threads : op'[u].at = "write" /\ op'[u].handle # h => op'[u] = op[u]
  PROVE  StageInv'
<1>1. dirty' = dirty \cup {h} /\ index' = index /\ mem'[h] = i
  BY DEF Remember, TypeOK
<1>2. ASSUME NEW g \in Handles, g # h
      PROVE  mem'[g] = mem[g] /\ (g \in fresh' <=> g \in fresh)
  BY <1>2 DEF Remember, TypeOK
<1>3. h \in fresh' => mem[h] = NotLoaded \/ h \in fresh
  BY DEF Remember
<1>4. ASSUME NEW g \in Handles, ~Outdated(g)'
      PROVE  /\ g \notin dirty' => mem'[g] = index'
             /\ dirty' = {g} /\ ~Adding(g)' => mem'[g] = stage'
  <2>1. CASE g # h
    BY <1>1, <1>2, <1>4, <2>1 DEF StageInv, Outdated
  <2>2. CASE g = h
    BY <1>1, <1>3, <1>4, <2>2 DEF Outdated
  <2> QED
    BY <2>1, <2>2
<1>5. ASSUME NEW u \in Threads, op'[u].at = "write"
      PROVE  /\ op'[u].handle \in dirty'
             /\ op'[u].handle \in fresh' /\ dirty' = {op'[u].handle}
                  => mem'[op'[u].handle] = Added(u)'
  <2>1. CASE op'[u].handle = h
    BY <1>1, <1>3, <1>5, <2>1
  <2>2. CASE op'[u].handle # h
    BY <1>1, <1>5, <2>2 DEF StageInv
  <2> QED
    BY <2>1, <2>2
<1> QED
  BY <1>1, <1>4, <1>5 DEF StageInv

\* Steps that leave the indexes alone leave what is staged where it is.
LEMMA StageStays ==
  ASSUME StageInv, UNCHANGED indexes, stage' = stage, WritersStay
  PROVE  StageInv'
<1>1. \A g \in Handles : (Adding(g)' <=> Adding(g)) /\ (Outdated(g)' <=> Outdated(g))
  BY DEF Adding, WritersStay, Outdated, indexes
<1>2. \A u \in Threads : op'[u].at = "write" => op'[u] = op[u] /\ Added(u)' = Added(u)
  BY DEF WritersStay, Added
<1> QED
  BY <1>1, <1>2 DEF StageInv, indexes

\* Every step keeps what is staged where StageInv says it is, unless a handle
\* undoes or misses what another staged.
LEMMA StageStep ==
  ASSUME TypeOK, MutexInv, ~clash => StageInv, [Next]_vars, ~clash'
  PROVE  StageInv'
<1> USE DEF Begins, Continues, MutexInv
<1>1. ASSUME NEW t \in Threads, NEW h \in Handles, NEW p \in Paths, Add(t, h, p)
      PROVE  StageInv'
  <2> DEFINE o == [at |-> "write", handle |-> h, path |-> p, content |-> work[p]]
             i == IF work[p] = Absent THEN Opened(h) ELSE [Opened(h) EXCEPT ![p] = work[p]]
  <2>1. Enter(t, h, o) /\ Remember(h, i) /\ stage' = stage /\ StageInv
    BY <1>1 DEF Add, history
  <2>2. ~Adding(h) /\ op' = [op EXCEPT ![t] = o] /\ op'[t] = o
    BY <2>1, EnterAlone DEF TypeOK
  <2>3. Adding(h)' /\ \A u \in Threads : op'[u].at = "write" /\ op'[u].handle # h => op'[u] = op[u]
    BY <2>2 DEF TypeOK, Adding
  <2>4. \A u \in Threads : op'[u].at = "write" /\ op'[u].handle = h => u = t
    BY <2>2 DEF TypeOK, Adding
  <2>5. ASSUME dirty \subseteq {h}, mem[h] = NotLoaded \/ h \in fresh PROVE i = Added(t)'
    <3>1. Opened(h) = stage
      BY <2>1, <2>2, <2>5, OpenedIsStage
    <3>2. op'[t].path = p /\ op'[t].content = work[p]
      BY <2>2
    <3>3. Added(t)' = IF work[p] = Absent THEN stage ELSE [stage EXCEPT ![p] = work[p]]
      BY <2>1, <3>2 DEF Added
    <3> QED
      BY <3>1, <3>3
  <2> HIDE DEF o, i
  <2> QED
    BY <2>1, <2>3, <2>4, <2>5, StageRemembered
<1>2. ASSUME NEW t \in Threads, AddWrites(t) PROVE StageInv'
  <2> DEFINE h == op[t].handle
  <2>1. /\ op[t].at = "write" /\ WriteIndex(h, mem[h]) /\ stage' = Added(t) /\ h \in fresh
        /\ StageInv /\ op' = [op EXCEPT ![t] = Idle]
    BY <1>2 DEF AddWrites, Return
  <2>2. h \in Handles
    <3>1. op[t] \in [at : {"write"}, handle : Handles, path : Paths, content : Contents]
      BY <2>1 DEF TypeOK, Ops, Idle
    <3> QED
      BY <3>1
  <2>3. dirty \subseteq {h} => mem[h] = stage'
    BY <2>1 DEF StageInv
  <2>4. \A u \in Threads : op'[u].at = "write" => op'[u] = op[u] /\ op[u].handle # h
    BY <2>1 DEF TypeOK, Idle, Exclusive, Holds
  <2> QED
    BY <2>1, <2>2, <2>3, <2>4, StageWritten
<1>3. ASSUME NEW t \in Threads, NEW h \in Handles, AddAll(t, h) PROVE StageInv'
  <2> DEFINE i == Swept(h, Opened(h))
  <2>1. Enter(t, h, Idle) /\ Remember(h, i) /\ i = stage' /\ StageInv
    BY <1>3 DEF AddAll
  <2>2. ~Adding(h) /\ WritersStay
    BY <2>1, EnterAlone DEF Idle
  <2>3. \A u \in Threads : op'[u].at = "write" => op'[u] = op[u] /\ op'[u].handle # h
    BY <2>2 DEF WritersStay, Adding
  <2> HIDE DEF i
  <2> QED
    BY <2>1, <2>3, StageRemembered
<1>4. ASSUME NEW h \in Handles, NEW p \in Paths, AddIgnoreRule(h, p) PROVE StageInv'
  BY <1>4, StageStays DEF AddIgnoreRule, history, WritersStay
<1>5. ASSUME NEW t \in Threads, NEW h \in Handles, CommitReads(t, h) PROVE StageInv'
  <2>1. ReadIndex(h) /\ ~DropsOwn(h) /\ stage' = stage /\ StageInv
    BY <1>5 DEF CommitReads
  <2>2. WritersStay
    BY <1>5, EnterAlone DEF CommitReads
  <2> QED
    BY <2>1, <2>2, StageRead
<1>6. ASSUME NEW t \in Threads, CommitFindsParent(t) PROVE StageInv'
  <2> DEFINE o == [at |-> "create", handle |-> op[t].handle, tree |-> op[t].tree,
                   wanted |-> op[t].wanted, parent |-> HeadCommit]
  <2>1. op[t].at = "head" /\ op' = [op EXCEPT ![t] = o] /\ o.at = "create"
    BY <1>6 DEF CommitFindsParent
  <2> HIDE DEF o
  <2>2. WritersStay
    BY <2>1 DEF TypeOK, WritersStay
  <2> QED
    BY <1>6, <2>2, StageStays DEF CommitFindsParent, history
<1>7. ASSUME NEW t \in Threads, CommitCreates(t) \/ CommitThrows(t) \/ Detach(t) PROVE StageInv'
  <2>1. WritersStay
    BY <1>7 DEF CommitCreates, CommitThrows, Detach, Return, Idle, TypeOK, WritersStay
  <2> QED
    BY <1>7, <2>1, StageStays DEF CommitCreates, CommitThrows, Detach, history
<1>8. ASSUME NEW t \in Threads, NEW h \in Handles, ResetResolves(t, h) PROVE StageInv'
  <2>1. WritersStay
    BY <1>8 DEF ResetResolves, Idle, TypeOK, WritersStay
  <2> QED
    BY <1>8, <2>1, StageStays DEF ResetResolves, history
<1>9. ASSUME NEW t \in Threads, Resets(t) PROVE StageInv'
  <2> DEFINE h == op[t].handle
             c == op[t].commit
  <2>1. h \in Handles
    <3>1. op[t] \in [at : {"reset", "detach"}, handle : Handles, commit : DOMAIN commits]
      BY <1>9 DEF Resets, TypeOK, Ops, Idle
    <3> QED
      BY <3>1
  <2>2. WriteIndex(h, TreeOf(c)) /\ stage' = TreeOf(c) /\ StageInv
    BY <1>9 DEF Resets
  <2>3. \A u \in Threads : op'[u].at = "write" => op'[u] = op[u] /\ op[u].handle # h
    BY <1>9 DEF Resets, Return, Idle, Free, TypeOK
  <2> QED
    BY <2>1, <2>2, <2>3, StageWritten
<1>10. ASSUME NEW t \in Threads, NEW h \in Handles, NEW b \in Branches, CheckoutBranch(t, h, b)
       PROVE  StageInv'
  <2>1. WritersStay
    BY <1>10, EnterAlone DEF CheckoutBranch
  <2> QED
    BY <1>10, <2>1, StageStays DEF CheckoutBranch, history
<1>11. ASSUME NEW t \in Threads, CheckoutHead(t) PROVE StageInv'
  <2> DEFINE h == op[t].handle
  <2>1. h \in Handles /\ op[t].at = "checkout"
    <3>1. op[t] \in [at : {"checkout"}, handle : Handles]
      BY <1>11 DEF CheckoutHead, TypeOK, Ops, Idle
    <3> QED
      BY <3>1
  <2>2. /\ WriteIndex(h, Synced(h)) /\ stage' = stage /\ StageInv /\ ~DropsOwn(h)
        /\ op' = [op EXCEPT ![t] = Idle]
    BY <1>11 DEF CheckoutHead, Return
  <2>3. ~Adding(h) /\ WritersStay
    <3>1. Holds(t) /\ op[t].at # "write" /\ Idle.at # "write"
      BY <2>1 DEF Holds, Idle
    <3> QED
      BY <2>2, <3>1, OnlyOne
  <2>4. dirty \subseteq {h} => Synced(h) = stage'
    BY <2>1, <2>2, <2>3, SyncedIsStage
  <2>5. \A u \in Threads : op'[u].at = "write" => op'[u] = op[u] /\ op[u].handle # h
    BY <2>3 DEF WritersStay, Adding
  <2> QED
    BY <2>1, <2>2, <2>4, <2>5, StageWritten
<1>12. ASSUME NEW t \in Threads, NEW h \in Handles, NEW c \in DOMAIN commits, CheckoutCommit(t, h, c)
       PROVE  StageInv'
  <2>1. ~Adding(h) /\ WritersStay
    BY <1>12, EnterAlone DEF CheckoutCommit
  <2>2. ~DropsOwn(h) /\ StageInv
    BY <1>12 DEF CheckoutCommit
  <2>3. CASE Refused(c)
    BY <1>12, <2>1, <2>2, <2>3, StageRead DEF CheckoutCommit
  <2>4. CASE ~Refused(c)
    <3>1. WriteIndex(h, Updated(Synced(h), c)) /\ stage' = Updated(stage, c)
      BY <1>12, <2>4 DEF CheckoutCommit
    <3>2. dirty \subseteq {h} => Updated(Synced(h), c) = stage'
      BY <2>1, <2>2, <3>1, SyncedIsStage
    <3>3. \A u \in Threads : op'[u].at = "write" => op'[u] = op[u] /\ op[u].handle # h
      BY <2>1 DEF WritersStay, Adding
    <3> QED
      BY <2>2, <3>1, <3>2, <3>3, StageWritten
  <2> QED
    BY <2>3, <2>4
<1>13. ASSUME NEW t \in Threads, NEW h \in Handles, NEW b \in Branches, BranchCreate(t, h, b)
       PROVE  StageInv'
  <2>1. WritersStay
    BY <1>13, EnterAlone DEF BranchCreate, Idle
  <2> QED
    BY <1>13, <2>1, StageStays DEF BranchCreate, history
<1>14. ASSUME NEW t \in Threads, NEW h \in Handles, Diff(t, h) PROVE StageInv'
  <2>1. WritersStay
    BY <1>14 DEF Diff, WritersStay
  <2> QED
    BY <1>14, <2>1, StageRead DEF Diff
<1>15. ASSUME NEW p \in Paths, NEW c \in Contents, Edit(p, c) PROVE StageInv'
  BY <1>15, StageStays DEF Edit, history, WritersStay
<1>16. ASSUME Exit PROVE StageInv'
  <2>1. dirty = {} /\ index' = stage' /\ dirty' = {} /\ StageInv
    BY <1>16 DEF Exit, StageInv
  <2>2. \A g \in Handles : Outdated(g)'
    BY <1>16 DEF Exit, Outdated
  <2>3. \A u \in Threads : op'[u].at # "write"
    BY <1>16 DEF Exit, Idle
  <2> QED
    BY <2>1, <2>2, <2>3 DEF StageInv
<1>17. CASE UNCHANGED vars
  BY <1>17, StageStays DEF vars, history, WritersStay
<1> QED
  BY <1>1, <1>2, <1>3, <1>4, <1>5, <1>6, <1>7, <1>8, <1>9, <1>10, <1>11, <1>12, <1>13, <1>14,
     <1>15, <1>16, <1>17, TreeAssumption DEF Next

-----------------------------------------------------------------------------
(* Commits *)

\* A step that neither reads the index for a commit nor looks HEAD up for one
\* leaves the commits in progress as they are.
LEMMA CommitKept ==
  ASSUME TypeOK, CommitTakesStage, ~clash' => ~clash,
         NEW t \in Threads, NEW o, op' = [op EXCEPT ![t] = o], o.at \notin {"head", "create"}
  PROVE  CommitTakesStage'
BY DEF CommitTakesStage, TypeOK

\* A commit in progress holds what was staged, after every step.
LEMMA CommitStep ==
  ASSUME TypeOK, MutexInv, ~clash => StageInv, CommitTakesStage, [Next]_vars
  PROVE  CommitTakesStage'
<1> USE DEF Begins, Continues, MutexInv
<1>1. ASSUME NEW t \in Threads, NEW h \in Handles, CommitReads(t, h) PROVE CommitTakesStage'
  <2> DEFINE o == [at |-> "head", handle |-> h, tree |-> mem'[h], wanted |-> stage]
  <2>1. ReadIndex(h) /\ Enter(t, h, o) /\ clash' = (clash \/ dirty \ {h} # {} \/ DropsOwn(h))
    BY <1>1 DEF CommitReads
  <2>2. mem'[h] = Synced(h)
    BY <2>1 DEF ReadIndex, TypeOK
  <2>3. ~Adding(h) /\ op' = [op EXCEPT ![t] = o] /\ o.tree = mem'[h] /\ o.wanted = stage
    BY <2>1, EnterAlone
  <2>4. ASSUME ~clash' PROVE o.tree = o.wanted
    <3>1. ~clash /\ StageInv /\ dirty \subseteq {h} /\ ~DropsOwn(h)
      BY <2>1, <2>4
    <3> HIDE DEF o
    <3> QED
      BY <2>2, <2>3, <3>1, SyncedIsStage
  <2> HIDE DEF o
  <2> QED
    BY <2>1, <2>3, <2>4 DEF CommitTakesStage, TypeOK
<1>2. ASSUME NEW t \in Threads, CommitFindsParent(t) PROVE CommitTakesStage'
  <2> DEFINE o == [at |-> "create", handle |-> op[t].handle, tree |-> op[t].tree,
                   wanted |-> op[t].wanted, parent |-> HeadCommit]
  <2>1. /\ op[t].at = "head" /\ op' = [op EXCEPT ![t] = o] /\ clash' = clash
        /\ o.tree = op[t].tree /\ o.wanted = op[t].wanted
    BY <1>2 DEF CommitFindsParent, history
  <2> HIDE DEF o
  <2> QED
    BY <2>1 DEF CommitTakesStage, TypeOK
<1>3. ASSUME NEW t \in Threads, NEW h \in Handles, NEW p \in Paths, Add(t, h, p)
      PROVE  CommitTakesStage'
  <2> DEFINE o == [at |-> "write", handle |-> h, path |-> p, content |-> work[p]]
  <2>1. op' = [op EXCEPT ![t] = o] /\ clash' = clash /\ o.at = "write"
    BY <1>3 DEF Add, Enter, history
  <2> HIDE DEF o
  <2> QED
    BY <2>1, CommitKept
<1>4. ASSUME NEW t \in Threads, NEW h \in Handles, ResetResolves(t, h) PROVE CommitTakesStage'
  <2> DEFINE o == [at |-> "reset", handle |-> h, commit |-> HeadCommit]
  <2>1. op' = [op EXCEPT ![t] = o] /\ clash' = clash /\ o.at = "reset"
    BY <1>4 DEF ResetResolves, history
  <2> HIDE DEF o
  <2> QED
    BY <2>1, CommitKept
<1>5. ASSUME NEW t \in Threads, NEW h \in Handles, NEW b \in Branches, CheckoutBranch(t, h, b)
      PROVE  CommitTakesStage'
  <2> DEFINE o == [at |-> "checkout", handle |-> h]
  <2>1. op' = [op EXCEPT ![t] = o] /\ clash' = clash /\ o.at = "checkout"
    BY <1>5 DEF CheckoutBranch, Enter, history
  <2> HIDE DEF o
  <2> QED
    BY <2>1, CommitKept
<1>6. ASSUME NEW t \in Threads, NEW h \in Handles, NEW c \in DOMAIN commits, CheckoutCommit(t, h, c)
      PROVE  CommitTakesStage'
  <2> DEFINE o == [at |-> "detach", handle |-> h, commit |-> c]
  <2>1. op' = [op EXCEPT ![t] = o] /\ (~clash' => ~clash) /\ o.at = "detach"
    BY <1>6 DEF CheckoutCommit, Enter
  <2> HIDE DEF o
  <2> QED
    BY <2>1, CommitKept
<1>7. ASSUME NEW t \in Threads,
             \/ AddWrites(t) \/ CommitCreates(t) \/ CommitThrows(t)
             \/ Resets(t) \/ CheckoutHead(t) \/ Detach(t)
             \/ \E h \in Handles : AddAll(t, h) \/ \E b \in Branches : BranchCreate(t, h, b)
      PROVE  CommitTakesStage'
  <2>1. op' = [op EXCEPT ![t] = Idle] /\ Idle.at = "idle"
    BY <1>7 DEF AddWrites, CommitCreates, CommitThrows, Resets, CheckoutHead, Detach, AddAll,
                BranchCreate, Enter, Return, Idle
  <2>2. ~clash' => ~clash
    BY <1>7 DEF AddWrites, CommitCreates, CommitThrows, Resets, CheckoutHead, Detach, AddAll,
                BranchCreate, history
  <2> QED
    BY <2>1, <2>2, CommitKept
<1>8. ASSUME op' = op, ~clash' => ~clash PROVE CommitTakesStage'
  BY <1>8 DEF CommitTakesStage
<1>9. ASSUME Exit PROVE CommitTakesStage'
  BY <1>9 DEF Exit, CommitTakesStage, Idle
<1>10. ASSUME NEW h \in Handles, NEW p \in Paths, AddIgnoreRule(h, p) PROVE CommitTakesStage'
  BY <1>8, <1>10 DEF AddIgnoreRule, history
<1>11. ASSUME NEW t \in Threads, NEW h \in Handles, Diff(t, h) PROVE CommitTakesStage'
  BY <1>8, <1>11 DEF Diff
<1>12. ASSUME NEW p \in Paths, NEW c \in Contents, Edit(p, c) PROVE CommitTakesStage'
  BY <1>8, <1>12 DEF Edit, history
<1>13. CASE UNCHANGED vars
  BY <1>8, <1>13 DEF vars, history
<1> QED
  BY <1>1, <1>2, <1>3, <1>4, <1>5, <1>6, <1>7, <1>9, <1>10, <1>11, <1>12, <1>13,
     TreeAssumption DEF Next

-----------------------------------------------------------------------------
(* The theorems *)

LEMMA InitIInv == Init => IInv
<1> SUFFICES ASSUME Init PROVE IInv
  OBVIOUS
<1>1. TypeOK
  <2>1. RefsOK
    <3>1. commits \in Seq([tree : Trees, parent : Nat]) /\ Len(commits) = 1 /\ DOMAIN commits = {1}
      BY TreeAssumption DEF Init
    <3> QED
      BY <3>1, MainAssumption DEF Init, RefsOK
  <2>2. op \in [Threads -> Ops]
    BY DEF Init, Ops
  <2> QED
    BY <2>1, <2>2, TreeAssumption DEF Init, TypeOK
<1>2. MutexInv
  BY DEF Init, MutexInv, Exclusive, Loaded, Holds, Idle
<1>3. StageInv /\ CommitTakesStage
  BY DEF Init, StageInv, CommitTakesStage, Outdated, Idle
<1> QED
  BY <1>1, <1>2, <1>3 DEF IInv

LEMMA Invariance == Spec => []IInv
<1>1. IInv /\ [Next]_vars => IInv'
  <2> SUFFICES ASSUME IInv, [Next]_vars PROVE IInv'
    OBVIOUS
  <2>1. TypeOK /\ MutexInv /\ (~clash => StageInv) /\ CommitTakesStage
    BY DEF IInv
  <2> QED
    BY <2>1, TypeStep, MutexStep, StageStep, CommitStep DEF IInv
<1> QED
  BY <1>1, InitIInv, PTL DEF Spec

\* HEAD, the branches and the calls in progress always name commits that exist,
\* and every index, tree and commit is complete.
THEOREM TypeCorrect == Spec => []TypeOK
<1>1. Init => TypeOK /\ MutexInv
  BY InitIInv DEF IInv
<1>2. TypeOK /\ MutexInv /\ [Next]_vars => TypeOK' /\ MutexInv'
  BY TypeStep, MutexStep
<1> QED
  BY <1>1, <1>2, PTL DEF Spec

\* A commit holds exactly what was staged when it read the index (LibGit add,
\* addAll and commit), unless a handle undid or missed what another staged.
THEOREM StagedIsCommitted == Spec => []CommitTakesStage
<1>1. IInv => CommitTakesStage
  BY DEF IInv
<1> QED
  BY <1>1, Invariance, PTL

\* A commit lands on the tip it found or not at all, and branchCreate never
\* replaces a branch: only resetHead moves a branch to what is no child of it.
THEOREM TipsGrow == Spec => BranchesGrow
<1> DEFINE Grows ==
      \A b \in Branches :
        \/ tips[b] \in {0, tips'[b]}
        \/ commits'[tips'[b]].parent = tips[b]
        \/ \E t \in Threads : op[t].at = "reset" /\ op'[t] = Idle
<1>1. TypeOK /\ [Next]_vars => [Grows]_vars
  <2> SUFFICES ASSUME TypeOK, Next PROVE Grows
    OBVIOUS
  <2>1. ASSUME tips' = tips PROVE Grows
    BY <2>1
  <2>2. ASSUME NEW t \in Threads, CommitCreates(t) PROVE Grows
    <3> DEFINE C == [tree : Trees, parent : Nat]
               c == [tree |-> op[t].tree, parent |-> op[t].parent]
    <3>1. /\ commits \in Seq(C) /\ tips \in [Branches -> 0..Len(commits)]
          /\ commits' = Append(commits, c) /\ c.parent = HeadCommit
          /\ MoveHead(Len(commits) + 1)
      BY <2>2 DEF TypeOK, RefsOK, CommitCreates
    <3> HIDE DEF C, c
    <3>2. commits'[Len(commits) + 1] = c
      BY <3>1
    <3> QED
      BY <3>1, <3>2 DEF MoveHead, HeadCommit
  <2>3. ASSUME NEW t \in Threads, Resets(t) PROVE Grows
    <3>1. op[t].at = "reset" /\ op'[t] = Idle
      BY <2>3 DEF Resets, Return, TypeOK
    <3> QED
      BY <3>1
  <2>4. ASSUME NEW t \in Threads, NEW h \in Handles, NEW b \in Branches, BranchCreate(t, h, b)
        PROVE  Grows
    BY <2>4 DEF BranchCreate, TypeOK, RefsOK
  <2>5. \/ tips' = tips
        \/ \E t \in Threads :
             \/ CommitCreates(t) \/ Resets(t)
             \/ \E h \in Handles, b \in Branches : BranchCreate(t, h, b)
    BY DEF Next, Begins, Continues, refs, Add, AddWrites, AddAll, AddIgnoreRule, CommitReads,
           CommitFindsParent, CommitThrows, ResetResolves, CheckoutBranch, CheckoutHead,
           CheckoutCommit, Detach, Diff, Edit, Exit
  <2> HIDE DEF Grows
  <2> QED
    BY <2>1, <2>2, <2>3, <2>4, <2>5
<1> QED
  BY <1>1, TypeCorrect, PTL DEF Spec, BranchesGrow

\* Only resetHead ends a reset, but for the end of the program.
LEMMA OnlyResets ==
  ASSUME TypeOK, Next, NEW t \in Threads, op[t].at = "reset", op'[t] = Idle,
         mem'[op[t].handle] # NotLoaded
  PROVE  Resets(t)
<1>1. op'[t] # op[t] /\ op[t] # Idle
  BY DEF Idle
<1>2. ~Exit
  <2>1. op[t] \in [at : {"reset", "detach"}, handle : Handles, commit : DOMAIN commits]
    BY DEF TypeOK, Ops, Idle
  <2> QED
    BY <2>1 DEF Exit
<1>3. ASSUME NEW u \in Threads, NEW h \in Handles, NEW o, Enter(u, h, o) PROVE FALSE
  BY <1>1, <1>3 DEF Enter, TypeOK
<1>4. ASSUME NEW u \in Threads, NEW h \in Handles, ResetResolves(u, h) PROVE FALSE
  BY <1>1, <1>4 DEF ResetResolves, TypeOK
<1>5. ~Begins
  BY <1>1, <1>2, <1>3, <1>4
     DEF Begins, Add, AddAll, CommitReads, Diff, CheckoutBranch, BranchCreate, CheckoutCommit, AddIgnoreRule
<1>6. PICK u \in Threads :
        \/ AddWrites(u) \/ CommitFindsParent(u) \/ CommitCreates(u) \/ CommitThrows(u)
        \/ Resets(u) \/ CheckoutHead(u) \/ Detach(u)
  BY <1>1, <1>5 DEF Next, Continues, Edit
<1>7. u = t
  BY <1>1, <1>6 DEF AddWrites, CommitFindsParent, CommitCreates, CommitThrows, Resets,
                    CheckoutHead, Detach, Return, TypeOK
<1> QED
  BY <1>6, <1>7 DEF AddWrites, CommitFindsParent, CommitCreates, CommitThrows, CheckoutHead, Detach

\* When resetHead returns, every file that anybody committed or staged is as in
\* HEAD, whatever checkout had left behind, unless the index was lost from sight.
THEOREM ResetsRepair == Spec => ResetRepairs
<1> DEFINE Repaired ==
      \A t \in Threads :
        op[t].at = "reset" /\ op'[t] = Idle /\ mem'[op[t].handle] # NotLoaded /\ ~clash
        /\ dirty \subseteq {op[t].handle} /\ ~DropsOwn(op[t].handle)
          => \A p \in Paths : work'[p] = HeadTree'[p] \/ stage[p] = Absent
<1>1. IInv /\ [Next]_vars => [Repaired]_vars
  <2> SUFFICES ASSUME IInv, Next, NEW t \in Threads,
                      op[t].at = "reset", op'[t] = Idle, mem'[op[t].handle] # NotLoaded, ~clash,
                      dirty \subseteq {op[t].handle}, ~DropsOwn(op[t].handle),
                      NEW p \in Paths
               PROVE  work'[p] = HeadTree'[p] \/ stage[p] = Absent
    OBVIOUS
  <2> DEFINE h == op[t].handle
             c == op[t].commit
  <2>1. Resets(t) /\ TypeOK /\ Loaded /\ StageInv
    BY OnlyResets DEF IInv, MutexInv
  <2>2. h \in Handles /\ c \in DOMAIN commits
    <3>1. op[t] \in [at : {"reset", "detach"}, handle : Handles, commit : DOMAIN commits]
      BY <2>1 DEF TypeOK, Ops, Idle
    <3> QED
      BY <3>1
  <2>3. Synced(h) = stage
    <3>1. ~Adding(h)
      BY <2>1 DEF Resets, Free, Adding
    <3> QED
      BY <2>1, <2>2, <3>1, SyncedIsStage
  <2>4. HeadTree' = TreeOf(c)
    <3>1. commits' = commits /\ MoveHead(c) /\ RefsOK
      BY <2>1 DEF Resets, TypeOK
    <3>2. HeadCommit' = c
      <4>1. c \in Nat /\ tips \in [Branches -> 0..Len(commits)]
        BY <2>2, <3>1, HeadExists DEF RefsOK
      <4> QED
        BY <3>1, <4>1, MainAssumption DEF MoveHead, HeadCommit
    <3> QED
      BY <3>1, <3>2 DEF HeadTree, TreeOf
  <2>5. work' = Forced(h, c)
    BY <2>1 DEF Resets
  <2> HIDE DEF h, c
  <2> QED
    BY <2>3, <2>4, <2>5 DEF Forced
<1> QED
  BY <1>1, Invariance, PTL DEF Spec, ResetRepairs
=============================================================================
