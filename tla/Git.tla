--------------------------------- MODULE Git ---------------------------------
(* LibGit (src/LibGit.cpp): several handles on one repository, each with a   *)
(* mutex of its own, used by several threads.  A script opens one handle and *)
(* the walk it starts opens another, whose callback stages files with it.    *)
(*                                                                           *)
(* libgit2 keeps the index of a repository in memory, per handle: add and    *)
(* addAll change that copy, add writes it to the index file whatever the     *)
(* file holds by then, and git_index_read(index, 0) reads the file again     *)
(* only when it changed.  Contents are abstract; a tree gives each path one. *)
EXTENDS Naturals, Sequences

CONSTANTS Threads, Handles, Paths, Branches, Contents,
          Absent, Main, NotLoaded,
          FirstTree,   \* what is committed at first
          Edits,       \* <<path, content>>: what the user does to files
          Ignorable,   \* the paths a rule of addIgnoreRule may name
          MaxCalls     \* bound: calls of all threads, and ends of the program

Trees == [Paths -> Contents]

ASSUME AbsentAssumption == Absent \in Contents /\ NotLoaded \notin Trees
ASSUME MainAssumption == Main \in Branches /\ \A b \in Branches : b \notin Nat
ASSUME TreeAssumption == /\ FirstTree \in Trees
                         /\ Edits \subseteq Paths \X Contents /\ Ignorable \subseteq Paths

VARIABLES
  work,     \* the working tree
  index,    \* the index file
  commits,  \* the commits, each with its tree and parent
  tips,     \* the commit of each branch, 0 if the branch does not exist
  head,     \* a branch, or the number of a commit (detached)
  mem,      \* by handle: the index in memory
  fresh,    \* the handles for whom the index file is as they last saw it
  dirty,    \* the handles whose index in memory was changed and not written
  ignored,  \* by handle: the paths its rules ignore
  calls,    \* the calls begun
  op,       \* by thread: where it is in which call
  stage,    \* history: what the callers have staged, on whatever handle
  clash     \* history: a handle has undone or missed what another staged

refs == <<commits, tips, head>>
indexes == <<index, mem, fresh, dirty>>
history == <<stage, clash>>
vars == <<work, refs, indexes, ignored, calls, op, history>>

HeadCommit == IF head \in Branches THEN tips[head] ELSE head
TreeOf(c) == commits[c].tree
HeadTree == TreeOf(HeadCommit)

Idle == [at |-> "idle"]

Init ==
  /\ work = FirstTree /\ index = FirstTree /\ stage = FirstTree
  /\ commits = <<[tree |-> FirstTree, parent |-> 0]>>
  /\ tips = [b \in Branches |-> IF b = Main THEN 1 ELSE 0]
  /\ head = Main
  /\ mem = [h \in Handles |-> NotLoaded]
  /\ fresh = {} /\ dirty = {}
  /\ ignored = [h \in Handles |-> {}]
  /\ calls = 0
  /\ op = [t \in Threads |-> Idle]
  /\ clash = FALSE

-----------------------------------------------------------------------------
(* The mutex and the index of a handle *)

\* Nobody is past the lock_guard of a call on h.
Free(h) == \A t \in Threads : op[t].at \notin {"idle", "reset"} => op[t].handle # h

\* Thread t begins a call on h whose first steps take the mutex.
Enter(t, h, rest) == op[t] = Idle /\ Free(h) /\ op' = [op EXCEPT ![t] = rest]

Return(t) == op' = [op EXCEPT ![t] = Idle]

\* git_repository_index: the index is read when it is first asked for.
Opened(h) == IF mem[h] = NotLoaded THEN index ELSE mem[h]

\* git_index_read(index, 0)
Outdated(h) == mem[h] = NotLoaded \/ h \notin fresh
Synced(h) == IF Outdated(h) THEN index ELSE mem[h]

\* h then drops what it staged and never wrote.
DropsOwn(h) == Outdated(h) /\ h \in dirty

\* The index of h becomes i in memory only, and in the file as well.
Remember(h, i) ==
  /\ mem' = [mem EXCEPT ![h] = i]
  /\ fresh' = IF mem[h] = NotLoaded THEN fresh \cup {h} ELSE fresh
  /\ dirty' = dirty \cup {h}
  /\ index' = index
WriteIndex(h, i) ==
  /\ mem' = [mem EXCEPT ![h] = i] /\ index' = i
  /\ fresh' = {h} /\ dirty' = dirty \ {h}

\* Mutant: the index is read from the file in any case.
Bug_ReadIndex(h) ==
  /\ mem' = [mem EXCEPT ![h] = index]
  /\ fresh' = fresh \cup {h} /\ dirty' = dirty \ {h}
  /\ index' = index

ReadIndex(h) ==
  /\ mem' = [mem EXCEPT ![h] = Synced(h)]
  /\ fresh' = fresh \cup {h}
  /\ dirty' = IF Outdated(h) THEN dirty \ {h} ELSE dirty
  /\ index' = index

-----------------------------------------------------------------------------
(* Staging *)

\* add: git_index_add_bypath fails when there is no file, and the next call
\* overwrites the error ...
Add(t, h, p) ==
  /\ Enter(t, h, [at |-> "write", handle |-> h, path |-> p, content |-> work[p]])
  /\ Remember(h, IF work[p] = Absent THEN Opened(h) ELSE [Opened(h) EXCEPT ![p] = work[p]])
  /\ UNCHANGED <<work, refs, ignored, history>>

\* What an add in progress makes of a staging area
Added(t) == IF op[t].content = Absent THEN stage ELSE [stage EXCEPT ![op[t].path] = op[t].content]

\* ... then git_index_write.
AddWrites(t) ==
  LET h == op[t].handle IN
  /\ op[t].at = "write"
  /\ WriteIndex(h, mem[h])
  /\ stage' = Added(t)
  /\ clash' = (clash \/ h \notin fresh)
  /\ Return(t)
  /\ UNCHANGED <<work, refs, ignored>>

\* git_index_add_all leaves out what is ignored and not in the index yet.
Swept(h, base) ==
  [p \in Paths |-> IF p \in ignored[h] /\ base[p] = Absent THEN Absent ELSE work[p]]

\* addAll does not write the index.
AddAll(t, h) ==
  /\ Enter(t, h, Idle)
  /\ Remember(h, Swept(h, Opened(h)))
  /\ stage' = Swept(h, stage)
  /\ clash' = (clash \/ Swept(h, Opened(h)) # Swept(h, stage))
  /\ UNCHANGED <<work, refs, ignored>>

AddIgnoreRule(h, p) ==
  /\ ignored' = [ignored EXCEPT ![h] = @ \cup {p}]
  /\ UNCHANGED <<work, refs, indexes, op, history>>

-----------------------------------------------------------------------------
(* commit *)

\* git_index_read, git_index_write_tree; wanted is history: what was staged
CommitReads(t, h) ==
  /\ ReadIndex(h)
  /\ Enter(t, h, [at |-> "head", handle |-> h, tree |-> mem'[h], wanted |-> stage])
  /\ clash' = (clash \/ dirty \ {h} # {} \/ DropsOwn(h))
  /\ UNCHANGED <<work, refs, ignored, stage>>

\* git_repository_head, git_commit_lookup
CommitFindsParent(t) ==
  /\ op[t].at = "head"
  /\ op' = [op EXCEPT ![t] = [at |-> "create", handle |-> op[t].handle, tree |-> op[t].tree,
                              wanted |-> op[t].wanted, parent |-> HeadCommit]]
  /\ UNCHANGED <<work, refs, indexes, ignored, history>>

\* HEAD, or the branch it names, moves to commit c.
MoveHead(c) ==
  IF head \in Branches THEN tips' = [tips EXCEPT ![head] = c] /\ head' = head
                       ELSE head' = c /\ tips' = tips

\* git_commit_create_v fails when the parent is not HEAD's commit any more.
CommitCreates(t) ==
  /\ op[t].at = "create"
  /\ op[t].parent = HeadCommit
  /\ commits' = Append(commits, [tree |-> op[t].tree, parent |-> op[t].parent])
  /\ MoveHead(Len(commits) + 1)
  /\ Return(t)
  /\ UNCHANGED <<work, indexes, ignored, history>>

CommitThrows(t) ==
  /\ op[t].at = "create"
  /\ op[t].parent # HeadCommit
  /\ Return(t)
  /\ UNCHANGED <<work, refs, indexes, ignored, history>>

-----------------------------------------------------------------------------
(* resetHead, checkout, branchCreate, diff *)

\* resetHead resolves HEAD before it takes the mutex ...
ResetResolves(t, h) ==
  /\ op[t] = Idle
  /\ op' = [op EXCEPT ![t] = [at |-> "reset", handle |-> h, commit |-> HeadCommit]]
  /\ UNCHANGED <<work, refs, indexes, ignored, history>>

\* What is in HEAD, in c or in the index is overwritten or removed; a file that
\* none of them knows stays.
Forced(h, c) ==
  [p \in Paths |-> IF {TreeOf(c)[p], HeadTree[p], Synced(h)[p]} = {Absent} THEN work[p]
                   ELSE TreeOf(c)[p]]

\* ... and git_reset then moves HEAD's branch to what it found (GIT_RESET_HARD).
Resets(t) ==
  LET c == op[t].commit IN
  /\ op[t].at = "reset"
  /\ Free(op[t].handle)
  /\ work' = Forced(op[t].handle, c)
  /\ WriteIndex(op[t].handle, TreeOf(c))
  /\ stage' = TreeOf(c)
  /\ MoveHead(c)
  /\ Return(t)
  /\ UNCHANGED <<commits, ignored, clash>>

\* checkout of a branch: HEAD is moved first ...
CheckoutBranch(t, h, b) ==
  /\ tips[b] # 0
  /\ Enter(t, h, [at |-> "checkout", handle |-> h])
  /\ head' = b
  /\ UNCHANGED <<work, commits, tips, indexes, ignored, history>>

\* Mutant: the index takes HEAD's tree, though the files do not.
Bug_CheckoutHead(t) ==
  LET h == op[t].handle IN
  /\ op[t].at = "checkout"
  /\ WriteIndex(h, HeadTree)
  /\ clash' = (clash \/ DropsOwn(h))
  /\ Return(t)
  /\ UNCHANGED <<work, refs, ignored, stage>>

\* ... and git_checkout_head, whose strategy is safe, compares the files with
\* HEAD as it is now: those that differ look edited and are left.
CheckoutHead(t) ==
  LET h == op[t].handle IN
  /\ op[t].at = "checkout"
  /\ WriteIndex(h, Synced(h))
  /\ clash' = (clash \/ DropsOwn(h))
  /\ Return(t)
  /\ UNCHANGED <<work, refs, ignored, stage>>

\* The paths that a checkout of c has to change, and their change
Differing(c) == {p \in Paths : TreeOf(c)[p] # HeadTree[p]}
Updated(base, c) == [p \in Paths |-> IF p \in Differing(c) THEN TreeOf(c)[p] ELSE base[p]]

\* A safe checkout changes nothing when a file it has to change was edited.
Refused(c) == \E p \in Differing(c) : work[p] \notin {HeadTree[p], TreeOf(c)[p]}

\* checkout of a commit: git_checkout_tree, whose error is overwritten ...
CheckoutCommit(t, h, c) ==
  /\ Enter(t, h, [at |-> "detach", handle |-> h, commit |-> c])
  /\ clash' = (clash \/ DropsOwn(h))
  /\ IF Refused(c)
     THEN ReadIndex(h) /\ UNCHANGED <<work, stage>>
     ELSE /\ work' = Updated(work, c)
          /\ WriteIndex(h, Updated(Synced(h), c))
          /\ stage' = Updated(stage, c)
  /\ UNCHANGED <<refs, ignored>>

\* ... by git_repository_set_head_detached.
Detach(t) ==
  /\ op[t].at = "detach"
  /\ head' = op[t].commit
  /\ Return(t)
  /\ UNCHANGED <<work, commits, tips, indexes, ignored, history>>

\* Mutant: git_branch_create is told to replace a branch.
Bug_BranchCreate(t, h, b) ==
  /\ Enter(t, h, Idle)
  /\ tips' = [tips EXCEPT ![b] = HeadCommit]
  /\ UNCHANGED <<work, commits, head, indexes, ignored, history>>

BranchCreate(t, h, b) ==
  /\ Enter(t, h, Idle)
  /\ tips[b] = 0
  /\ tips' = [tips EXCEPT ![b] = HeadCommit]
  /\ UNCHANGED <<work, commits, head, indexes, ignored, history>>

\* diff takes no mutex, and reads the index again.
Diff(t, h) ==
  /\ op[t] = Idle
  /\ ReadIndex(h)
  /\ clash' = (clash \/ DropsOwn(h))
  /\ UNCHANGED <<work, refs, ignored, op, stage>>

-----------------------------------------------------------------------------
(* The world *)

\* The user, or a FileWriter, changes or deletes a file.
Edit(p, c) ==
  /\ work' = [work EXCEPT ![p] = c]
  /\ UNCHANGED <<refs, indexes, ignored, op, history>>

\* The program ends or crashes, anywhere; another one starts.
Exit ==
  /\ mem' = [h \in Handles |-> NotLoaded]
  /\ fresh' = {} /\ dirty' = {}
  /\ ignored' = [h \in Handles |-> {}]
  /\ op' = [t \in Threads |-> Idle]
  /\ clash' = (clash \/ dirty # {})
  /\ UNCHANGED <<work, index, refs, stage>>

Begins ==
  \/ \E t \in Threads, h \in Handles :
       \/ \E p \in Paths : Add(t, h, p)
       \/ AddAll(t, h) \/ CommitReads(t, h) \/ ResetResolves(t, h) \/ Diff(t, h)
       \/ \E b \in Branches : CheckoutBranch(t, h, b) \/ BranchCreate(t, h, b)
       \/ \E c \in DOMAIN commits : CheckoutCommit(t, h, c)
  \/ \E h \in Handles, p \in Ignorable : AddIgnoreRule(h, p)
  \/ Exit

Continues ==
  \E t \in Threads :
    \/ AddWrites(t) \/ CommitFindsParent(t) \/ CommitCreates(t) \/ CommitThrows(t)
    \/ Resets(t) \/ CheckoutHead(t) \/ Detach(t)

Next ==
  \/ calls < MaxCalls /\ calls' = calls + 1 /\ Begins
  \/ calls' = calls /\ Continues
  \/ calls' = calls /\ \E e \in Edits : Edit(e[1], e[2])

Spec == Init /\ [][Next]_vars

-----------------------------------------------------------------------------
(* Properties *)

\* A commit holds exactly what was staged when it read the index, by add or
\* addAll, on its handle or another: unless one handle wrote its index over
\* another's, dropped what it had not written, or kept it from the file.
CommitTakesStage ==
  \A t \in Threads : op[t].at \in {"head", "create"} /\ ~clash => op[t].tree = op[t].wanted

\* A branch only grows: of two commits made from one tip at most one lands, on
\* whatever branch HEAD has been moved to.  Only resetHead moves a branch
\* elsewhere, to what was HEAD when it began.
BranchesGrow ==
  [][\A b \in Branches :
       \/ tips[b] \in {0, tips'[b]}
       \/ commits'[tips'[b]].parent = tips[b]
       \/ \E t \in Threads : op[t].at = "reset" /\ op'[t] = Idle]_vars

\* resetHead puts right what checkout leaves behind: when it returns, every file
\* that was committed or staged, by whatever handle and on whatever branch, is as
\* in HEAD, or gone if HEAD has none, even if the files had not followed HEAD and
\* HEAD has moved again since resetHead looked.  Only a file that nobody staged
\* still differs.  As above, no other handle may have kept what it staged from
\* the index, nor this one lost it.
ResetRepairs ==
  [][\A t \in Threads :
       op[t].at = "reset" /\ op'[t] = Idle /\ mem'[op[t].handle] # NotLoaded /\ ~clash
       /\ dirty \subseteq {op[t].handle} /\ ~DropsOwn(op[t].handle)
         => \A p \in Paths : work'[p] = HeadTree'[p] \/ stage[p] = Absent]_vars

-----------------------------------------------------------------------------
(* The inductive invariant: types, and where what is staged is *)

Ops ==
  {Idle} \cup
  [at : {"write"}, handle : Handles, path : Paths, content : Contents] \cup
  [at : {"head"}, handle : Handles, tree : Trees, wanted : Trees] \cup
  [at : {"create"}, handle : Handles, tree : Trees, wanted : Trees, parent : Nat] \cup
  [at : {"reset", "detach"}, handle : Handles, commit : DOMAIN commits] \cup
  [at : {"checkout"}, handle : Handles]

RefsOK ==
  /\ commits \in Seq([tree : Trees, parent : Nat])
  /\ tips \in [Branches -> 0..Len(commits)]
  /\ head \in DOMAIN commits \/ (head \in Branches /\ tips[head] # 0)

\* HEAD always names a commit that exists, and so does every call in progress.
TypeOK ==
  /\ {work, index, stage} \subseteq Trees
  /\ mem \in [Handles -> Trees \cup {NotLoaded}]
  /\ fresh \subseteq Handles /\ dirty \subseteq Handles
  /\ RefsOK
  /\ op \in [Threads -> Ops]
  /\ clash \in BOOLEAN

\* A handle's mutex is held by one thread.
Holds(t) == op[t].at \notin {"idle", "reset"}
Exclusive ==
  \A t, u \in Threads : Holds(t) /\ Holds(u) /\ op[t].handle = op[u].handle => t = u

\* What was changed, and what add is about to write, was loaded.
Loaded ==
  /\ \A h \in dirty : mem[h] # NotLoaded
  /\ \A t \in Threads : op[t].at = "write" => mem[op[t].handle] # NotLoaded

MutexInv == Exclusive /\ Loaded

\* A thread is between the two steps of add on h.
Adding(h) == \E t \in Threads : op[t].at = "write" /\ op[t].handle = h

\* What is staged is in the index file, or in the memory of the one handle that
\* has yet to write it; clean and up to date means equal to the file.
StageInv ==
  /\ dirty = {} => index = stage
  /\ \A h \in Handles :
       ~Outdated(h) =>
         /\ h \notin dirty => mem[h] = index
         /\ dirty = {h} /\ ~Adding(h) => mem[h] = stage
  /\ \A t \in Threads :
       op[t].at = "write"
         => /\ op[t].handle \in dirty
            /\ op[t].handle \in fresh /\ dirty = {op[t].handle} => mem[op[t].handle] = Added(t)

IInv == TypeOK /\ MutexInv /\ (~clash => StageInv) /\ CommitTakesStage
==============================================================================
