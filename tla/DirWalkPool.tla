----------------------------- MODULE DirWalkPool -----------------------------
(* DirWalker::walk with a ThreadPool (include/DirWalker.hpp): the caller's  *)
(* thread walks the tree and asks the callback about each entry (QUEUING),  *)
(* the pool's workers call it again (OPENED), and an atomic flag tells all  *)
(* of them that someone answered ABORT.  The pool is taken at its word: a   *)
(* FIFO queue whose jobs are each run once (module JobService).             *)
EXTENDS DirFrames

CONSTANTS Workers, NoEntry

ASSUME WorkersAssumption == IsFiniteSet(Workers) /\ NoEntry \notin Entries

VARIABLES walker,    \* where the walking thread is
          queue,     \* entries whose OPENED call waits in the pool
          held,      \* held[w]: the entry worker w is about to open
          abort,     \* the AbortSignal
          aborting,  \* the workers that were answered ABORT and have not stored it
          asked,     \* asked[e]: QUEUING calls made for e
          opened,    \* opened[e]: OPENED calls made for e
          answer,    \* answer[e]: the answer to the last QUEUING call for e
          late,      \* calls begun after ABORT was stored
          disturbed  \* something vanished, threw, or was not answered CONTINUE

vars == <<mode, frames, walker, queue, held, abort, aborting, asked, opened, answer, late, disturbed>>

TypeOK ==
  /\ mode \in Modes
  /\ frames \in Seq(Frame)
  /\ walker \in {"check", "call", "abort", "over"}
  /\ queue \in Seq(Entries)
  /\ held \in [Workers -> Entries \cup {NoEntry}]
  /\ abort \in BOOLEAN
  /\ aborting \in SUBSET Workers
  /\ asked \in [Entries -> Nat]
  /\ opened \in [Entries -> Nat]
  /\ answer \in [Entries -> Answers \cup {"none"}]
  /\ late \in Nat
  /\ disturbed \in BOOLEAN

Init ==
  /\ mode \in Modes
  /\ frames = <<First(Start, 0)>>
  /\ walker = "check"
  /\ queue = <<>>
  /\ held = [w \in Workers |-> NoEntry]
  /\ abort = FALSE
  /\ aborting = {}
  /\ asked = [e \in Entries |-> 0]
  /\ opened = [e \in Entries |-> 0]
  /\ answer = [e \in Entries |-> "none"]
  /\ late = 0
  /\ disturbed = FALSE

\* Go on with the loops that are left.
Resume(fs) == /\ frames' = fs
              /\ walker' = IF fs = <<>> THEN "over" ELSE "check"

-----------------------------------------------------------------------------
(* The walking thread *)

ListingEnd ==
  /\ walker = "check"
  /\ Top.next > Len(Listing)
  /\ Resume(Tail(frames))
  /\ UNCHANGED <<mode, queue, held, abort, aborting, asked, opened, answer, late, disturbed>>

\* "If any thread previously returned ABORT, quit now"
CheckAbort ==
  /\ walker = "check"
  /\ Top.next <= Len(Listing)
  /\ IF abort THEN Resume(Tail(frames)) ELSE walker' = "call" /\ UNCHANGED frames
  /\ UNCHANGED <<mode, queue, held, abort, aborting, asked, opened, answer, late, disturbed>>

\* Mutant: a filtered entry ends the listing.
Bug_FilterReturns ==
  /\ walker = "call"
  /\ Entry \in Hidden
  /\ Resume(Tail(frames))
  /\ UNCHANGED <<mode, queue, held, abort, aborting, asked, opened, answer, late, disturbed>>

\* repo.isPathIgnored, or an extension that matchExt does not list: continue.
Filter ==
  /\ walker = "call"
  /\ Entry \in Hidden
  /\ Resume(Advanced)
  /\ UNCHANGED <<mode, queue, held, abort, aborting, asked, opened, answer, late, disturbed>>

\* Mutant: an inverted walk enters directories as well.
Bug_Goal(isDir) ==
  IF isDir /\ mode.recursive THEN {First(d, Top.up) : d \in {Entry} \cap Dirs}
  ELSE IF Climbs(isDir) THEN Above ELSE {}

\* A directory is entered; the last entry of an inverted walk leads upwards.
Goal(isDir) ==
  IF Deeper(isDir) THEN {First(d, Top.up) : d \in {Entry} \cap Dirs}
  ELSE IF Climbs(isDir) THEN Above ELSE {}

\* The directory to enter may be gone: its walk returns at once.  (The parent
\* may be there when the entry is gone.)  An entry that leads nowhere is queued
\* for OPENED.
DescendOrOpen(isDir, exists) ==
  /\ \/ (Goal(isDir) = {} \/ ~exists) /\ Resume(Advanced)
     \/ (exists \/ Climbs(isDir)) /\ \E f \in Goal(isDir) : Resume(<<f>> \o Advanced)
  /\ queue' = IF Deeper(isDir) \/ Climbs(isDir) THEN queue ELSE Append(queue, Entry)

\* Mutant: STOP goes on with the next entry.
Bug_Obey(ans, isDir, exists) ==
  \/ ans \in {"SKIP", "STOP"} /\ Resume(Advanced) /\ UNCHANGED queue
  \/ ans = "ABORT" /\ frames' = Tail(frames) /\ walker' = "abort" /\ UNCHANGED queue
  \/ ans = "CONTINUE" /\ DescendOrOpen(isDir, exists)

\* ABORT ends the loop like STOP, once it is stored (StoreAbort).
Obey(ans, isDir, exists) ==
  \/ ans = "STOP" /\ Resume(Tail(frames)) /\ UNCHANGED queue
  \/ ans = "ABORT" /\ frames' = Tail(frames) /\ walker' = "abort" /\ UNCHANGED queue
  \/ ans = "SKIP" /\ Resume(Advanced) /\ UNCHANGED queue
  \/ ans = "CONTINUE" /\ DescendOrOpen(isDir, exists)

(* The QUEUING call and what the walk does with its answer.  An entry that  *)
(* vanished after the listing leaves File::isDir uninitialized.             *)
Visit(ans, isDir, exists) ==
  /\ walker = "call"
  /\ Entry \notin Hidden
  /\ isDir # (Entry \in Dirs) => ~exists
  /\ IF mode.filesOnly /\ isDir
       THEN ans = "CONTINUE" /\ UNCHANGED <<asked, answer, late>>
       ELSE /\ asked' = [asked EXCEPT ![Entry] = @ + 1]
            /\ answer' = [answer EXCEPT ![Entry] = ans]
            /\ late' = IF abort THEN late + 1 ELSE late
  /\ disturbed' = (disturbed \/ ans # "CONTINUE" \/ ~exists)
  /\ Obey(ans, isDir, exists)
  /\ UNCHANGED <<mode, held, abort, aborting, opened>>

\* abortSignal->store(true), some time after the callback has answered: the
\* workers go on in between.
StoreAbort ==
  /\ walker = "abort"
  /\ abort' = TRUE
  /\ Resume(frames)
  /\ UNCHANGED <<mode, queue, held, aborting, asked, opened, answer, late, disturbed>>

\* The callback, the listing of a directory or File's constructor throws: the
\* exception leaves walk.  Jobs already queued stay in the pool.
WalkThrows ==
  /\ walker \in {"check", "call"}
  /\ frames' = <<>>
  /\ walker' = "over"
  /\ disturbed' = TRUE
  /\ UNCHANGED <<mode, queue, held, abort, aborting, asked, opened, answer, late>>

-----------------------------------------------------------------------------
(* The workers *)

\* Mutant: a job does not look at the flag.
Bug_TakeUnchecked(w) ==
  /\ held[w] = NoEntry /\ w \notin aborting
  /\ queue # <<>>
  /\ queue' = Tail(queue)
  /\ held' = [held EXCEPT ![w] = Head(queue)]
  /\ UNCHANGED <<mode, frames, walker, abort, aborting, asked, opened, answer, late, disturbed>>

\* Mutant: an aborted job is put back.
Bug_TakeKeeps(w) ==
  /\ held[w] = NoEntry /\ w \notin aborting
  /\ queue # <<>>
  /\ queue' = IF abort THEN Append(Tail(queue), Head(queue)) ELSE Tail(queue)
  /\ held' = IF abort THEN held ELSE [held EXCEPT ![w] = Head(queue)]
  /\ UNCHANGED <<mode, frames, walker, abort, aborting, asked, opened, answer, late, disturbed>>

\* Take a job; it ends at once when the flag is up.
Take(w) ==
  /\ held[w] = NoEntry /\ w \notin aborting
  /\ queue # <<>>
  /\ queue' = Tail(queue)
  /\ held' = IF abort THEN held ELSE [held EXCEPT ![w] = Head(queue)]
  /\ UNCHANGED <<mode, frames, walker, abort, aborting, asked, opened, answer, late, disturbed>>

\* The OPENED call.  Of its answers only ABORT has an effect; an exception is
\* swallowed by the pool.
Open(w, ans) ==
  /\ held[w] # NoEntry
  /\ opened' = [opened EXCEPT ![held[w]] = @ + 1]
  /\ late' = IF abort THEN late + 1 ELSE late
  /\ held' = [held EXCEPT ![w] = NoEntry]
  /\ aborting' = IF ans = "ABORT" THEN aborting \cup {w} ELSE aborting
  /\ disturbed' = (disturbed \/ ans # "CONTINUE")
  /\ UNCHANGED <<mode, frames, walker, queue, abort, asked, answer>>

\* The job stores the ABORT it was answered, and ends.
StoreOpened(w) ==
  /\ w \in aborting
  /\ abort' = TRUE
  /\ aborting' = aborting \ {w}
  /\ UNCHANGED <<mode, frames, walker, queue, held, asked, opened, answer, late, disturbed>>

-----------------------------------------------------------------------------
Quiet == /\ walker = "over" /\ queue = <<>> /\ aborting = {}
         /\ \A w \in Workers : held[w] = NoEntry

Terminated == Quiet /\ UNCHANGED vars

WalkerStep == \/ ListingEnd \/ CheckAbort \/ Filter \/ StoreAbort
              \/ \E ans \in Answers, isDir, exists \in BOOLEAN : Visit(ans, isDir, exists)

WorkerStep(w) == Take(w) \/ StoreOpened(w) \/ \E ans \in Answers : Open(w, ans)

Next == WalkerStep \/ WalkThrows \/ (\E w \in Workers : WorkerStep(w)) \/ Terminated

(* Every thread keeps running, and callbacks return. *)
Fairness == WF_vars(WalkerStep) /\ \A w \in Workers : WF_vars(WorkerStep(w))

SafetySpec == Init /\ [][Next]_vars
Spec == SafetySpec /\ Fairness

-----------------------------------------------------------------------------
(* Properties *)

\* The walk has frames until it is over, and asks about an entry of the listing.
FramesInv == /\ walker = "over" => frames = <<>>
             /\ frames = <<>> => walker \in {"abort", "over"}
             /\ walker = "call" => Top.next <= Len(Listing)

Opening == {w \in Workers : held[w] # NoEntry}

\* Who may still enter the callback after ABORT has not yet done so, and is not
\* about to store an ABORT.
LateInv ==
  /\ \A w \in aborting : held[w] = NoEntry
  /\ ~abort => late = 0
  /\ abort => late + Cardinality(Opening) + (IF walker = "call" THEN 1 ELSE 0)
                <= Cardinality(Workers)

\* The inductive invariant behind CallsAfterAbort.
IInv == TypeOK /\ FramesInv /\ LateInv

\* Once an ABORT is stored, whoever else is about to store another one, no more
\* than one call is begun for each thread but the one that stored it: those
\* caught between their look at the flag and their call.  (Between the answer
\* and the store any number of calls may be.)
CallsAfterAbort == late <= Cardinality(Workers)

\* An entry is asked about and opened once at most, in all interleavings of the
\* walk and the workers: once for each time that an inverted walk comes to its
\* directory, which is more than once if the start path is not clean.
OnceEach == \A e \in Entries : /\ asked[e] <= Cardinality(Turns(mode, e))
                               /\ opened[e] <= Cardinality(Turns(mode, e))

\* What a walk may come to through an entry
Beneath(e) == IF mode.inverted THEN {e} ELSE Subtree(e)

\* What an answer to the i-th entry of d tells the walk to leave out
LeftOut(d, i) ==
  LET e == Children[d][i] IN
  (Beneath(e) \ {e})
    \cup (IF answer[e] = "SKIP" THEN {} ELSE UNION {Beneath(Children[d][k]) : k \in i + 1..Len(Children[d])})

\* SKIP keeps the walk and the workers out of the entry, with all beneath it,
\* STOP and ABORT out of the rest of its directory too.  (A walk that comes to a
\* directory again asks again.)
SteeringObeyed ==
  Clean(mode) =>
    \A d \in Dirs : \A i \in 1..Len(Children[d]) :
      answer[Children[d][i]] \in {"SKIP", "STOP", "ABORT"} =>
        /\ opened[Children[d][i]] = 0
        /\ \A x \in LeftOut(d, i) : asked[x] = 0 /\ opened[x] = 0

\* What is to be opened, by the documents: with filesOnly no directories, and
\* none that are walked into.
Wanted == VisibleIn(InReach) \ (IF mode.filesOnly \/ mode.recursive THEN Dirs ELSE {})

\* What is opened all the same: filesOnly is looked at before the QUEUING call
\* (line 297), not before the job is queued, so that a flat walk opens the
\* directories of its listing.
Unwanted == IF mode.filesOnly /\ ~mode.recursive THEN VisibleIn(InReach) \cap Dirs ELSE {}

\* A walk that nothing disturbed has opened, once all is quiet, all that it is to
\* open, and nothing else but, contrary to the documents, the directories of a
\* flat walk with filesOnly: no answer of a worker was lost on the way.
WalkComplete ==
  Quiet /\ ~disturbed /\ ~mode.inverted =>
    {e \in Entries : opened[e] = 1} = Wanted \cup Unwanted

\* The walk and the jobs it leaves behind come to an end.
WalkEnds == <>Quiet

-----------------------------------------------------------------------------
(* Why entries are met once, and answers obeyed: inductive invariants *)

Waiting(e) == e \in Range(queue) \/ \E w \in Workers : held[w] = e

\* The jobs for an entry that are queued or begun, and the calls made
Jobs(e) == Cardinality({k \in DOMAIN queue : queue[k] = e})
             + Cardinality({w \in Workers : held[w] = e}) + opened[e]

\* An inverted walk climbs: whatever it is called for takes up one of the turns
\* of the entry, and the turns to come are left.
TurnsInv ==
  mode.inverted =>
    /\ \A k \in DOMAIN frames : OnWay(mode, frames[k])
    /\ \A k \in DOMAIN frames : k > 1 => Rest(frames[k]) = {}
    /\ \A e \in Entries :
         LET left == IF frames = <<>> THEN {} ELSE Coming(mode, Top, e) IN
         /\ asked[e] + Cardinality(left) <= Cardinality(Turns(mode, e))
         /\ Jobs(e) + Cardinality(left) <= Cardinality(Turns(mode, e))

Fresh(e) == asked[e] = 0 /\ opened[e] = 0 /\ answer[e] = "none" /\ ~Waiting(e)

\* What the frames have ahead of them is apart, and was not met.
AheadInv == /\ Separate(mode, frames)
            /\ \A e \in AheadOf(mode, frames) : Fresh(e)

MetOnceInv == \A e \in Entries : asked[e] <= 1 /\ opened[e] <= 1

\* A job is queued, held by one worker, or done.
JobsInv ==
  /\ \A e \in Entries : opened[e] > 0 => ~Waiting(e)
  /\ \A i, k \in DOMAIN queue : i # k => queue[i] # queue[k]
  /\ \A v, w \in Workers : v # w => held[v] # held[w] \/ held[v] = NoEntry
  /\ \A w \in Workers : held[w] \notin Range(queue)

\* What an answer leaves out was not met, and is not ahead.
SteerInv ==
  \A d \in Dirs : \A i \in 1..Len(Children[d]) :
    answer[Children[d][i]] \in {"SKIP", "STOP", "ABORT"} =>
      /\ opened[Children[d][i]] = 0 /\ ~Waiting(Children[d][i])
      /\ \A x \in LeftOut(d, i) : /\ asked[x] = 0 /\ opened[x] = 0 /\ ~Waiting(x)
                                  /\ x \notin AheadOf(mode, frames)

\* Of a walk that comes to no directory twice
EntriesInv == AheadInv /\ MetOnceInv /\ JobsInv /\ SteerInv
CleanInv == Clean(mode) => EntriesInv

\* A walk that nothing disturbed is in directories in reach, and what it wants
\* was opened, is waiting for it, or lies ahead.
CompleteInv ==
  /\ abort \/ aborting # {} \/ walker = "abort" => disturbed
  /\ ~disturbed /\ ~mode.inverted =>
       /\ \A k \in DOMAIN frames : frames[k].dir \in InReach
       /\ \A e \in Entries : Waiting(e) \/ opened[e] > 0 => e \in Wanted \cup Unwanted
       /\ \A e \in Wanted \cup Unwanted :
            Waiting(e) \/ opened[e] > 0 \/ e \in AheadOf(mode, frames)
=============================================================================
