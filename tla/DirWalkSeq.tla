------------------------------ MODULE DirWalkSeq ------------------------------
(* DirWalker::walk without a pool (include/DirWalker.hpp): one thread walks  *)
(* the tree, calls the callback on each entry (OPENED), enters directories,  *)
(* and hands the STATUS of a nested walk to the walk around it.  (The names  *)
(* differ from those of DirWalkPool: DirWalkProofs is about both modules.)   *)
EXTENDS DirFrames

VARIABLES at,        \* where the walk is
          result,    \* the STATUS that walk has returned
          told,      \* OPENED calls made for an entry
          failed,    \* FAILED calls made for an entry
          reply,     \* the answer to the last OPENED call for an entry
          vanished,  \* history: something vanished while the walk was under way
          threw

calls == <<told, failed, reply>>
seqVars == <<mode, frames, at, result, calls, vanished, threw>>

SeqTypeOK ==
  /\ mode \in Modes /\ frames \in Seq(Frame)
  /\ at \in {"check", "failed", "over"}
  /\ result \in {"none", "STOPPED", "ABORTED", "FAILED", "DONE"}
  /\ told \in [Entries -> Nat] /\ failed \in [Entries -> Nat]
  /\ reply \in [Entries -> Answers \cup {"none"}]
  /\ vanished \in BOOLEAN /\ threw \in BOOLEAN

SeqInit ==
  /\ mode \in Modes /\ frames = <<First(Start, 0)>>
  /\ at = "check" /\ result = "none"
  /\ told = [e \in Entries |-> 0] /\ failed = [e \in Entries |-> 0]
  /\ reply = [e \in Entries |-> "none"]
  /\ vanished = FALSE /\ threw = FALSE

Goto(place) == at' = place /\ UNCHANGED result

\* Mutant: a nested walk that ended early ends the walk around it, too.
Bug_Unwound(status) == IF status \in {"STOPPED", "ABORTED"} THEN <<>> ELSE Tail(frames)

\* Mutant: ABORTED is not passed on.
Bug_UnwoundOnce(status) == Tail(frames)

\* The walks that are left when the innermost one returns: ABORTED ends all.
Unwound(status) == IF status = "ABORTED" THEN <<>> ELSE Tail(frames)

Returns(status) ==
  /\ frames' = Unwound(status)
  /\ IF frames' = <<>> THEN at' = "over" /\ result' = status ELSE Goto("check")

SeqListingEnd ==
  /\ at = "check"
  /\ Top.next > Len(Listing)
  /\ Returns("DONE")
  /\ UNCHANGED <<mode, calls, vanished, threw>>

\* Mutant: the loop does not go on to the next entry.
Bug_Filter ==
  /\ at = "check"
  /\ Top.next <= Len(Listing) /\ Entry \in Hidden
  /\ UNCHANGED seqVars

\* An ignored entry, or one whose extension is not asked for: continue, which
\* leaves out the climb of an inverted walk as well.
SeqFilter ==
  /\ at = "check"
  /\ Top.next <= Len(Listing) /\ Entry \in Hidden
  /\ frames' = Advanced /\ Goto("check")
  /\ UNCHANGED <<mode, calls, vanished, threw>>

\* Mutant: directories are left out of the calls of any walk into them.
Bug_Silent(isDir) == isDir /\ (mode.filesOnly \/ mode.recursive)

\* The callback is not told of directories.
Silent(isDir) == isDir /\ mode.filesOnly

(* The OPENED call, or none.  An entry that vanished after the listing       *)
(* leaves File::isDir uninitialized.                                         *)
Call(ans, isDir, exists) ==
  /\ at = "check"
  /\ Top.next <= Len(Listing) /\ Entry \notin Hidden
  /\ isDir # (Entry \in Dirs) => ~exists
  /\ IF Silent(isDir)
       THEN ans = "CONTINUE" /\ UNCHANGED <<told, reply>>
       ELSE /\ told' = [told EXCEPT ![Entry] = @ + 1]
            /\ reply' = [reply EXCEPT ![Entry] = ans]
  /\ vanished' = (vanished \/ ~exists)
  /\ UNCHANGED <<mode, failed, threw>>

\* The statuses with which an answer ends the walk of its directory
Leaves(ans) == CASE ans = "ABORT" -> {"ABORTED"}
                 [] ans = "STOP" -> {"STOPPED"}
                 [] OTHER -> {}

Leave(ans, isDir, exists) ==
  /\ Call(ans, isDir, exists)
  /\ \E status \in Leaves(ans) : Returns(status)

GoOn(ans, isDir, exists) ==
  /\ Call(ans, isDir, exists)
  /\ Leaves(ans) = {}
  /\ ans = "CONTINUE" => ~Deeper(isDir) /\ (Climbs(isDir) => Above = {})
  /\ frames' = Advanced /\ Goto("check")

\* A directory is entered; when it is gone, its walk returns FAILED at once.
Enter(isDir, exists) ==
  /\ Call("CONTINUE", isDir, exists)
  /\ Deeper(isDir)
  /\ IF exists /\ Entry \in Dirs
       THEN frames' = <<First(Entry, Top.up)>> \o Advanced /\ Goto("check")
       ELSE UNCHANGED frames /\ Goto("failed")

\* The FAILED call about a directory; its answer goes unused.
ReportFailed(ans) ==
  /\ at = "failed"
  /\ failed' = [failed EXCEPT ![Entry] = @ + 1]
  /\ frames' = Advanced /\ Goto("check")
  /\ UNCHANGED <<mode, told, reply, vanished, threw>>

\* The last entry of an inverted walk, be it there or gone: return the walk of
\* the directory above, which may be gone.
Climb(isDir, exists) ==
  /\ Call("CONTINUE", isDir, exists)
  /\ Climbs(isDir)
  /\ \E f \in Above :
       \/ frames' = <<f>> \o Tail(frames) /\ Goto("check")
       \/ ~exists /\ Returns("FAILED")

\* A callback, a listing or File's constructor throws: the exception leaves walk.
SeqThrows ==
  /\ at # "over"
  /\ frames' = <<>> /\ Goto("over")
  /\ threw' = TRUE
  /\ UNCHANGED <<mode, calls, vanished>>

SeqTerminated == at = "over" /\ UNCHANGED seqVars

WalkStep ==
  \/ SeqListingEnd \/ SeqFilter
  \/ \E ans \in Answers : ReportFailed(ans)
  \/ \E isDir, exists \in BOOLEAN :
       \/ \E ans \in Answers : Leave(ans, isDir, exists) \/ GoOn(ans, isDir, exists)
       \/ Enter(isDir, exists) \/ Climb(isDir, exists)

SeqNext == WalkStep \/ SeqThrows \/ SeqTerminated

(* The thread keeps running, and callbacks return. *)
SeqSpec == SeqInit /\ [][SeqNext]_seqVars /\ WF_seqVars(WalkStep)

-----------------------------------------------------------------------------
(* Properties *)

Aborted == \E e \in Entries : reply[e] = "ABORT"

\* An ABORT to OPENED, however deep, ends all the walks around it: the status
\* says so, and no call follows.
AbortUnwinds ==
  /\ Aborted => at = "over"
  /\ at = "over" /\ ~threw => (result = "ABORTED" <=> Aborted)

\* A directory is opened before what is in it, and what is in a directory that
\* was answered SKIP or STOP is never reached.
ParentFirst ==
  ~mode.inverted =>
    \A d \in Dirs \ {Start} : \A x \in Range(Children[d]) :
      told[x] > 0 => /\ mode.filesOnly \/ told[d] = 1
                     /\ reply[d] \in {"none", "CONTINUE"}

\* STOP ends the listing it was answered in and no other: when nothing else
\* disturbs the walk of a directory, its later entries are still visited.
\* (A walk that comes to a directory again may meet its later entries before.)
StopIsLocal ==
  Clean(mode) => \A d \in Dirs : \A i \in 1..Len(Children[d]) : reply[Children[d][i]] = "STOP" =>
    /\ \A k \in i + 1..Len(Children[d]) : told[Children[d][k]] = 0
    /\ at = "over" /\ ~threw /\ ~vanished /\ ~Aborted /\ d # Start /\ ~mode.inverted =>
         \A p \in Parents(d) : (\A x \in Range(Children[p]) : reply[x] # "STOP") =>
           \A x \in Range(Children[p]) \ (Hidden \cup Dirs) : told[x] = 1

SeqWanted == VisibleIn(InReach) \ (IF mode.filesOnly THEN Dirs ELSE {})

\* A walk that nothing disturbed returns DONE and has opened exactly what it
\* should, once: the visible entries in reach, without directories if filesOnly.
\* An inverted walk opens an entry no more often than it comes to its directory.
SeqComplete ==
  at = "over" /\ ~threw /\ ~vanished /\ (\A e \in Entries : reply[e] \in {"none", "CONTINUE"}) =>
    /\ result = "DONE"
    /\ \A e \in Entries : told[e] <= Cardinality(Turns(mode, e)) /\ failed[e] = 0
    /\ ~mode.inverted => {e \in Entries : told[e] = 1} = SeqWanted

\* The walk ends.
SeqEnds == <>(at = "over")

-----------------------------------------------------------------------------
(* Why they hold: an inductive invariant *)

PlaceInv == /\ at = "over" <=> frames = <<>>
            /\ at = "failed" => Top.next <= Len(Listing) /\ vanished
            /\ ~vanished => \A e \in Entries : failed[e] = 0

\* The loops as they go on: past the entry that is reported as failed.
Loops == IF at = "failed" THEN Advanced ELSE frames

\* The calls of an inverted walk take up the turns of the entries; it has one
\* frame, and is not in the directories that it lists.
UpInv ==
  mode.inverted =>
    /\ at # "failed" /\ Len(frames) <= 1
    /\ frames # <<>> => OnWay(mode, Top)
    /\ \A e \in Entries : told[e] + Cardinality(IF frames = <<>> THEN {} ELSE Coming(mode, Top, e))
                            <= Cardinality(Turns(mode, e))

\* What is ahead was not met, and what was met was met once.
MetInv == /\ Separate(mode, Loops)
          /\ \A e \in AheadOf(mode, Loops) : told[e] = 0
          /\ \A e \in Entries : told[e] <= 1 /\ (reply[e] = "none" <=> told[e] = 0)

\* What STOP leaves out was not met and is not ahead.
StopInv ==
  \A d \in Dirs : \A i \in 1..Len(Children[d]) : reply[Children[d][i]] = "STOP" =>
    \A k \in i + 1..Len(Children[d]) :
      told[Children[d][k]] = 0 /\ Children[d][k] \notin AheadOf(mode, Loops)

InFrames(d) == \E k \in DOMAIN frames : frames[k].dir = d

\* The walk is, or has been, in the listing of d.
Seen(d) == InFrames(d) \/ \E x \in Range(Children[d]) : told[x] > 0

\* A directory that is seen was told of before, and is not ahead any more.
SeenInv ==
  ~mode.inverted =>
    /\ \A d \in Dirs \cap AheadOf(mode, Loops) : ~InFrames(d)
    /\ \A d \in Dirs \ {Start} : Seen(d) => /\ mode.filesOnly \/ told[d] = 1
                                           /\ reply[d] \in {"none", "CONTINUE"}

\* It is, or has been, in that listing or a listing below it.
Touched(p) == Seen(p) \/ \E c \in Range(Children[p]) \cap Dirs : c # Start /\ Seen(c)

\* A listing that was touched and not stopped is done or will be.
ListingInv ==
  ~mode.inverted /\ ~threw /\ ~vanished /\ ~Aborted =>
    \A p \in Dirs : Touched(p) /\ (\A c \in Range(Children[p]) : reply[c] # "STOP") =>
      \A x \in Range(Children[p]) \ (Hidden \cup Dirs) : told[x] = 1 \/ x \in AheadOf(mode, Loops)

Calm == ~threw /\ ~vanished /\ \A e \in Entries : reply[e] \in {"none", "CONTINUE"}

\* A walk that nothing disturbed is in directories in reach, and what it wants
\* it was told of or has ahead.
CalmInv ==
  Calm =>
    /\ at = "over" => result = "DONE"
    /\ ~mode.inverted =>
         /\ \A k \in DOMAIN frames : frames[k].dir \in InReach
         /\ \A e \in Entries : told[e] > 0 => e \in SeqWanted
         /\ \A e \in SeqWanted : told[e] > 0 \/ e \in AheadOf(mode, Loops)

SeqInv == /\ SeqTypeOK /\ PlaceInv /\ AbortUnwinds /\ UpInv
          /\ Clean(mode) => MetInv /\ StopInv
          /\ SeenInv /\ ListingInv /\ CalmInv
=============================================================================
