------------------------------- MODULE DirTree -------------------------------
(* The directory tree that a DirWalker (include/DirWalker.hpp) walks, and   *)
(* the entries it should meet.                                              *)
EXTENDS Naturals, Sequences, FiniteSets, Functions

CONSTANTS Dirs, Files,
          Start,     \* DirWalker::path
          Children,  \* Children[d]: the listing of d, in the iterator's order
          Hidden     \* entries a git-ignore rule or matchExt filters out

Entries == Dirs \cup Files

\* An entry stands in one place of one listing.
ASSUME TreeAssumption ==
  /\ IsFiniteSet(Entries) /\ Dirs \cap Files = {}
  /\ Start \in Dirs /\ Hidden \subseteq Entries
  /\ Children \in [Dirs -> Seq(Entries)]
  /\ \A c, d \in Dirs : \A i \in 1..Len(Children[c]), k \in 1..Len(Children[d]) :
       Children[c][i] = Children[d][k] => c = d /\ i = k

\* Depths that grow from a directory to those in it
Depths == {depth \in [Dirs -> 0..Cardinality(Dirs)] :
             \A d \in Dirs : \A c \in Range(Children[d]) \cap Dirs : depth[d] < depth[c]}

\* A path is longer than that of the directory it is in.
ASSUME DepthAssumption == Depths # {}

\* DirWalker::ACTION
Answers == {"CONTINUE", "SKIP", "STOP", "ABORT"}

Parents(d) == {p \in Dirs : d \in Range(Children[p])}

\* What a recursive walk descends into: the start directory, and whatever
\* visible directory is in one of these.
DirsInReach ==
  {d \in Dirs : \A S \in SUBSET Dirs :
     /\ Start \in S
     /\ \A p \in S : (Range(Children[p]) \cap Dirs) \ Hidden \subseteq S
     => d \in S}

VisibleIn(ds) == {e \in Entries \ Hidden : Parents(e) \cap ds # {}}

-----------------------------------------------------------------------------
(* What proofs about walks need to say *)

Depth == CHOOSE depth \in Depths : TRUE

Closed(S) == \A d \in S \cap Dirs : Range(Children[d]) \subseteq S

\* What is below a directory: in it, or in what is below it.
Below == [d \in Dirs |-> {x \in Entries : \A S \in SUBSET Entries :
                            Range(Children[d]) \subseteq S /\ Closed(S) => x \in S}]

Subtree(e) == {e} \cup (IF e \in Dirs THEN Below[e] ELSE {})
=============================================================================
