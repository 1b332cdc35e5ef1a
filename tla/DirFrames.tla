------------------------------ MODULE DirFrames ------------------------------
(* What the walks of DirWalker have in common: a configuration, and the      *)
(* recursion of walk over the directories, each call at an entry of its      *)
(* directory's listing.                                                      *)
EXTENDS DirTree

CONSTANT Ways  \* the ways up that the spellings of the start path lead

\* A way up: the directories that fs::absolute(path).parent_path(), and its
\* parent_path() in turn, name.  The climb goes by the text of the path: from
\* here/ or here/. the first step leads to here again, from here/sub/.. to
\* here/sub.  Only the spelling "." is taken care of.
ASSUME WaysAssumption == Ways \subseteq Seq(Dirs)

VARIABLES mode,   \* the walker's configuration, and its way up if it is inverted
          frames  \* the recursion of walk, innermost call first

Modes == [recursive : BOOLEAN, inverted : {FALSE}, filesOnly : BOOLEAN, way : {<<>>}]
           \cup [recursive : BOOLEAN, inverted : {TRUE}, filesOnly : BOOLEAN, way : Ways]

\* up: the climbs that led to the directory (level goes down by one with each)
Frame == [dir : Dirs, next : Nat \ {0}, up : Nat]
First(d, n) == [dir |-> d, next |-> 1, up |-> n]

Top == Head(frames)
Listing == Children[Top.dir]
Entry == Listing[Top.next]

Advanced == <<[Top EXCEPT !.next = @ + 1]>> \o Tail(frames)

\* Whether an entry is walked into; whether it sends an inverted walk upwards.
Deeper(isDir) == isDir /\ mode.recursive /\ ~mode.inverted
Climbs(isDir) == ~Deeper(isDir) /\ mode.inverted /\ Top.next = Len(Listing)

\* Mutant: the climb starts at the directory that the path names.
Bug_Above == IF Top.up < Len(mode.way) THEN {First(Top.dir, Top.up + 1)} ELSE {}

\* The walk of the parent: none above a child of the root (has_relative_path).
Above == IF Top.up < Len(mode.way) THEN {First(mode.way[Top.up + 1], Top.up + 1)} ELSE {}

-----------------------------------------------------------------------------
(* Which listings a walk comes to *)

\* Where an inverted walk is after i climbs
Climbed(m, i) == IF i = 0 THEN Start ELSE m.way[i]

\* The start path is spelled so that no directory is climbed to twice.
Clean(m) == m.inverted =>
              \A i, k \in 0..Len(m.way) : i # k => Climbed(m, i) # Climbed(m, k)

\* The climbs after which a walk lists the directory that an entry is in; the
\* walks that do not climb come to a directory once.
Turns(m, e) == IF m.inverted THEN {i \in 0..Len(m.way) : e \in Range(Children[Climbed(m, i)])}
               ELSE {0}

\* The directories that a walk enters
InReach == IF mode.recursive THEN DirsInReach ELSE {Start}

-----------------------------------------------------------------------------
(* What proofs about walks need to say *)

Walking == frames \in Seq(Frame) /\ frames # <<>>
AtEntry == Walking /\ Top.next <= Len(Listing)

\* The entries that the loop of a frame has not come to
Rest(f) == {Children[f.dir][i] : i \in f.next..Len(Children[f.dir])}

\* The entries that the walk of a frame may yet come to, in the configuration m:
\* an inverted walk goes up, another one down.
Ahead(m, f) ==
  IF ~m.inverted THEN UNION {Subtree(e) : e \in Rest(f)}
  ELSE IF Rest(f) = {} THEN {}
  ELSE Rest(f) \cup UNION {Range(Children[m.way[i]]) : i \in f.up + 1..Len(m.way)}

AheadOf(m, fs) == UNION {Ahead(m, fs[k]) : k \in DOMAIN fs}

\* An inverted walk is where its climbs have led it.
OnWay(m, f) == m.inverted => f.up \in 0..Len(m.way) /\ f.dir = Climbed(m, f.up)

\* The frames of a clean walk have nothing in common.
Separate(m, fs) == /\ Clean(m)
                   /\ \A k \in DOMAIN fs : OnWay(m, fs[k])
                   /\ \A k, l \in DOMAIN fs : k # l => Ahead(m, fs[k]) \cap Ahead(m, fs[l]) = {}

\* The turns that an inverted walk still has for an entry
Coming(m, f, e) ==
  IF Rest(f) = {} THEN {}
  ELSE {i \in f.up..Len(m.way) : /\ e \in Range(Children[Climbed(m, i)])
                                 /\ i = f.up => e \in Rest(f)}
=============================================================================
