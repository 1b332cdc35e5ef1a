---------------------------- MODULE DirWalkProofs ----------------------------
(* Proofs about the walks with a pool and without, for any tree.            *)
EXTENDS DirWalkPool, DirWalkSeq, FiniteSetTheorems, SequenceTheorems, TLAPS

-----------------------------------------------------------------------------
(* The tree *)

LEMMA TreeFacts ==
  /\ \A d \in Dirs : Children[d] \in Seq(Entries) /\ Range(Children[d]) \subseteq Entries
  /\ \A d \in Dirs : \A i \in 1..Len(Children[d]) : Children[d][i] \in Range(Children[d])
  /\ \A d \in Dirs : \A x \in Range(Children[d]) : \E i \in 1..Len(Children[d]) : x = Children[d][i]
  /\ \A c, d \in Dirs : Range(Children[c]) \cap Range(Children[d]) # {} => c = d
<1>1. ASSUME NEW d \in Dirs
      PROVE  /\ Children[d] \in Seq(Entries) /\ DOMAIN Children[d] = 1..Len(Children[d])
             /\ \A i \in 1..Len(Children[d]) : Children[d][i] \in Entries
  BY TreeAssumption
<1>2. \A d \in Dirs : \A x \in Range(Children[d]) : \E i \in 1..Len(Children[d]) : x = Children[d][i]
  BY <1>1 DEF Range
<1>3. ASSUME NEW c \in Dirs, NEW d \in Dirs, NEW x \in Range(Children[c]), x \in Range(Children[d])
      PROVE  c = d
  BY <1>2, <1>3, TreeAssumption
<1> QED
  BY <1>1, <1>2, <1>3 DEF Range

LEMMA DepthFacts ==
  /\ \A d \in Dirs : Depth[d] \in Nat
  /\ \A d \in Dirs : \A c \in Range(Children[d]) \cap Dirs : Depth[d] < Depth[c]
<1>1. Depth \in Depths
  BY DepthAssumption DEF Depth
<1>2. Cardinality(Dirs) \in Nat
  <2>1. IsFiniteSet(Dirs)
    BY TreeAssumption, FS_Subset DEF Entries
  <2> QED
    BY <2>1, FS_CardinalityType
<1> QED
  BY <1>1, <1>2 DEF Depths

\* Below[d] is the least set that holds what is in d and in what it holds.
LEMMA BelowFacts ==
  ASSUME NEW d \in Dirs
  PROVE  /\ Below[d] \subseteq Entries /\ Range(Children[d]) \subseteq Below[d]
         /\ \A x \in Below[d] \cap Dirs : Range(Children[x]) \subseteq Below[d]
<1>1. Below[d] = {x \in Entries : \A S \in SUBSET Entries :
                    Range(Children[d]) \subseteq S /\ Closed(S) => x \in S}
  BY DEF Below
<1>2. Range(Children[d]) \subseteq Entries
  BY TreeFacts
<1>3. ASSUME NEW x \in Below[d] \cap Dirs, NEW y \in Range(Children[x])
      PROVE  y \in Below[d]
  <2>1. y \in Entries
    BY <1>3, TreeFacts
  <2>2. ASSUME NEW S \in SUBSET Entries, Range(Children[d]) \subseteq S, Closed(S)
        PROVE  y \in S
    <3>1. x \in S
      BY <1>1, <2>2
    <3> QED
      BY <2>2, <3>1 DEF Closed
  <2> QED
    BY <1>1, <2>1, <2>2
<1> QED
  BY <1>1, <1>2, <1>3

LEMMA BelowLeast ==
  ASSUME NEW d \in Dirs, NEW S \in SUBSET Entries,
         \A x \in Range(Children[d]) : x \in S,
         \A x \in S \cap Dirs : \A y \in Range(Children[x]) : y \in S
  PROVE  \A x \in Below[d] : x \in S
<1>1. Closed(S) /\ Range(Children[d]) \subseteq S
  BY DEF Closed
<1> QED
  BY <1>1 DEF Below

LEMMA BelowIsDeeper ==
  ASSUME NEW d \in Dirs, NEW x \in Below[d], x \in Dirs
  PROVE  Depth[d] < Depth[x]
<1> DEFINE S == {y \in Below[d] : y \in Dirs => Depth[d] < Depth[y]}
<1>1. S \in SUBSET Entries
  BY BelowFacts
<1>2. \A y \in Range(Children[d]) : y \in S
  BY BelowFacts, DepthFacts
<1>3. ASSUME NEW y \in S \cap Dirs, NEW z \in Range(Children[y])
      PROVE  z \in S
  <2>1. z \in Below[d]
    BY BelowFacts
  <2>2. z \in Dirs => Depth[d] < Depth[z]
    BY DepthFacts
  <2> QED
    BY <2>1, <2>2
<1> HIDE DEF S
<1>4. x \in S
  BY <1>1, <1>2, <1>3, BelowLeast
<1> QED
  BY <1>4 DEF S

\* What is below d is in d, or in a directory below d.
LEMMA BelowParent ==
  ASSUME NEW d \in Dirs, NEW x \in Below[d], NEW p \in Dirs, x \in Range(Children[p])
  PROVE  p = d \/ p \in Below[d]
<1> DEFINE S == {y \in Below[d] : \A q \in Dirs : y \in Range(Children[q]) => q = d \/ q \in Below[d]}
<1>1. S \in SUBSET Entries
  BY BelowFacts
<1>2. \A y \in Range(Children[d]) : y \in S
  BY BelowFacts, TreeFacts
<1>3. ASSUME NEW y \in S \cap Dirs, NEW z \in Range(Children[y])
      PROVE  z \in S
  <2>1. z \in Below[d] /\ y \in Below[d]
    BY BelowFacts
  <2>2. ASSUME NEW q \in Dirs, z \in Range(Children[q])
        PROVE  q = y
    BY <2>2, TreeFacts
  <2> QED
    BY <2>1, <2>2
<1> HIDE DEF S
<1>4. x \in S
  BY <1>1, <1>2, <1>3, BelowLeast
<1> QED
  BY <1>4 DEF S

\* A directory in another one has less below it.
LEMMA BelowShrinks ==
  ASSUME NEW d \in Dirs, NEW e \in Range(Children[d])
  PROVE  /\ Subtree(e) \subseteq Below[d]
         /\ e \in Dirs => e \notin Below[e]
<1>1. CASE e \in Dirs
  <2>1. \A x \in Below[e] : x \in Below[d]
    <3>1. e \in Below[d] /\ Below[d] \in SUBSET Entries
      BY BelowFacts
    <3>2. /\ \A x \in Range(Children[e]) : x \in Below[d]
          /\ \A x \in Below[d] \cap Dirs : \A y \in Range(Children[x]) : y \in Below[d]
      BY <1>1, <3>1, BelowFacts
    <3> QED
      BY <1>1, <3>1, <3>2, BelowLeast
  <2>2. e \notin Below[e]
    BY <1>1, BelowIsDeeper, DepthFacts
  <2> QED
    BY <2>1, <2>2, BelowFacts DEF Subtree
<1>2. CASE e \notin Dirs
  BY <1>2, BelowFacts DEF Subtree
<1> QED
  BY <1>1, <1>2

\* What is in a directory and below what is in it is what is below it.
LEMMA BelowUnfolds ==
  ASSUME NEW d \in Dirs
  PROVE  Below[d] = UNION {Subtree(e) : e \in Range(Children[d])}
<1> DEFINE S == UNION {Subtree(e) : e \in Range(Children[d])}
<1>1. S \subseteq Below[d]
  BY BelowShrinks
<1>2. S \in SUBSET Entries
  BY <1>1, BelowFacts
<1>3. \A x \in Range(Children[d]) : x \in S
  BY DEF Subtree
<1>4. ASSUME NEW x \in S \cap Dirs, NEW y \in Range(Children[x])
      PROVE  y \in S
  <2>1. PICK e \in Range(Children[d]) : x \in Subtree(e)
    OBVIOUS
  <2>2. e \in Entries
    BY TreeFacts
  <2>3. CASE x = e
    <3>1. y \in Below[e]
      BY <2>3, BelowFacts
    <3> QED
      BY <2>3, <3>1 DEF Subtree
  <2>4. CASE x # e
    <3>1. e \in Dirs /\ x \in Below[e]
      BY <2>1, <2>4 DEF Subtree
    <3>2. y \in Below[e]
      BY <3>1, BelowFacts
    <3> QED
      BY <3>1, <3>2 DEF Subtree
  <2> QED
    BY <2>3, <2>4
<1> HIDE DEF S
<1>5. \A x \in Below[d] : x \in S
  BY <1>2, <1>3, <1>4, BelowLeast
<1> QED
  BY <1>1, <1>5 DEF S

\* Two entries of a directory have nothing in common.
LEMMA SiblingsApart ==
  ASSUME NEW d \in Dirs, NEW c \in Range(Children[d]), NEW e \in Range(Children[d]), c # e
  PROVE  Subtree(c) \cap Subtree(e) = {}
<1>1. ASSUME NEW a \in Range(Children[d]), NEW b \in Range(Children[d]), a # b, a \in Dirs
      PROVE  b \notin Below[a]
  <2> SUFFICES ASSUME b \in Below[a]
               PROVE  FALSE
    OBVIOUS
  <2>1. d = a \/ d \in Below[a]
    BY <1>1, BelowParent
  <2>2. Depth[d] < Depth[a] /\ Depth[d] \in Nat /\ Depth[a] \in Nat
    BY <1>1, DepthFacts
  <2> QED
    BY <1>1, <2>1, <2>2, BelowIsDeeper
<1>2. ASSUME c \in Dirs, e \in Dirs
      PROVE  \A x \in Below[e] : x \notin Subtree(c)
  <2> DEFINE S == Below[e] \ Subtree(c)
  <2>1. S \in SUBSET Entries
    BY <1>2, BelowFacts
  <2>2. c \notin Below[e] /\ e \notin Below[c]
    BY <1>1, <1>2
  <2>3. ASSUME NEW x \in (Below[e] \cup {e}) \cap Dirs, x \notin Subtree(c),
               NEW y \in Range(Children[x])
        PROVE  y \in S
    <3>1. y \in Below[e]
      BY <1>2, <2>3, BelowFacts
    <3>2. y # c
      BY <2>2, <3>1
    <3>3. y \notin Below[c]
      <4> SUFFICES ASSUME y \in Below[c]
                   PROVE  FALSE
        OBVIOUS
      <4>1. x = c \/ x \in Below[c]
        BY <1>2, BelowParent
      <4> QED
        BY <1>2, <2>3, <4>1 DEF Subtree
    <3> QED
      BY <1>2, <3>1, <3>2, <3>3 DEF Subtree
  <2>4. e \notin Subtree(c)
    BY <1>2, <2>2 DEF Subtree
  <2>5. \A x \in Range(Children[e]) : x \in S
    BY <1>2, <2>3, <2>4
  <2>6. \A x \in S \cap Dirs : \A y \in Range(Children[x]) : y \in S
    BY <2>3
  <2> HIDE DEF S
  <2>7. \A x \in Below[e] : x \in S
    BY <1>2, <2>1, <2>5, <2>6, BelowLeast
  <2> QED
    BY <2>7 DEF S
<1>3. CASE c \in Dirs /\ e \in Dirs
  <2>1. e \notin Subtree(c)
    BY <1>1, <1>3 DEF Subtree
  <2> QED
    BY <1>2, <1>3, <2>1 DEF Subtree
<1>4. CASE c \notin Dirs \/ e \notin Dirs
  BY <1>1, <1>4 DEF Subtree
<1> QED
  BY <1>3, <1>4

\* What is below an entry of a directory is not in that directory.
LEMMA BelowIsNotBeside ==
  ASSUME NEW d \in Dirs, NEW e \in Range(Children[d]), NEW x \in Subtree(e),
         x \in Range(Children[d])
  PROVE  x = e
<1>1. x \in Subtree(x)
  BY DEF Subtree
<1> QED
  BY <1>1, SiblingsApart

\* The least set of directories in reach.
LEMMA ReachFacts ==
  /\ DirsInReach \subseteq Dirs /\ Start \in DirsInReach
  /\ \A p \in DirsInReach : (Range(Children[p]) \cap Dirs) \ Hidden \subseteq DirsInReach
  /\ \A S \in SUBSET Dirs :
       Start \in S /\ (\A p \in S : (Range(Children[p]) \cap Dirs) \ Hidden \subseteq S)
         => DirsInReach \subseteq S
<1>1. ASSUME NEW p \in DirsInReach, NEW c \in (Range(Children[p]) \cap Dirs) \ Hidden
      PROVE  c \in DirsInReach
  <2> SUFFICES ASSUME NEW S \in SUBSET Dirs, Start \in S,
                      \A q \in S : (Range(Children[q]) \cap Dirs) \ Hidden \subseteq S
               PROVE  c \in S
    BY DEF DirsInReach
  <2>1. p \in S
    BY DEF DirsInReach
  <2> QED
    BY <2>1
<1>2. Start \in DirsInReach
  BY TreeAssumption DEF DirsInReach
<1>3. DirsInReach \subseteq Dirs
  BY DEF DirsInReach
<1>4. ASSUME NEW S \in SUBSET Dirs, Start \in S,
             \A p \in S : (Range(Children[p]) \cap Dirs) \ Hidden \subseteq S
      PROVE  DirsInReach \subseteq S
  BY <1>4 DEF DirsInReach
<1> QED
  BY <1>1, <1>2, <1>3, <1>4

\* Directories in reach are the start or below it.
LEMMA ReachIsBelow ==
  ASSUME NEW d \in DirsInReach
  PROVE  d = Start \/ d \in Below[Start]
<1> DEFINE S == ({Start} \cup Below[Start]) \cap Dirs
<1>1. S \in SUBSET Dirs /\ Start \in S /\ Start \in Dirs
  BY TreeAssumption
<1>2. ASSUME NEW p \in S, NEW c \in (Range(Children[p]) \cap Dirs) \ Hidden
      PROVE  c \in S
  BY <1>1, BelowFacts
<1> HIDE DEF S
<1>3. d \in S
  BY <1>1, <1>2, ReachFacts
<1> QED
  BY <1>3 DEF S

\* What is hidden in a directory in reach is out of reach, with all below it.
LEMMA HiddenIsOut ==
  ASSUME NEW p \in DirsInReach, NEW h \in Range(Children[p]) \cap Hidden
  PROVE  /\ Subtree(h) \cap DirsInReach = {}
         /\ Subtree(h) \cap VisibleIn(DirsInReach) = {}
<1> DEFINE S == Dirs \ Subtree(h)
<1>1. p \in Dirs /\ h \in Entries /\ Start \in Dirs
  BY ReachFacts, TreeFacts, TreeAssumption
<1>2. ASSUME NEW q \in Dirs, q \notin Subtree(h), NEW c \in Range(Children[q]), c \in Subtree(h)
      PROVE  c = h
  <2>1. CASE h \in Dirs /\ c \in Below[h]
    <3>1. q = h \/ q \in Below[h]
      BY <2>1, BelowParent
    <3> QED
      BY <1>2, <2>1, <3>1 DEF Subtree
  <2> QED
    BY <1>2, <2>1 DEF Subtree
<1>3. Start \in S
  <2> SUFFICES ASSUME Start \in Subtree(h)
               PROVE  FALSE
    BY <1>1
  <2>1. h \in Dirs
    BY <1>1 DEF Subtree
  <2>2. Depth[h] <= Depth[Start]
    BY <1>1, <2>1, BelowIsDeeper, DepthFacts DEF Subtree
  <2>3. Depth[p] < Depth[h]
    BY <1>1, <2>1, DepthFacts
  <2>4. Depth[Start] <= Depth[p]
    BY <1>1, ReachIsBelow, BelowIsDeeper, DepthFacts
  <2> QED
    BY <1>1, <2>1, <2>2, <2>3, <2>4, DepthFacts
<1>4. ASSUME NEW q \in S, NEW c \in (Range(Children[q]) \cap Dirs) \ Hidden
      PROVE  c \in S
  BY <1>2
<1>5. S \in SUBSET Dirs
  OBVIOUS
<1> HIDE DEF S
<1>6. DirsInReach \subseteq S
  BY <1>3, <1>4, <1>5, ReachFacts
<1>7. Subtree(h) \cap DirsInReach = {}
  BY <1>6 DEF S
<1>8. ASSUME NEW x \in Subtree(h), x \in VisibleIn(DirsInReach)
      PROVE  FALSE
  <2>1. PICK q \in DirsInReach : x \in Range(Children[q])
    BY <1>8 DEF VisibleIn, Parents
  <2>2. q \in Dirs /\ q \notin Subtree(h)
    BY <1>7, <2>1, ReachFacts
  <2>3. x = h
    BY <1>2, <2>1, <2>2
  <2> QED
    BY <1>8, <2>3 DEF VisibleIn
<1> QED
  BY <1>7, <1>8

-----------------------------------------------------------------------------
(* Sequences *)

LEMMA AppendRange ==
  ASSUME NEW S, NEW q \in Seq(S), NEW x \in S
  PROVE  /\ Range(Append(q, x)) = Range(q) \cup {x}
         /\ x \notin Range(q) /\ (\A i, k \in DOMAIN q : i # k => q[i] # q[k])
              => \A i, k \in DOMAIN Append(q, x) : i # k => Append(q, x)[i] # Append(q, x)[k]
<1> DEFINE p == Append(q, x)
           n == Len(q)
<1>1. /\ n \in Nat /\ DOMAIN q = 1..n /\ DOMAIN p = 1..n + 1
      /\ p[n + 1] = x /\ \A i \in 1..n : p[i] = q[i]
  BY AppendProperties, LenProperties
<1> HIDE DEF p, n
<1>2. \A i \in DOMAIN p : i = n + 1 \/ i \in DOMAIN q
  BY <1>1
<1>3. n + 1 \in DOMAIN p /\ \A i \in DOMAIN q : i \in DOMAIN p /\ i # n + 1
  BY <1>1
<1>4. Range(p) = Range(q) \cup {x}
  BY <1>1, <1>2, <1>3 DEF Range
<1>5. \A i \in DOMAIN q : q[i] \in Range(q)
  BY DEF Range
<1>6. ASSUME x \notin Range(q), \A i, k \in DOMAIN q : i # k => q[i] # q[k],
             NEW i \in DOMAIN p, NEW k \in DOMAIN p, i # k
      PROVE  p[i] # p[k]
  BY <1>1, <1>2, <1>5, <1>6
<1> QED
  BY <1>4, <1>6 DEF p

LEMMA TailRange ==
  ASSUME NEW S, NEW q \in Seq(S), q # <<>>
  PROVE  /\ Head(q) \in Range(q) /\ Range(Tail(q)) \subseteq Range(q)
         /\ (\A i, k \in DOMAIN q : i # k => q[i] # q[k])
              => /\ \A i, k \in DOMAIN Tail(q) : i # k => Tail(q)[i] # Tail(q)[k]
                 /\ Head(q) \notin Range(Tail(q))
<1> DEFINE t == Tail(q)
<1>1. /\ Len(q) \in Nat /\ Len(q) > 0 /\ DOMAIN q = 1..Len(q) /\ DOMAIN t = 1..Len(q) - 1
      /\ Head(q) = q[1] /\ \A i \in 1..Len(q) - 1 : t[i] = q[i + 1]
  BY HeadTailProperties, EmptySeq, LenProperties
<1> HIDE DEF t
<1>2. 1 \in DOMAIN q /\ \A i \in DOMAIN t : i + 1 \in DOMAIN q /\ i + 1 # 1 /\ t[i] = q[i + 1]
  BY <1>1
<1>3. Head(q) \in Range(q) /\ Range(t) \subseteq Range(q)
  BY <1>1, <1>2 DEF Range
<1>4. ASSUME \A i, k \in DOMAIN q : i # k => q[i] # q[k]
      PROVE  /\ \A i, k \in DOMAIN t : i # k => t[i] # t[k]
             /\ Head(q) \notin Range(t)
  <2>1. ASSUME NEW i \in DOMAIN t, NEW k \in DOMAIN t, i # k
        PROVE  t[i] # t[k]
    <3>1. i + 1 # k + 1
      BY <1>1, <2>1
    <3> QED
      BY <1>2, <1>4, <3>1
  <2>2. Head(q) \notin Range(t)
    BY <1>1, <1>2, <1>4 DEF Range
  <2> QED
    BY <2>1, <2>2
<1> QED
  BY <1>3, <1>4 DEF t

LEMMA HeadRange ==
  ASSUME NEW S, NEW q \in Seq(S), q # <<>>
  PROVE  Range(q) = {Head(q)} \cup Range(Tail(q)) /\ Head(q) \in S
<1>1. /\ Len(q) \in Nat /\ Len(q) > 0 /\ DOMAIN q = 1..Len(q) /\ DOMAIN Tail(q) = 1..Len(q) - 1
      /\ Head(q) = q[1] /\ \A i \in 1..Len(q) - 1 : Tail(q)[i] = q[i + 1]
      /\ Head(q) \in S
  BY HeadTailProperties, EmptySeq, LenProperties
<1>2. \A k \in DOMAIN q : k = 1 \/ (k - 1 \in DOMAIN Tail(q) /\ Tail(q)[k - 1] = q[k])
  BY <1>1
<1>3. 1 \in DOMAIN q /\ \A k \in DOMAIN Tail(q) : k + 1 \in DOMAIN q /\ Tail(q)[k] = q[k + 1]
  BY <1>1
<1> QED
  BY <1>1, <1>2, <1>3 DEF Range

-----------------------------------------------------------------------------
(* What the frames have ahead of them *)

\* What a frame has ahead is what it is at and what comes then.
LEMMA RestNext ==
  ASSUME NEW f \in Frame, f.next <= Len(Children[f.dir])
  PROVE  Rest(f) = {Children[f.dir][f.next]} \cup Rest([f EXCEPT !.next = @ + 1])
<1> DEFINE g == [f EXCEPT !.next = @ + 1]
           n == Len(Children[f.dir])
<1>1. /\ f.next \in Nat \ {0} /\ n \in Nat /\ g.dir = f.dir /\ g.next = f.next + 1
  BY TreeFacts DEF Frame
<1>2. f.next..n = {f.next} \cup (f.next + 1..n)
  BY <1>1
<1> HIDE DEF g, n
<1> QED
  BY <1>1, <1>2 DEF Rest, g, n

\* A loop begins with the whole listing.
LEMMA RestFirst ==
  ASSUME NEW d \in Dirs, NEW n
  PROVE  Rest(First(d, n)) = Range(Children[d])
<1>1. First(d, n).dir = d /\ First(d, n).next = 1
  BY DEF First
<1>2. Rest(First(d, n)) = {Children[d][i] : i \in 1..Len(Children[d])}
  BY <1>1 DEF Rest
<1>3. \A x \in Range(Children[d]) : x \in Rest(First(d, n))
  <2>1. \A x \in Range(Children[d]) : \E i \in 1..Len(Children[d]) : x = Children[d][i]
    BY TreeFacts
  <2> QED
    BY <1>2, <2>1
<1>4. Rest(First(d, n)) \subseteq Range(Children[d])
  BY <1>2, TreeFacts
<1> QED
  BY <1>3, <1>4

\* A way up leads through directories.
LEMMA WayFacts ==
  ASSUME NEW m \in Modes
  PROVE  /\ Len(m.way) \in Nat
         /\ \A i \in 1..Len(m.way) : m.way[i] \in Dirs
         /\ \A i \in 0..Len(m.way) : Climbed(m, i) \in Dirs
         /\ \A i \in 1..Len(m.way) : Climbed(m, i) = m.way[i]
         /\ m.inverted \in BOOLEAN
<1>1. m.way \in Seq(Dirs) /\ m.inverted \in BOOLEAN
  <2>1. <<>> \in Seq(Dirs)
    OBVIOUS
  <2> QED
    BY <2>1, WaysAssumption DEF Modes
<1>2. Len(m.way) \in Nat /\ \A i \in 1..Len(m.way) : m.way[i] \in Dirs
  BY <1>1
<1>3. \A i \in 1..Len(m.way) : i # 0
  BY <1>2
<1>4. \A i \in 0..Len(m.way) : i = 0 \/ i \in 1..Len(m.way)
  BY <1>2
<1> QED
  BY <1>1, <1>2, <1>3, <1>4, TreeAssumption DEF Climbed

\* Only entries are ahead.
LEMMA AheadAreEntries ==
  ASSUME NEW m \in Modes, NEW fs \in Seq(Frame)
  PROVE  AheadOf(m, fs) \subseteq Entries
<1>1. ASSUME NEW f \in Frame
      PROVE  Ahead(m, f) \subseteq Entries
  <2>1. Rest(f) \subseteq Entries
    <3>1. f.dir \in Dirs /\ f.next \in Nat \ {0} /\ Children[f.dir] \in Seq(Entries)
      BY TreeFacts DEF Frame
    <3> QED
      BY <3>1 DEF Rest
  <2>2. \A e \in Rest(f) : Subtree(e) \subseteq Entries
    BY <2>1, BelowFacts DEF Subtree
  <2>3. \A i \in f.up + 1..Len(m.way) : Range(Children[m.way[i]]) \subseteq Entries
    <3>1. f.up \in Nat
      BY DEF Frame
    <3>2. \A i \in f.up + 1..Len(m.way) : i \in 1..Len(m.way)
      BY <3>1, WayFacts
    <3> QED
      BY <3>2, WayFacts, TreeFacts
  <2> QED
    BY <2>1, <2>2, <2>3 DEF Ahead
<1> QED
  BY <1>1 DEF AheadOf

\* The loop of a frame goes on: what it leaves behind is no longer ahead.
LEMMA NextAhead ==
  ASSUME NEW m \in Modes, Clean(m), NEW f \in Frame, OnWay(m, f),
         f.next <= Len(Children[f.dir])
  PROVE  LET e == Children[f.dir][f.next]
             g == [f EXCEPT !.next = @ + 1]
         IN /\ e \in Ahead(m, f) /\ e \notin Ahead(m, g)
            /\ Ahead(m, g) \subseteq Ahead(m, f)
            /\ ~m.inverted => /\ Subtree(e) \subseteq Ahead(m, f)
                              /\ Subtree(e) \cap Ahead(m, g) = {}
<1> DEFINE e == Children[f.dir][f.next]
           g == [f EXCEPT !.next = @ + 1]
           n == Len(Children[f.dir])
           d == f.dir
<1>1. /\ d \in Dirs /\ f.next \in Nat \ {0} /\ n \in Nat /\ g.dir = d /\ g.next = f.next + 1
      /\ g.up = f.up /\ f.up \in Nat
      /\ \A i \in 1..n : Children[d][i] \in Range(Children[d])
  BY TreeFacts DEF Frame
<1>2. Rest(f) = {e} \cup Rest(g) /\ e \in Range(Children[d]) /\ Rest(g) \subseteq Range(Children[d])
  <2>1. f.next..n = {f.next} \cup (f.next + 1..n)
    BY <1>1
  <2>2. \A i \in f.next..n : i \in 1..n
    BY <1>1
  <2> HIDE DEF g, n
  <2> QED
    BY <1>1, <2>1, <2>2 DEF Rest, n
<1>3. e \notin Rest(g)
  <2> SUFFICES ASSUME NEW i \in f.next + 1..n, e = Children[d][i]
               PROVE  FALSE
    BY <1>1 DEF Rest
  <2>1. i \in 1..n /\ f.next \in 1..n /\ i # f.next
    BY <1>1
  <2> QED
    BY <1>1, <2>1, TreeAssumption
<1>4. e \in Subtree(e)
  BY DEF Subtree
<1> HIDE DEF e, g, n
<1>5. CASE ~m.inverted
  <2>1. Ahead(m, f) = UNION {Subtree(x) : x \in Rest(f)} /\ Ahead(m, g) = UNION {Subtree(x) : x \in Rest(g)}
    BY <1>5 DEF Ahead
  <2>2. \A x \in Rest(g) : Subtree(e) \cap Subtree(x) = {}
    BY <1>1, <1>2, <1>3, SiblingsApart
  <2>3. Subtree(e) \cap Ahead(m, g) = {}
    BY <2>1, <2>2
  <2>4. Subtree(e) \subseteq Ahead(m, f) /\ Ahead(m, g) \subseteq Ahead(m, f)
    BY <1>2, <2>1
  <2> QED
    BY <1>4, <2>3, <2>4 DEF e, g
<1>6. CASE m.inverted
  <2> DEFINE Up == UNION {Range(Children[m.way[i]]) : i \in f.up + 1..Len(m.way)}
  <2>1. Ahead(m, f) = Rest(f) \cup Up
    BY <1>1, <1>2, <1>6 DEF Ahead
  <2>2. Ahead(m, g) \subseteq Rest(g) \cup Up
    BY <1>1, <1>6 DEF Ahead
  <2>3. e \notin Up
    <3> SUFFICES ASSUME NEW i \in f.up + 1..Len(m.way), e \in Range(Children[m.way[i]])
                 PROVE  FALSE
      OBVIOUS
    <3>1. i \in 1..Len(m.way) /\ i \in 0..Len(m.way) /\ f.up \in 0..Len(m.way) /\ i # f.up
      BY <1>1, <1>6, WayFacts DEF OnWay
    <3>2. m.way[i] = Climbed(m, i) /\ m.way[i] \in Dirs /\ d = Climbed(m, f.up)
      BY <1>6, <3>1, WayFacts DEF OnWay
    <3>3. m.way[i] = d
      BY <1>1, <1>2, <3>2, TreeFacts
    <3> QED
      BY <1>6, <3>1, <3>2, <3>3 DEF Clean
  <2> HIDE DEF Up
  <2> QED
    BY <1>2, <1>3, <1>6, <2>1, <2>2, <2>3 DEF e, g
<1> QED
  BY <1>5, <1>6

\* A frame that an inverted walk goes up to takes over all that was ahead.
LEMMA ClimbAhead ==
  ASSUME NEW m \in Modes, Clean(m), NEW f \in Frame, OnWay(m, f),
         f.next = Len(Children[f.dir]), m.inverted, f.up < Len(m.way)
  PROVE  LET e == Children[f.dir][f.next]
             g == [f EXCEPT !.next = @ + 1]
             above == First(m.way[f.up + 1], f.up + 1)
         IN /\ above \in Frame /\ OnWay(m, above)
            /\ Ahead(m, above) \subseteq Ahead(m, f)
            /\ e \notin Ahead(m, above)
            /\ Ahead(m, g) = {}
<1> DEFINE e == Children[f.dir][f.next]
           g == [f EXCEPT !.next = @ + 1]
           d == f.dir
           u == f.up + 1
           above == First(m.way[u], u)
           Up(n) == UNION {Range(Children[m.way[i]]) : i \in n + 1..Len(m.way)}
<1>1. /\ d \in Dirs /\ f.next \in Nat \ {0} /\ g.dir = d /\ g.next = f.next + 1
      /\ e \in Range(Children[d]) /\ f.up \in Nat /\ u \in 1..Len(m.way) /\ u \in 0..Len(m.way)
  BY TreeFacts, WayFacts DEF Frame
<1>2. /\ m.way[u] \in Dirs /\ m.way[u] = Climbed(m, u)
      /\ above.dir = m.way[u] /\ above.next = 1 /\ above.up = u
  BY <1>1, WayFacts DEF First
<1>3. above \in Frame /\ OnWay(m, above)
  BY <1>1, <1>2 DEF First, Frame, OnWay
<1>4. Ahead(m, g) = {}
  <2>1. g.next..Len(Children[g.dir]) = {}
    BY <1>1
  <2> QED
    BY <2>1 DEF Ahead, Rest
<1>5. e \notin Up(f.up)
  <2> SUFFICES ASSUME NEW i \in f.up + 1..Len(m.way), e \in Range(Children[m.way[i]])
               PROVE  FALSE
    OBVIOUS
  <2> HIDE DEF e
  <2>1. i \in 1..Len(m.way) /\ i \in 0..Len(m.way) /\ f.up \in 0..Len(m.way) /\ i # f.up
    BY <1>1, WayFacts
  <2>2. m.way[i] = Climbed(m, i) /\ m.way[i] \in Dirs /\ d = Climbed(m, f.up)
    BY <2>1, WayFacts DEF OnWay
  <2>3. m.way[i] = d
    BY <1>1, <2>2, TreeFacts
  <2> QED
    BY <2>1, <2>2, <2>3 DEF Clean
<1>6. Range(Children[m.way[u]]) \cup Up(u) \subseteq Up(f.up)
  <2>1. u \in f.up + 1..Len(m.way) /\ \A i \in u + 1..Len(m.way) : i \in f.up + 1..Len(m.way)
    BY <1>1, WayFacts
  <2> HIDE DEF u
  <2> QED
    BY <2>1
<1>7. Up(f.up) \subseteq Ahead(m, f)
  <2>1. e \in Rest(f)
    BY <1>1 DEF Rest
  <2> HIDE DEF e
  <2> QED
    BY <2>1 DEF Ahead
<1>8. Ahead(m, above) \subseteq Range(Children[m.way[u]]) \cup Up(u)
  <2>1. Rest(above) = Range(Children[m.way[u]])
    BY <1>2, RestFirst
  <2> HIDE DEF above, u
  <2> QED
    BY <1>2, <2>1 DEF Ahead
<1> HIDE DEF Up, e, g, d
<1>9. Ahead(m, above) \subseteq Up(f.up)
  BY <1>6, <1>8
<1>10. Ahead(m, above) \subseteq Ahead(m, f) /\ e \notin Ahead(m, above)
  BY <1>5, <1>7, <1>9
<1> QED
  BY <1>3, <1>4, <1>10 DEF e, g, u

\* What is ahead is ahead of the innermost frame or of the others.
LEMMA HeadAhead ==
  ASSUME NEW m, NEW fs \in Seq(Frame), fs # <<>>
  PROVE  AheadOf(m, fs) = Ahead(m, Head(fs)) \cup AheadOf(m, Tail(fs))
<1>1. /\ Len(fs) \in Nat /\ Len(fs) > 0 /\ DOMAIN fs = 1..Len(fs)
      /\ DOMAIN Tail(fs) = 1..Len(fs) - 1 /\ Head(fs) = fs[1]
      /\ \A k \in 1..Len(fs) - 1 : Tail(fs)[k] = fs[k + 1]
  BY HeadTailProperties, EmptySeq, LenProperties
<1>2. \A k \in DOMAIN fs : k = 1 \/ (k - 1 \in DOMAIN Tail(fs) /\ Tail(fs)[k - 1] = fs[k])
  BY <1>1
<1>3. 1 \in DOMAIN fs /\ \A k \in DOMAIN Tail(fs) : k + 1 \in DOMAIN fs /\ Tail(fs)[k] = fs[k + 1]
  BY <1>1
<1>4. \A k \in DOMAIN fs : Ahead(m, fs[k]) \subseteq Ahead(m, Head(fs)) \cup AheadOf(m, Tail(fs))
  BY <1>1, <1>2 DEF AheadOf
<1>5. Ahead(m, Head(fs)) \subseteq AheadOf(m, fs)
  BY <1>1, <1>3 DEF AheadOf
<1>6. \A k \in DOMAIN Tail(fs) : Ahead(m, Tail(fs)[k]) \subseteq AheadOf(m, fs)
  BY <1>3 DEF AheadOf
<1> QED
  BY <1>4, <1>5, <1>6 DEF AheadOf

\* The innermost walk returns.
LEMMA TailAhead ==
  ASSUME NEW m, NEW fs \in Seq(Frame), fs # <<>>, Separate(m, fs)
  PROVE  /\ Separate(m, Tail(fs)) /\ AheadOf(m, Tail(fs)) \subseteq AheadOf(m, fs)
         /\ Ahead(m, Head(fs)) \subseteq AheadOf(m, fs)
         /\ Ahead(m, Head(fs)) \cap AheadOf(m, Tail(fs)) = {}
<1>1. /\ Tail(fs) \in Seq(Frame) /\ Len(Tail(fs)) = Len(fs) - 1 /\ Len(fs) \in Nat
      /\ \A k \in 1..Len(fs) - 1 : Tail(fs)[k] = fs[k + 1]
      /\ DOMAIN fs = 1..Len(fs) /\ DOMAIN Tail(fs) = 1..Len(fs) - 1
      /\ Head(fs) = fs[1] /\ Len(fs) > 0
  BY HeadTailProperties, EmptySeq, LenProperties
<1>2. ASSUME NEW k \in DOMAIN Tail(fs)
      PROVE  k + 1 \in DOMAIN fs /\ Tail(fs)[k] = fs[k + 1] /\ k + 1 # 1
  BY <1>1
<1>3. 1 \in DOMAIN fs
  BY <1>1
<1>4. Separate(m, Tail(fs))
  <2>1. ASSUME NEW k \in DOMAIN Tail(fs), NEW l \in DOMAIN Tail(fs), k # l
        PROVE  Ahead(m, Tail(fs)[k]) \cap Ahead(m, Tail(fs)[l]) = {}
    <3>1. k + 1 # l + 1
      BY <1>1, <2>1
    <3> QED
      BY <1>2, <3>1 DEF Separate
  <2>2. \A k \in DOMAIN Tail(fs) : OnWay(m, Tail(fs)[k])
    BY <1>2 DEF Separate
  <2> QED
    BY <2>1, <2>2 DEF Separate
<1>5. \A k \in DOMAIN Tail(fs) : Ahead(m, Tail(fs)[k]) \cap Ahead(m, Head(fs)) = {}
  BY <1>1, <1>2, <1>3 DEF Separate
<1> QED
  BY <1>1, <1>2, <1>3, <1>4, <1>5 DEF AheadOf

\* A frame is put on top.
LEMMA PushAhead ==
  ASSUME NEW m, NEW fs \in Seq(Frame), Separate(m, fs),
         NEW f \in Frame, OnWay(m, f), Ahead(m, f) \cap AheadOf(m, fs) = {}
  PROVE  /\ Separate(m, <<f>> \o fs)
         /\ AheadOf(m, <<f>> \o fs) = Ahead(m, f) \cup AheadOf(m, fs)
<1> DEFINE q == <<f>> \o fs
<1>1. /\ q \in Seq(Frame) /\ Len(q) = Len(fs) + 1 /\ Len(fs) \in Nat
      /\ q[1] = f /\ \A k \in 2..Len(fs) + 1 : q[k] = fs[k - 1]
  <2>1. /\ <<f>> \in Seq(Frame) /\ Len(<<f>>) = 1 /\ <<f>>[1] = f
    OBVIOUS
  <2>2. /\ q \in Seq(Frame) /\ Len(q) = 1 + Len(fs)
        /\ \A k \in 1..1 + Len(fs) : q[k] = IF k <= 1 THEN <<f>>[k] ELSE fs[k - 1]
    BY <2>1, ConcatProperties
  <2>3. Len(fs) \in Nat
    BY LenProperties
  <2> HIDE DEF q
  <2>4. q[1] = f
    <3>1. 1 \in 1..1 + Len(fs)
      BY <2>3
    <3> QED
      BY <2>1, <2>2, <3>1
  <2>5. ASSUME NEW k \in 2..Len(fs) + 1
        PROVE  q[k] = fs[k - 1]
    <3>1. k \in 1..1 + Len(fs) /\ ~(k <= 1)
      BY <2>3
    <3> QED
      BY <2>2, <3>1
  <2> QED
    BY <2>2, <2>3, <2>4, <2>5
<1>2. DOMAIN q = 1..Len(fs) + 1 /\ DOMAIN fs = 1..Len(fs)
  BY <1>1, LenProperties
<1> HIDE DEF q
<1>3. \A k \in DOMAIN q : k = 1 \/ (k \in 2..Len(fs) + 1 /\ k - 1 \in DOMAIN fs)
  BY <1>1, <1>2
<1>4. \A k \in DOMAIN fs : k + 1 \in 2..Len(fs) + 1 /\ k + 1 \in DOMAIN q /\ k + 1 - 1 = k
  BY <1>1, <1>2
<1>5. \A k \in DOMAIN q : k # 1 => q[k] = fs[k - 1] /\ k - 1 \in DOMAIN fs
  BY <1>1, <1>3
<1>6. \A k \in DOMAIN fs : q[k + 1] = fs[k]
  BY <1>1, <1>4
<1>7. Separate(m, q)
  <2>1. \A k \in DOMAIN fs : Ahead(m, f) \cap Ahead(m, fs[k]) = {}
    BY DEF AheadOf
  <2>2. ASSUME NEW k \in DOMAIN q, NEW l \in DOMAIN q, k # l
        PROVE  Ahead(m, q[k]) \cap Ahead(m, q[l]) = {}
    <3>1. CASE k = 1
      BY <1>1, <1>5, <2>1, <2>2, <3>1
    <3>2. CASE l = 1
      BY <1>1, <1>5, <2>1, <2>2, <3>2
    <3>3. CASE k # 1 /\ l # 1
      <4>1. k - 1 # l - 1
        BY <1>2, <2>2
      <4> QED
        BY <1>5, <3>3, <4>1 DEF Separate
    <3> QED
      BY <3>1, <3>2, <3>3
  <2>3. \A k \in DOMAIN q : OnWay(m, q[k])
    BY <1>1, <1>5 DEF Separate
  <2> QED
    BY <2>2, <2>3 DEF Separate
<1>8. AheadOf(m, q) = Ahead(m, f) \cup AheadOf(m, fs)
  <2>1. 1 \in DOMAIN q
    BY <1>1, <1>2
  <2>2. AheadOf(m, q) \subseteq Ahead(m, f) \cup AheadOf(m, fs)
    BY <1>1, <1>5 DEF AheadOf
  <2>3. Ahead(m, f) \cup AheadOf(m, fs) \subseteq AheadOf(m, q)
    BY <1>1, <1>4, <1>6, <2>1 DEF AheadOf
  <2> QED
    BY <2>2, <2>3
<1> QED
  BY <1>7, <1>8 DEF q

-----------------------------------------------------------------------------
(* What a walk does to its frames *)

\* What Head, Tail and the prefixing of a frame yield.
LEMMA FrameFacts ==
  ASSUME Walking
  PROVE  /\ frames \in Seq(Frame) /\ Top \in Frame /\ Tail(frames) \in Seq(Frame)
         /\ Advanced \in Seq(Frame) /\ Advanced # <<>>
         /\ \A d \in Dirs, n \in Nat : First(d, n) \in Frame
         /\ \A f \in Frame : /\ <<f>> \o Advanced \in Seq(Frame) /\ <<f>> \o Advanced # <<>>
                             /\ <<f>> \o Tail(frames) \in Seq(Frame) /\ <<f>> \o Tail(frames) # <<>>
<1>1. frames \in Seq(Frame) /\ frames # <<>>
  BY DEF Walking
<1>2. Top \in Frame /\ Tail(frames) \in Seq(Frame)
  BY <1>1 DEF Top
<1>3. [Top EXCEPT !.next = @ + 1] \in Frame
  BY <1>2 DEF Frame
<1>4. Advanced \in Seq(Frame) /\ Advanced # <<>>
  BY <1>2, <1>3 DEF Advanced
<1>5. ASSUME NEW f \in Frame
      PROVE  /\ <<f>> \o Advanced \in Seq(Frame) /\ <<f>> \o Advanced # <<>>
             /\ <<f>> \o Tail(frames) \in Seq(Frame) /\ <<f>> \o Tail(frames) # <<>>
  BY <1>2, <1>4
<1>6. \A d \in Dirs, n \in Nat : First(d, n) \in Frame
  BY DEF Frame, First
<1> QED
  BY <1>1, <1>2, <1>4, <1>5, <1>6

\* An entry stands in one place: what the walk is at.
LEMMA EntryPlace ==
  ASSUME AtEntry
  PROVE  /\ Walking /\ Top.dir \in Dirs /\ Top.next \in 1..Len(Children[Top.dir])
         /\ Entry = Children[Top.dir][Top.next] /\ Entry \in Entries
         /\ Entry \in Range(Children[Top.dir])
         /\ \A d \in Dirs : \A i \in 1..Len(Children[d]) :
              Children[d][i] = Entry => d = Top.dir /\ i = Top.next
<1>1. Walking /\ Top \in Frame
  BY FrameFacts DEF AtEntry
<1>2. Top.dir \in Dirs /\ Top.next \in 1..Len(Children[Top.dir])
  <2>1. Top.dir \in Dirs /\ Top.next \in Nat \ {0} /\ Top.next <= Len(Children[Top.dir])
    BY <1>1 DEF Frame, AtEntry, Listing
  <2>2. Len(Children[Top.dir]) \in Nat
    BY <2>1, TreeFacts
  <2> QED
    BY <2>1, <2>2
<1>3. Entry = Children[Top.dir][Top.next]
  BY DEF Entry, Listing
<1>4. Entry \in Range(Children[Top.dir]) /\ Entry \in Entries
  BY <1>2, <1>3, TreeFacts
<1> QED
  BY <1>1, <1>2, <1>3, <1>4, TreeAssumption

LEMMA ReturnAhead ==
  ASSUME Walking, Separate(mode, frames)
  PROVE  /\ Separate(mode, Tail(frames))
         /\ AheadOf(mode, Tail(frames)) \subseteq AheadOf(mode, frames)
         /\ Ahead(mode, Top) \subseteq AheadOf(mode, frames)
         /\ Ahead(mode, Top) \cap AheadOf(mode, Tail(frames)) = {}
<1>1. frames \in Seq(Frame) /\ frames # <<>>
  BY DEF Walking
<1> QED
  BY <1>1, TailAhead DEF Top

\* The loop goes on with the next entry.
LEMMA AdvanceAhead ==
  ASSUME AtEntry, mode \in Modes, Separate(mode, frames)
  PROVE  /\ Entry \in Ahead(mode, Top)
         /\ Separate(mode, Advanced)
         /\ AheadOf(mode, Advanced) \subseteq AheadOf(mode, frames) \ {Entry}
         /\ AheadOf(mode, Advanced)
              = Ahead(mode, [Top EXCEPT !.next = @ + 1]) \cup AheadOf(mode, Tail(frames))
         /\ ~mode.inverted => /\ Subtree(Entry) \subseteq Ahead(mode, Top)
                              /\ Subtree(Entry) \cap AheadOf(mode, Advanced) = {}
<1> DEFINE g == [Top EXCEPT !.next = @ + 1]
<1>1. Walking /\ Top \in Frame /\ Tail(frames) \in Seq(Frame)
  BY FrameFacts DEF AtEntry
<1>2. Top.next <= Len(Children[Top.dir])
  BY DEF AtEntry, Listing
<1>3. g \in Frame /\ g.dir = Top.dir /\ g.up = Top.up
  <2>1. \A f \in Frame : LET n == [f EXCEPT !.next = @ + 1] IN n \in Frame /\ n.dir = f.dir /\ n.up = f.up
    BY DEF Frame
  <2> QED
    BY <1>1, <2>1
<1>8. Clean(mode) /\ OnWay(mode, Top) /\ OnWay(mode, g)
  <2>1. frames \in Seq(Frame) /\ frames # <<>> /\ 1 \in DOMAIN frames /\ Top = frames[1]
    BY DEF AtEntry, Walking, Top
  <2> HIDE DEF g
  <2> QED
    BY <1>3, <2>1 DEF Separate, OnWay
<1>4. /\ Entry \in Ahead(mode, Top) /\ Entry \notin Ahead(mode, g)
      /\ Ahead(mode, g) \subseteq Ahead(mode, Top)
      /\ ~mode.inverted => /\ Subtree(Entry) \subseteq Ahead(mode, Top)
                           /\ Subtree(Entry) \cap Ahead(mode, g) = {}
  BY <1>1, <1>2, <1>8, NextAhead DEF Entry, Listing
<1> HIDE DEF g
<1>5. Separate(mode, Tail(frames)) /\ Ahead(mode, g) \cap AheadOf(mode, Tail(frames)) = {}
  BY <1>1, <1>4, ReturnAhead
<1>6. /\ Separate(mode, <<g>> \o Tail(frames))
      /\ AheadOf(mode, <<g>> \o Tail(frames)) = Ahead(mode, g) \cup AheadOf(mode, Tail(frames))
  BY <1>1, <1>3, <1>5, <1>8, PushAhead
<1>7. Advanced = <<g>> \o Tail(frames)
  BY DEF Advanced, g
<1> QED
  BY <1>1, <1>4, <1>6, <1>7, ReturnAhead DEF g

\* What is ahead while the walk is at an entry.
LEMMA AdvanceUnfolds ==
  ASSUME AtEntry, mode \in Modes, Separate(mode, frames), ~mode.inverted
  PROVE  AheadOf(mode, frames) = Subtree(Entry) \cup AheadOf(mode, Advanced)
<1> DEFINE g == [Top EXCEPT !.next = @ + 1]
<1>1. Top \in Frame /\ frames \in Seq(Frame) /\ frames # <<>>
  BY FrameFacts DEF AtEntry, Walking
<1>2. Rest(Top) = {Entry} \cup Rest(g)
  <2>1. Top.next <= Len(Children[Top.dir]) /\ Entry = Children[Top.dir][Top.next]
    BY DEF AtEntry, Entry, Listing
  <2> QED
    BY <1>1, <2>1, RestNext
<1>3. AheadOf(mode, frames) = Ahead(mode, Top) \cup AheadOf(mode, Tail(frames))
  BY <1>1, HeadAhead DEF Top
<1>4. AheadOf(mode, Advanced) = Ahead(mode, g) \cup AheadOf(mode, Tail(frames))
  BY AdvanceAhead
<1> HIDE DEF g
<1>5. Ahead(mode, Top) = Subtree(Entry) \cup Ahead(mode, g)
  BY <1>2 DEF Ahead
<1> QED
  BY <1>3, <1>4, <1>5

\* A directory is entered.
LEMMA DeeperAhead ==
  ASSUME AtEntry, mode \in Modes, Separate(mode, frames), ~mode.inverted, Entry \in Dirs
  PROVE  LET f == First(Entry, Top.up) IN
         /\ f \in Frame /\ f.dir = Entry
         /\ Separate(mode, <<f>> \o Advanced)
         /\ AheadOf(mode, <<f>> \o Advanced) = Below[Entry] \cup AheadOf(mode, Advanced)
         /\ AheadOf(mode, <<f>> \o Advanced) \subseteq AheadOf(mode, frames) \ {Entry}
<1> DEFINE f == First(Entry, Top.up)
<1>1. Walking /\ Advanced \in Seq(Frame) /\ f \in Frame /\ f.dir = Entry
  <2>1. Walking /\ Top \in Frame /\ Advanced \in Seq(Frame)
    BY FrameFacts DEF AtEntry
  <2>2. Top.up \in Nat
    BY <2>1 DEF Frame
  <2> QED
    BY <2>1, <2>2 DEF First, Frame
<1>2. Ahead(mode, f) = Below[Entry] /\ OnWay(mode, f)
  BY RestFirst, BelowUnfolds DEF Ahead, OnWay
<1> HIDE DEF f
<1>3. Below[Entry] \subseteq Subtree(Entry) /\ Subtree(Entry) \cap AheadOf(mode, Advanced) = {}
  BY AdvanceAhead DEF Subtree
<1>4. /\ Separate(mode, <<f>> \o Advanced)
      /\ AheadOf(mode, <<f>> \o Advanced) = Below[Entry] \cup AheadOf(mode, Advanced)
  BY <1>1, <1>2, <1>3, AdvanceAhead, PushAhead
<1>5. Entry \notin Below[Entry]
  BY BelowIsDeeper, DepthFacts
<1>6. Subtree(Entry) \subseteq AheadOf(mode, frames)
  BY <1>1, AdvanceAhead, ReturnAhead
<1> QED
  BY <1>1, <1>3, <1>4, <1>5, <1>6, AdvanceAhead DEF f

\* The frame that an inverted walk goes up to
LEMMA AboveFacts ==
  ASSUME Walking, mode \in Modes, NEW f \in Above
  PROVE  /\ Top.up < Len(mode.way) /\ f = First(mode.way[Top.up + 1], Top.up + 1)
         /\ f \in Frame
         /\ f.up = Top.up + 1 /\ f.dir = Climbed(mode, f.up) /\ f.up \in 0..Len(mode.way)
<1>1. Top \in Frame
  BY FrameFacts
<1>2. Top.up < Len(mode.way) /\ f = First(mode.way[Top.up + 1], Top.up + 1)
  BY DEF Above
<1>3. Top.up \in Nat /\ Top.up + 1 \in 1..Len(mode.way)
  BY <1>1, <1>2, WayFacts DEF Frame
<1>4. f.up = Top.up + 1 /\ f.dir = mode.way[Top.up + 1]
  BY <1>2 DEF First
<1>5. f \in Frame
  <2>1. mode.way[Top.up + 1] \in Dirs
    BY <1>3, WayFacts
  <2> QED
    BY <1>2, <1>3, <2>1 DEF First, Frame
<1>6. f.dir = Climbed(mode, f.up) /\ f.up \in 0..Len(mode.way)
  BY <1>3, <1>4, WayFacts
<1> QED
  BY <1>2, <1>4, <1>5, <1>6

\* An inverted walk goes up, with or without what is left of its frame.
LEMMA UpAhead ==
  ASSUME AtEntry, mode \in Modes, Separate(mode, frames), mode.inverted, Top.next = Len(Listing),
         NEW f \in Above, NEW fs \in {Advanced, Tail(frames)}
  PROVE  /\ Separate(mode, <<f>> \o fs)
         /\ AheadOf(mode, <<f>> \o fs) \subseteq AheadOf(mode, frames) \ {Entry}
<1> DEFINE g == [Top EXCEPT !.next = @ + 1]
<1>1. /\ Walking /\ Top \in Frame /\ Advanced \in Seq(Frame) /\ Tail(frames) \in Seq(Frame)
      /\ f \in Frame
  BY FrameFacts, AboveFacts DEF AtEntry
<1>2. /\ Ahead(mode, f) \subseteq Ahead(mode, Top) /\ Entry \notin Ahead(mode, f)
      /\ Ahead(mode, g) = {} /\ OnWay(mode, f)
  <2>1. Clean(mode) /\ OnWay(mode, Top)
    <3>1. frames \in Seq(Frame) /\ frames # <<>> /\ 1 \in DOMAIN frames /\ Top = frames[1]
      BY <1>1 DEF Walking, Top
    <3> QED
      BY <3>1 DEF Separate
  <2>2. Top.up < Len(mode.way) /\ f = First(mode.way[Top.up + 1], Top.up + 1)
    BY <1>1, AboveFacts
  <2>3. Top.next = Len(Children[Top.dir]) /\ Entry = Children[Top.dir][Top.next]
    BY DEF Entry, Listing
  <2> HIDE DEF g
  <2>4. /\ Ahead(mode, f) \subseteq Ahead(mode, Top) /\ Entry \notin Ahead(mode, f) /\ OnWay(mode, f)
        /\ Ahead(mode, [Top EXCEPT !.next = @ + 1]) = {}
    BY <1>1, <2>1, <2>2, <2>3, ClimbAhead
  <2> QED
    BY <2>4 DEF g
<1>3. /\ AheadOf(mode, fs) = AheadOf(mode, Tail(frames)) /\ Separate(mode, fs) /\ fs \in Seq(Frame)
      /\ AheadOf(mode, fs) \subseteq AheadOf(mode, frames) \ {Entry}
  <2>1. AheadOf(mode, Advanced) = AheadOf(mode, Tail(frames))
    BY <1>2, AdvanceAhead
  <2> QED
    BY <1>1, <2>1, AdvanceAhead, ReturnAhead
<1>4. Ahead(mode, f) \cap AheadOf(mode, fs) = {}
  BY <1>1, <1>2, <1>3, ReturnAhead
<1>5. /\ Separate(mode, <<f>> \o fs)
      /\ AheadOf(mode, <<f>> \o fs) = Ahead(mode, f) \cup AheadOf(mode, fs)
  BY <1>1, <1>2, <1>3, <1>4, PushAhead
<1> QED
  BY <1>1, <1>2, <1>3, <1>5, ReturnAhead

-----------------------------------------------------------------------------
(* The turns of an inverted walk *)

LEMMA ComingFacts ==
  ASSUME NEW m \in Modes, m.inverted, NEW f \in Frame, NEW e
  PROVE  /\ IsFiniteSet(Turns(m, e)) /\ Coming(m, f, e) \subseteq Turns(m, e)
         /\ IsFiniteSet(Coming(m, f, e)) /\ Cardinality(Coming(m, f, e)) \in Nat
         /\ Cardinality(Coming(m, f, e)) <= Cardinality(Turns(m, e))
         /\ Cardinality(Turns(m, e)) \in Nat
<1>1. Len(m.way) \in Nat /\ f.up \in Nat
  BY WayFacts DEF Frame
<1>2. IsFiniteSet(0..Len(m.way)) /\ Turns(m, e) \subseteq 0..Len(m.way)
  <2>1. Turns(m, e) \subseteq 0..Len(m.way)
    BY DEF Turns
  <2>2. 0 \in Int /\ Len(m.way) \in Int
    BY <1>1
  <2> QED
    BY <2>1, <2>2, FS_Interval
<1>3. IsFiniteSet(Turns(m, e))
  BY <1>2, FS_Subset
<1>4. \A i \in f.up..Len(m.way) : i \in 0..Len(m.way)
  BY <1>1
<1>5. Coming(m, f, e) \subseteq Turns(m, e)
  BY <1>4 DEF Coming, Turns
<1> QED
  BY <1>3, <1>5, FS_Subset, FS_CardinalityType

\* The loop goes on, or leads upwards: the entry has lost a turn.
LEMMA ComingNext ==
  ASSUME NEW m \in Modes, m.inverted, NEW f \in Frame, OnWay(m, f), f.next <= Len(Children[f.dir]), NEW e
  PROVE  LET g == [f EXCEPT !.next = @ + 1] IN
         /\ OnWay(m, g) /\ g \in Frame
         /\ Coming(m, g, e) \subseteq Coming(m, f, e)
         /\ f.up \notin Coming(m, g, Children[f.dir][f.next])
         /\ f.up \in Coming(m, f, Children[f.dir][f.next])
<1> DEFINE g == [f EXCEPT !.next = @ + 1]
           e0 == Children[f.dir][f.next]
           n == Len(Children[f.dir])
           d == f.dir
<1>1. /\ d \in Dirs /\ f.next \in Nat \ {0} /\ n \in Nat /\ g.dir = d /\ g.next = f.next + 1
      /\ g.up = f.up /\ f.up \in Nat /\ g \in Frame
  BY TreeFacts DEF Frame
<1>2. Rest(f) = {e0} \cup Rest(g)
  BY RestNext
<1>3. e0 \notin Rest(g)
  <2> SUFFICES ASSUME NEW i \in f.next + 1..n, e0 = Children[d][i]
               PROVE  FALSE
    BY <1>1 DEF Rest
  <2>1. i \in 1..n /\ f.next \in 1..n /\ i # f.next
    BY <1>1
  <2> QED
    BY <1>1, <2>1, TreeAssumption
<1>4. e0 \in Range(Children[d])
  BY <1>1, TreeFacts
<1>5. f.up \in f.up..Len(m.way) /\ d = Climbed(m, f.up)
  BY <1>1, WayFacts DEF OnWay
<1> HIDE DEF g, e0, n
<1>6. OnWay(m, g)
  BY <1>1 DEF OnWay
<1>7. Coming(m, g, e) \subseteq Coming(m, f, e)
  BY <1>1, <1>2 DEF Coming
<1>8. f.up \notin Coming(m, g, e0)
  BY <1>1, <1>3 DEF Coming
<1>9. f.up \in Coming(m, f, e0)
  BY <1>2, <1>4, <1>5 DEF Coming
<1> QED
  BY <1>1, <1>6, <1>7, <1>8, <1>9 DEF g, e0

LEMMA ComingUp ==
  ASSUME Walking, AtEntry, mode \in Modes, mode.inverted, OnWay(mode, Top), NEW f \in Above, NEW e
  PROVE  /\ OnWay(mode, f) /\ f \in Frame
         /\ Coming(mode, f, e) \subseteq Coming(mode, Top, e)
         /\ Top.up \notin Coming(mode, f, Entry)
<1>1. /\ f \in Frame /\ f.up = Top.up + 1 /\ f.dir = Climbed(mode, f.up) /\ f.up \in 0..Len(mode.way)
      /\ Top.up \in Nat
  BY AboveFacts, FrameFacts DEF Frame
<1>2. Rest(Top) # {}
  BY FrameFacts, RestNext DEF AtEntry, Listing
<1>3. \A i \in f.up..Len(mode.way) : i \in Top.up..Len(mode.way) /\ i # Top.up
  BY <1>1, WayFacts
<1>4. Coming(mode, f, e) \subseteq Coming(mode, Top, e)
  BY <1>2, <1>3 DEF Coming
<1>5. Top.up \notin Coming(mode, f, Entry)
  BY <1>3 DEF Coming
<1> QED
  BY <1>1, <1>4, <1>5 DEF OnWay

\* A turn that is taken makes room for a call.
LEMMA TurnTaken ==
  ASSUME NEW S, IsFiniteSet(S), NEW T \in SUBSET S
  PROVE  /\ IsFiniteSet(T) /\ Cardinality(T) \in Nat /\ Cardinality(S) \in Nat
         /\ Cardinality(T) <= Cardinality(S)
         /\ \A x \in S : x \notin T => Cardinality(T) + 1 <= Cardinality(S)
<1>1. IsFiniteSet(T) /\ Cardinality(T) \in Nat /\ Cardinality(S) \in Nat /\ Cardinality(T) <= Cardinality(S)
  BY FS_Subset, FS_CardinalityType
<1>2. ASSUME NEW x \in S, x \notin T
      PROVE  Cardinality(T) + 1 <= Cardinality(S)
  <2>1. IsFiniteSet(S \ {x}) /\ Cardinality(S \ {x}) = Cardinality(S) - 1
    BY FS_RemoveElement
  <2>2. T \subseteq S \ {x}
    BY <1>2
  <2>3. Cardinality(T) <= Cardinality(S \ {x})
    BY <2>1, <2>2, FS_Subset
  <2> QED
    BY <1>1, <2>1, <2>3
<1> QED
  BY <1>1, <1>2

-----------------------------------------------------------------------------
(* Which directories a walk is in *)

\* Going on with the loop leaves nothing undone but the entry, or nothing at all
\* when it is hidden.
LEMMA AdvanceLeaves ==
  ASSUME AtEntry, mode \in Modes, Separate(mode, frames), ~mode.inverted, Top.dir \in InReach,
         NEW e \in VisibleIn(InReach), e \in AheadOf(mode, frames), e \notin AheadOf(mode, Advanced),
         Entry \in Dirs => (~mode.recursive \/ Entry \in Hidden)
  PROVE  e = Entry /\ Entry \notin Hidden
<1>1. Top.dir \in Dirs /\ Entry \in Range(Children[Top.dir])
  BY EntryPlace
<1>2. e \in Subtree(Entry)
  BY AdvanceUnfolds
<1>3. CASE mode.recursive
  <2>1. Top.dir \in DirsInReach /\ e \in VisibleIn(DirsInReach)
    BY <1>3 DEF InReach
  <2>2. Entry \notin Hidden
    BY <1>1, <1>2, <2>1, HiddenIsOut
  <2>3. Entry \notin Dirs
    BY <1>3, <2>2
  <2> QED
    BY <1>2, <2>2, <2>3 DEF Subtree
<1>4. CASE ~mode.recursive
  <2>1. Top.dir = Start /\ e \in Range(Children[Start]) /\ e \notin Hidden
    BY <1>4 DEF InReach, VisibleIn, Parents
  <2>2. e = Entry
    BY <1>1, <1>2, <2>1, BelowIsNotBeside
  <2> QED
    BY <2>1, <2>2
<1> QED
  BY <1>3, <1>4

\* The directories of the frames, after each move
LEMMA FramesIn ==
  ASSUME Walking, NEW D \in SUBSET Dirs, \A k \in DOMAIN frames : frames[k].dir \in D
  PROVE  /\ Top.dir \in D
         /\ \A k \in DOMAIN Tail(frames) : Tail(frames)[k].dir \in D
         /\ \A k \in DOMAIN Advanced : Advanced[k].dir \in D
         /\ \A f \in Frame : f.dir \in D =>
              \A k \in DOMAIN (<<f>> \o Advanced) : (<<f>> \o Advanced)[k].dir \in D
<1> DEFINE Good == {f \in Frame : f.dir \in D}
<1>1. frames \in Seq(Frame) /\ frames # <<>>
  BY DEF Walking
<1>2. frames \in Seq(Good)
  <2>1. Len(frames) \in Nat /\ DOMAIN frames = 1..Len(frames) /\ \A k \in 1..Len(frames) : frames[k] \in Good
    BY <1>1
  <2> HIDE DEF Good
  <2> QED
    BY <2>1, <1>1
<1>3. \A q \in Seq(Good) : \A k \in DOMAIN q : q[k].dir \in D
  OBVIOUS
<1>4. \A f \in Good : [f EXCEPT !.next = @ + 1] \in Good
  BY DEF Frame
<1>5. \A f \in Frame : f.dir \in D => f \in Good
  OBVIOUS
<1>6. \A f \in Good : f.dir \in D
  OBVIOUS
<1> HIDE DEF Good
<1>7. Top \in Good /\ Tail(frames) \in Seq(Good)
  BY <1>1, <1>2 DEF Top
<1>8. Advanced \in Seq(Good)
  BY <1>4, <1>7 DEF Advanced
<1>9. \A f \in Frame : f.dir \in D => <<f>> \o Advanced \in Seq(Good)
  BY <1>5, <1>8
<1> QED
  BY <1>3, <1>6, <1>7, <1>8, <1>9

LEMMA InReachAreDirs == InReach \in SUBSET Dirs
BY ReachFacts, TreeAssumption DEF InReach

\* A loop that has ended leaves nothing.
LEMMA EndAhead ==
  ASSUME Walking, ~mode.inverted, Top.next > Len(Listing)
  PROVE  AheadOf(mode, Tail(frames)) = AheadOf(mode, frames)
<1>1. frames \in Seq(Frame) /\ frames # <<>> /\ Top \in Frame
  BY FrameFacts DEF Walking
<1>2. Rest(Top) = {}
  <2>1. Top.next \in Nat \ {0} /\ Len(Children[Top.dir]) \in Nat /\ Top.next > Len(Children[Top.dir])
    BY <1>1, TreeFacts DEF Frame, Listing
  <2>2. Top.next..Len(Children[Top.dir]) = {}
    BY <2>1
  <2> QED
    BY <2>2 DEF Rest
<1>3. Ahead(mode, Top) = {}
  BY <1>2 DEF Ahead
<1>4. AheadOf(mode, frames) = Ahead(mode, Top) \cup AheadOf(mode, Tail(frames))
  BY <1>1, HeadAhead DEF Top
<1> QED
  BY <1>3, <1>4

\* What is in a directory that is ahead is ahead.
LEMMA AheadClosed ==
  ASSUME NEW m, ~m.inverted, NEW fs \in Seq(Frame), NEW d \in Dirs, d \in AheadOf(m, fs)
  PROVE  Range(Children[d]) \subseteq AheadOf(m, fs)
<1>1. PICK k \in DOMAIN fs : d \in Ahead(m, fs[k])
  BY DEF AheadOf
<1>2. fs[k] \in Frame
  BY <1>1
<1>3. Ahead(m, fs[k]) = UNION {Subtree(e) : e \in Rest(fs[k])}
  BY DEF Ahead
<1>4. PICK e \in Rest(fs[k]) : d \in Subtree(e)
  BY <1>1, <1>3
<1>5. Range(Children[d]) \subseteq Subtree(e)
  <2>1. CASE d = e
    BY <2>1, BelowFacts DEF Subtree
  <2>2. CASE d # e
    <3>1. e \in Dirs /\ d \in Below[e]
      BY <1>4, <2>2 DEF Subtree
    <3> QED
      BY <3>1, BelowFacts DEF Subtree
  <2> QED
    BY <2>1, <2>2
<1>6. Range(Children[d]) \subseteq Ahead(m, fs[k])
  BY <1>3, <1>5
<1> QED
  BY <1>1, <1>6 DEF AheadOf

-----------------------------------------------------------------------------
(* With a pool: types, and calls after ABORT *)

LEMMA InitIInv == Init => IInv
<1> SUFFICES ASSUME Init PROVE IInv
    OBVIOUS
<1>1. TypeOK
  <2>1. frames \in Seq(Frame)
    BY TreeAssumption DEF Init, Frame, First
  <2>2. /\ mode \in Modes
        /\ queue \in Seq(Entries) /\ held \in [Workers -> Entries \cup {NoEntry}]
    BY DEF Init
  <2>3. /\ asked \in [Entries -> Nat] /\ opened \in [Entries -> Nat]
        /\ answer \in [Entries -> Answers \cup {"none"}]
    BY DEF Init
  <2> QED BY <2>1, <2>2, <2>3 DEF Init, TypeOK
<1>2. FramesInv /\ LateInv
  BY DEF Init, First, FramesInv, LateInv
<1> QED BY <1>1, <1>2 DEF IInv

\* The walking thread has frames until it is over.
LEMMA PoolFrames ==
  ASSUME IInv
  PROVE  /\ walker \in {"check", "call"} => Walking
         /\ walker = "call" => AtEntry
BY DEF IInv, TypeOK, FramesInv, Walking, AtEntry

\* A frame that is entered
LEMMA GoalFacts ==
  ASSUME Walking, mode \in Modes, NEW isDir \in BOOLEAN, NEW f \in Goal(isDir)
  PROVE  /\ f \in Frame
         /\ \/ Deeper(isDir) /\ Entry \in Dirs /\ f = First(Entry, Top.up)
            \/ ~Deeper(isDir) /\ Climbs(isDir) /\ f \in Above
<1>1. CASE Deeper(isDir)
  <2>1. Entry \in Dirs /\ f = First(Entry, Top.up)
    BY <1>1 DEF Goal
  <2>2. Top.up \in Nat
    BY FrameFacts DEF Frame
  <2> QED
    BY <1>1, <2>1, <2>2 DEF First, Frame
<1>2. CASE ~Deeper(isDir)
  <2>1. Climbs(isDir) /\ f \in Above
    BY <1>2 DEF Goal
  <2> QED
    BY <1>2, <2>1, AboveFacts
<1> QED
  BY <1>1, <1>2

\* Whatever walk does with an answer, the frames stay well formed.
LEMMA ObeyFacts ==
  ASSUME IInv, walker = "call", NEW ans \in Answers, NEW isDir \in BOOLEAN,
         NEW exists \in BOOLEAN, Obey(ans, isDir, exists)
  PROVE  /\ frames' \in Seq(Frame) /\ queue' \in Seq(Entries)
         /\ walker' = IF ans = "ABORT" THEN "abort" ELSE IF frames' = <<>> THEN "over" ELSE "check"
<1>1. queue \in Seq(Entries) /\ Walking /\ Entry \in Entries /\ mode \in Modes
  BY PoolFrames, EntryPlace DEF IInv, TypeOK
<1>2. CASE ans # "CONTINUE"
  BY <1>1, <1>2, FrameFacts DEF Obey, Resume
<1>3. CASE ans = "CONTINUE"
  <2>1. DescendOrOpen(isDir, exists)
    BY <1>3 DEF Obey
  <2>2. queue' \in Seq(Entries)
    BY <1>1, <2>1 DEF DescendOrOpen
  <2>3. CASE Resume(Advanced)
    BY <1>1, <1>3, <2>2, <2>3, FrameFacts DEF Resume
  <2>4. CASE \E f \in Goal(isDir) : Resume(<<f>> \o Advanced)
    <3>1. PICK f \in Goal(isDir) : Resume(<<f>> \o Advanced)
      BY <2>4
    <3>2. f \in Frame
      BY <1>1, GoalFacts
    <3> QED
      BY <1>1, <1>3, <2>2, <3>1, <3>2, FrameFacts DEF Resume
  <2> QED BY <2>1, <2>3, <2>4 DEF DescendOrOpen
<1> QED BY <1>2, <1>3

LEMMA TypePreserved == IInv /\ [Next]_vars => TypeOK' /\ FramesInv'
<1> SUFFICES ASSUME IInv, [Next]_vars PROVE TypeOK' /\ FramesInv'
    OBVIOUS
<1> USE DEF IInv
<1>1. CASE ListingEnd \/ CheckAbort
  BY <1>1, PoolFrames, FrameFacts DEF ListingEnd, CheckAbort, Resume, TypeOK, FramesInv, Top, Listing
<1>2. CASE Filter
  BY <1>2, PoolFrames, FrameFacts DEF Filter, Resume, TypeOK, FramesInv
<1>3. ASSUME NEW ans \in Answers, NEW isDir \in BOOLEAN, NEW exists \in BOOLEAN,
             Visit(ans, isDir, exists)
      PROVE  TypeOK' /\ FramesInv'
  <2>1. /\ frames' \in Seq(Frame) /\ queue' \in Seq(Entries)
        /\ walker' = IF ans = "ABORT" THEN "abort" ELSE IF frames' = <<>> THEN "over" ELSE "check"
    BY <1>3, ObeyFacts DEF Visit
  <2>2. Entry \in Entries
    BY <1>3, PoolFrames, EntryPlace DEF Visit
  <2>3. asked' \in [Entries -> Nat] /\ late' \in Nat
        /\ answer' \in [Entries -> Answers \cup {"none"}]
    <3>1. CASE mode.filesOnly /\ isDir
      BY <1>3, <3>1 DEF Visit, TypeOK
    <3>2. CASE ~(mode.filesOnly /\ isDir)
      <4>1. asked' = [asked EXCEPT ![Entry] = @ + 1] /\ asked[Entry] \in Nat
        BY <1>3, <2>2, <3>2 DEF Visit, TypeOK
      <4>2. asked' \in [Entries -> Nat]
        <5>1. asked \in [Entries -> Nat]
          BY DEF TypeOK
        <5>2. \A n \in Nat : [asked EXCEPT ![Entry] = n] \in [Entries -> Nat]
          BY <5>1, Zenon
        <5> QED BY <4>1, <5>2
      <4>3. answer' = [answer EXCEPT ![Entry] = ans]
        BY <1>3, <3>2 DEF Visit
      <4>4. answer' \in [Entries -> Answers \cup {"none"}]
        BY <4>3 DEF TypeOK
      <4>5. late' \in Nat
        BY <1>3, <3>2 DEF Visit, TypeOK
      <4> QED BY <4>2, <4>4, <4>5
    <3> QED BY <3>1, <3>2
  <2> QED BY <1>3, <2>1, <2>3 DEF Visit, TypeOK, FramesInv
<1>4. CASE WalkThrows
  BY <1>4 DEF WalkThrows, TypeOK, FramesInv
<1>5. ASSUME NEW w \in Workers, Take(w) PROVE TypeOK' /\ FramesInv'
  <2>1. Head(queue) \in Entries /\ Tail(queue) \in Seq(Entries)
    BY <1>5 DEF Take, TypeOK
  <2> QED BY <1>5, <2>1 DEF Take, TypeOK, FramesInv, Top, Listing
<1>6. ASSUME NEW w \in Workers, NEW ans \in Answers, Open(w, ans)
      PROVE  TypeOK' /\ FramesInv'
  <2>1. held[w] \in Entries
    BY <1>6 DEF Open, TypeOK
  <2> QED BY <1>6, <2>1 DEF Open, TypeOK, FramesInv, Top, Listing
<1>7. CASE UNCHANGED vars
  BY <1>7 DEF vars, TypeOK, FramesInv, Top, Listing
<1>8. CASE StoreAbort
  BY <1>8 DEF StoreAbort, Resume, TypeOK, FramesInv
<1>9. ASSUME NEW w \in Workers, StoreOpened(w) PROVE TypeOK' /\ FramesInv'
  BY <1>9 DEF StoreOpened, TypeOK, FramesInv, Top, Listing
<1> QED BY <1>1, <1>2, <1>3, <1>4, <1>5, <1>6, <1>7, <1>8, <1>9
        DEF Next, WalkerStep, WorkerStep, Terminated

\* Opening is a finite set, no larger than the set of workers.
LEMMA OpeningFacts ==
  /\ IsFiniteSet(Opening) /\ Cardinality(Opening) \in Nat
  /\ Cardinality(Workers) \in Nat /\ Cardinality(Opening) <= Cardinality(Workers)
<1>1. Opening \subseteq Workers
  BY DEF Opening
<1> QED BY <1>1, WorkersAssumption, FS_Subset, FS_CardinalityType

\* A worker that leaves the callback makes room for nobody.
LEMMA OpenLeaves ==
  ASSUME IInv, NEW w \in Workers, NEW ans \in Answers, Open(w, ans)
  PROVE  Cardinality(Opening') = Cardinality(Opening) - 1
<1>1. Opening' = Opening \ {w} /\ w \in Opening
  BY DEF IInv, TypeOK, Open, Opening
<1> QED BY <1>1, OpeningFacts, FS_RemoveElement

LEMMA LatePreserved == IInv /\ [Next]_vars => LateInv'
<1> SUFFICES ASSUME IInv, [Next]_vars PROVE LateInv'
    OBVIOUS
<1> USE OpeningFacts DEF IInv
<1>1. CASE ListingEnd \/ Filter \/ WalkThrows \/ UNCHANGED vars
  <2>1. Opening' = Opening
    BY <1>1 DEF ListingEnd, Filter, WalkThrows, vars, Opening
  <2> QED BY <1>1, <2>1 DEF ListingEnd, Filter, WalkThrows, Resume, LateInv, TypeOK, vars
<1>6. CASE StoreAbort
  <2>1. Opening' = Opening
    BY <1>6 DEF StoreAbort, Opening
  <2> QED BY <1>6, <2>1 DEF StoreAbort, Resume, LateInv, TypeOK
<1>7. ASSUME NEW w \in Workers, StoreOpened(w) PROVE LateInv'
  <2>1. Opening' = Opening /\ Opening \subseteq Workers \ {w}
    BY <1>7 DEF StoreOpened, Opening, LateInv
  <2>2. Cardinality(Opening) <= Cardinality(Workers) - 1
    <3>1. IsFiniteSet(Workers \ {w}) /\ Cardinality(Workers \ {w}) = Cardinality(Workers) - 1
      BY <1>7, WorkersAssumption, FS_RemoveElement
    <3> QED BY <2>1, <3>1, FS_Subset
  <2>3. /\ walker' = walker /\ late' = late /\ held' = held /\ aborting' \subseteq aborting
        /\ abort' /\ late \in Nat /\ abort \in BOOLEAN
    BY <1>7 DEF StoreOpened, TypeOK
  <2> QED BY <2>1, <2>2, <2>3 DEF LateInv
<1>2. CASE CheckAbort
  <2>1. Opening' = Opening
    BY <1>2 DEF CheckAbort, Opening
  <2> QED BY <1>2, <2>1 DEF CheckAbort, Resume, LateInv, TypeOK
<1>3. ASSUME NEW ans \in Answers, NEW isDir \in BOOLEAN, NEW exists \in BOOLEAN,
             Visit(ans, isDir, exists)
      PROVE  LateInv'
  <2>1. Opening' = Opening /\ walker = "call" /\ walker' # "call"
    BY <1>3, ObeyFacts DEF Visit, Opening
  <2>2. late' \in {late, late + 1} /\ (~abort => late' = late)
    BY <1>3 DEF Visit
  <2> QED BY <1>3, <2>1, <2>2 DEF Visit, LateInv, TypeOK
<1>4. ASSUME NEW w \in Workers, Take(w) PROVE LateInv'
  <2>1. CASE abort
    <3>1. Opening' = Opening
      BY <1>4, <2>1 DEF Take, Opening
    <3> QED BY <1>4, <2>1, <3>1 DEF Take, LateInv, TypeOK
  <2>2. CASE ~abort
    BY <1>4, <2>2 DEF Take, LateInv, TypeOK
  <2> QED BY <2>1, <2>2
<1>5. ASSUME NEW w \in Workers, NEW ans \in Answers, Open(w, ans) PROVE LateInv'
  <2>1. Cardinality(Opening') = Cardinality(Opening) - 1
    BY <1>5, OpenLeaves
  <2>2. walker' = walker /\ late \in Nat /\ abort \in BOOLEAN /\ abort' = abort
        /\ late' = (IF abort THEN late + 1 ELSE late)
    BY <1>5 DEF Open, TypeOK
  <2>3. \A v \in aborting' : held'[v] = NoEntry
    BY <1>5 DEF Open, TypeOK, LateInv
  <2> QED BY <2>1, <2>2, <2>3 DEF LateInv
<1> QED BY <1>1, <1>2, <1>3, <1>4, <1>5, <1>6, <1>7 DEF Next, WalkerStep, WorkerStep, Terminated

\* Types, frames and calls after ABORT, in every reachable state.
THEOREM Invariance == SafetySpec => []IInv
<1>1. Init => IInv
  BY InitIInv
<1>2. IInv /\ [Next]_vars => IInv'
  BY TypePreserved, LatePreserved DEF IInv
<1> QED BY <1>1, <1>2, PTL DEF SafetySpec

\* Once an ABORT is stored, the callback is entered at most once per worker.
THEOREM AbortIsPrompt == SafetySpec => []CallsAfterAbort
<1>1. IInv => CallsAfterAbort
  <2> SUFFICES ASSUME IInv PROVE CallsAfterAbort
      OBVIOUS
  <2> QED BY OpeningFacts DEF IInv, LateInv, TypeOK, CallsAfterAbort
<1> QED BY <1>1, Invariance, PTL

\* The variables stay in their types.
THEOREM TypeCorrect == SafetySpec => []TypeOK
<1>1. IInv => TypeOK
  BY DEF IInv
<1> QED BY <1>1, Invariance, PTL

-----------------------------------------------------------------------------
(* With a pool: entries are met once, and answers obeyed *)

\* A directory is entered, or an inverted walk goes up.
LEMMA EnterGoal ==
  ASSUME AtEntry, mode \in Modes, Separate(mode, frames), NEW isDir \in BOOLEAN, NEW f \in Goal(isDir)
  PROVE  /\ Separate(mode, <<f>> \o Advanced)
         /\ AheadOf(mode, <<f>> \o Advanced) \subseteq AheadOf(mode, frames) \ {Entry}
<1>1. CASE Deeper(isDir) /\ Entry \in Dirs /\ f = First(Entry, Top.up)
  <2>1. ~mode.inverted
    BY <1>1 DEF Deeper
  <2> QED
    BY <1>1, <2>1, DeeperAhead
<1>2. CASE ~Deeper(isDir) /\ Climbs(isDir) /\ f \in Above
  <2>1. mode.inverted /\ Top.next = Len(Listing)
    BY <1>2 DEF Climbs
  <2> QED
    BY <1>2, <2>1, UpAhead
<1> QED
  BY <1>1, <1>2, GoalFacts DEF AtEntry

\* Whatever the answer, the walk does not come to the entry again.
LEMMA ObeyAhead ==
  ASSUME AtEntry, mode \in Modes, Separate(mode, frames), NEW ans \in Answers,
         NEW isDir \in BOOLEAN, NEW exists \in BOOLEAN, Obey(ans, isDir, exists)
  PROVE  /\ Separate(mode, frames')
         /\ AheadOf(mode, frames') \subseteq AheadOf(mode, frames) \ {Entry}
         /\ ans \in {"STOP", "ABORT"} => AheadOf(mode, frames') \cap Ahead(mode, Top) = {}
         /\ ans = "SKIP" /\ ~mode.inverted => AheadOf(mode, frames') \cap Subtree(Entry) = {}
         /\ queue' = queue \/ (queue' = Append(queue, Entry) /\ ans = "CONTINUE")
<1>1. CASE ans \in {"STOP", "ABORT"}
  <2>1. frames' = Tail(frames) /\ queue' = queue
    BY <1>1 DEF Obey, Resume
  <2> QED
    BY <1>1, <2>1, EntryPlace, ReturnAhead, AdvanceAhead
<1>2. CASE ans = "SKIP"
  <2>1. frames' = Advanced /\ queue' = queue
    BY <1>2 DEF Obey, Resume
  <2> QED
    BY <1>2, <2>1, AdvanceAhead
<1>3. CASE ans = "CONTINUE"
  <2>1. DescendOrOpen(isDir, exists)
    BY <1>3 DEF Obey
  <2>2. frames' = Advanced \/ \E f \in Goal(isDir) : frames' = <<f>> \o Advanced
    BY <2>1 DEF DescendOrOpen, Resume
  <2>3. queue' = queue \/ queue' = Append(queue, Entry)
    BY <2>1 DEF DescendOrOpen
  <2>4. /\ Separate(mode, frames')
        /\ AheadOf(mode, frames') \subseteq AheadOf(mode, frames) \ {Entry}
    <3>1. CASE frames' = Advanced
      BY <3>1, AdvanceAhead
    <3>2. ASSUME NEW f \in Goal(isDir), frames' = <<f>> \o Advanced
          PROVE  /\ Separate(mode, frames')
                 /\ AheadOf(mode, frames') \subseteq AheadOf(mode, frames) \ {Entry}
      BY <3>2, EnterGoal
    <3> QED
      BY <2>2, <3>1, <3>2
  <2> QED
    BY <1>3, <2>3, <2>4
<1> QED
  BY <1>1, <1>2, <1>3 DEF Answers

LEMMA InitEntries == Init => CleanInv
<1> SUFFICES ASSUME Init, Clean(mode) PROVE EntriesInv
    BY DEF CleanInv
<1>1. /\ frames = <<First(Start, 0)>> /\ mode \in Modes /\ queue = <<>> /\ NoEntry \notin Entries
      /\ held = [w \in Workers |-> NoEntry]
      /\ asked = [e \in Entries |-> 0] /\ opened = [e \in Entries |-> 0]
      /\ answer = [e \in Entries |-> "none"]
  BY WorkersAssumption DEF Init
<1>2. \A e \in Entries : Fresh(e)
  <2>1. Range(queue) = {}
    BY <1>1 DEF Range
  <2> QED
    BY <1>1, <2>1 DEF Fresh, Waiting
<1>3. AheadOf(mode, frames) \subseteq Entries
  BY <1>1, AheadAreEntries, InitIInv DEF IInv, TypeOK
<1>4. Separate(mode, frames)
  <2>1. DOMAIN frames = {1} /\ frames[1] = First(Start, 0)
    BY <1>1
  <2>2. OnWay(mode, First(Start, 0))
    <3>1. 0 \in 0..Len(mode.way) /\ First(Start, 0).up = 0 /\ First(Start, 0).dir = Start
      BY <1>1, WayFacts DEF First
    <3> QED
      BY <3>1 DEF OnWay, Climbed
  <2> QED
    BY <2>1, <2>2 DEF Separate
<1>5. AheadInv
  BY <1>2, <1>3, <1>4 DEF AheadInv
<1>6. MetOnceInv
  BY <1>1 DEF MetOnceInv
<1>7. JobsInv
  BY <1>1 DEF JobsInv, Range
<1>8. SteerInv
  <2>1. \A d \in Dirs : \A i \in 1..Len(Children[d]) : Children[d][i] \in Entries
    BY TreeFacts
  <2> QED
    BY <1>1, <2>1 DEF SteerInv
<1> QED
  BY <1>5, <1>6, <1>7, <1>8 DEF EntriesInv

\* A step that only lets frames go, or does nothing at all.
LEMMA EntriesKept ==
  ASSUME IInv, EntriesInv,
         mode' = mode, queue' = queue, held' = held, asked' = asked, opened' = opened,
         answer' = answer, Separate(mode, frames'),
         AheadOf(mode, frames') \subseteq AheadOf(mode, frames)
  PROVE  EntriesInv'
<1>1. AheadInv'
  BY DEF EntriesInv, AheadInv, Fresh, Waiting
<1>2. MetOnceInv'
  BY DEF EntriesInv, MetOnceInv
<1>3. JobsInv'
  BY DEF EntriesInv, JobsInv, Waiting
<1>4. SteerInv'
  BY DEF EntriesInv, SteerInv, Waiting, LeftOut, Beneath
<1> QED
  BY <1>1, <1>2, <1>3, <1>4 DEF EntriesInv

\* What an answer leaves out was ahead.
LEMMA LeftOutAhead ==
  ASSUME AtEntry, mode \in Modes, AheadInv, NEW ans \in {"SKIP", "STOP", "ABORT"},
         answer'[Entry] = ans, mode' = mode,
         NEW d \in Dirs, NEW i \in 1..Len(Children[d]), Children[d][i] = Entry,
         NEW x \in LeftOut(d, i)'
  PROVE  /\ x \in AheadOf(mode, frames) /\ x # Entry
         /\ x \in Ahead(mode, Top)
         /\ ans = "SKIP" => ~mode.inverted /\ x \in Subtree(Entry)
<1>1. d = Top.dir /\ i = Top.next /\ Walking /\ Separate(mode, frames)
  BY EntryPlace DEF AheadInv
<1>2. x \in (Beneath(Entry) \ {Entry})
              \cup (IF ans = "SKIP" THEN {} ELSE UNION {Beneath(Children[d][k]) : k \in i + 1..Len(Children[d])})
  BY DEF LeftOut, Beneath
<1>3. CASE x \in Beneath(Entry) \ {Entry}
  <2>1. ~mode.inverted /\ x \in Subtree(Entry) /\ x # Entry
    BY <1>3 DEF Beneath
  <2> QED
    BY <1>1, <2>1, AdvanceAhead, ReturnAhead
<1>4. CASE ans # "SKIP" /\ \E k \in i + 1..Len(Children[d]) : x \in Beneath(Children[d][k])
  <2>1. PICK k \in i + 1..Len(Children[d]) : x \in Beneath(Children[d][k])
    BY <1>4
  <2>2. k \in 1..Len(Children[d]) /\ k # i /\ k \in i..Len(Children[d])
    BY <1>1, <2>1
  <2>3. PICK c \in Range(Children[d]) : c = Children[d][k]
    BY <2>2, TreeFacts
  <2>4. c # Entry /\ Entry \in Range(Children[d])
    BY <1>1, <2>2, <2>3, EntryPlace
  <2>5. c \in Rest(Top) /\ x \in Beneath(c)
    BY <1>1, <2>1, <2>2, <2>3 DEF Rest
  <2>6. x # Entry
    <3>1. CASE mode.inverted
      BY <2>4, <2>5, <3>1 DEF Beneath
    <3>2. CASE ~mode.inverted
      <4>1. Entry \in Subtree(Entry) /\ x \in Subtree(c)
        BY <2>5, <3>2 DEF Beneath, Subtree
      <4> QED
        BY <2>4, <4>1, SiblingsApart
    <3> QED
      BY <3>1, <3>2
  <2>7. x \in Ahead(mode, Top)
    BY <2>5 DEF Ahead, Beneath
  <2> QED
    BY <1>1, <1>4, <2>6, <2>7, ReturnAhead
<1> QED
  BY <1>2, <1>3, <1>4

\* Only entries are left out.
LEMMA LeftOutAreEntries ==
  ASSUME NEW d \in Dirs, NEW i \in 1..Len(Children[d])
  PROVE  LeftOut(d, i) \subseteq Entries /\ Children[d][i] \in Entries
<1>1. \A e \in Entries : Beneath(e) \subseteq Entries
  BY BelowFacts DEF Beneath, Subtree
<1>2. \A k \in i + 1..Len(Children[d]) : k \in 1..Len(Children[d])
  OBVIOUS
<1> QED
  BY <1>1, <1>2, TreeFacts DEF LeftOut

LEMMA VisitEntries ==
  ASSUME IInv, EntriesInv, NEW ans \in Answers, NEW isDir \in BOOLEAN, NEW exists \in BOOLEAN,
         Visit(ans, isDir, exists)
  PROVE  EntriesInv'
<1>1. /\ walker = "call" /\ AtEntry /\ Walking /\ mode' = mode /\ held' = held /\ opened' = opened
      /\ mode \in Modes /\ Obey(ans, isDir, exists) /\ AheadInv /\ MetOnceInv /\ JobsInv /\ SteerInv
  BY PoolFrames, EntryPlace DEF Visit, EntriesInv, IInv, TypeOK
<1>2. /\ Separate(mode, frames')
      /\ AheadOf(mode, frames') \subseteq AheadOf(mode, frames) \ {Entry}
      /\ ans \in {"STOP", "ABORT"} => AheadOf(mode, frames') \cap Ahead(mode, Top) = {}
      /\ ans = "SKIP" /\ ~mode.inverted => AheadOf(mode, frames') \cap Subtree(Entry) = {}
      /\ queue' = queue \/ (queue' = Append(queue, Entry) /\ ans = "CONTINUE")
  BY <1>1, ObeyAhead DEF AheadInv
<1>3. Entry \in AheadOf(mode, frames) /\ Fresh(Entry) /\ Entry \in Entries
  BY <1>1, AdvanceAhead, ReturnAhead, EntryPlace DEF AheadInv
<1>4. /\ asked \in [Entries -> Nat] /\ answer \in [Entries -> Answers \cup {"none"}]
      /\ queue \in Seq(Entries)
  BY DEF IInv, TypeOK
<1>5. \A e \in Entries \ {Entry} : asked'[e] = asked[e] /\ answer'[e] = answer[e]
  BY <1>3, <1>4 DEF Visit
<1>6. /\ asked'[Entry] <= 1
      /\ answer'[Entry] = ans \/ (ans = "CONTINUE" /\ answer'[Entry] = "none")
  <2>1. asked[Entry] = 0 /\ answer[Entry] = "none"
    BY <1>3 DEF Fresh
  <2> QED
    BY <1>3, <1>4, <2>1 DEF Visit
<1>7. Range(queue') \subseteq Range(queue) \cup {Entry}
  BY <1>2, <1>3, <1>4, AppendRange
<1>8. \A e \in Entries \ {Entry} : Waiting(e)' => Waiting(e)
  BY <1>1, <1>7 DEF Waiting
<1>9. AheadInv'
  <2>1. AheadOf(mode, frames') \subseteq Entries
    BY <1>2, AheadAreEntries DEF IInv, TypeOK
  <2>2. ASSUME NEW e \in AheadOf(mode, frames')
        PROVE  Fresh(e)'
    <3>1. e \in Entries \ {Entry} /\ Fresh(e)
      BY <1>1, <1>2, <2>1, <2>2 DEF AheadInv
    <3> QED
      BY <1>1, <1>5, <1>8, <3>1 DEF Fresh
  <2> QED
    BY <1>1, <1>2, <2>2 DEF AheadInv
<1>10. MetOnceInv'
  BY <1>1, <1>5, <1>6 DEF MetOnceInv
<1>11. JobsInv'
  <2>1. Entry \notin Range(queue) /\ (\A w \in Workers : held[w] # Entry) /\ opened[Entry] = 0
    BY <1>3 DEF Fresh, Waiting
  <2>2. \A e \in Entries : opened'[e] > 0 => ~Waiting(e)'
    BY <1>1, <1>8, <2>1 DEF JobsInv
  <2>3. \A i, k \in DOMAIN queue' : i # k => queue'[i] # queue'[k]
    <3>1. \A i, k \in DOMAIN queue : i # k => queue[i] # queue[k]
      BY <1>1 DEF JobsInv
    <3>2. CASE queue' = queue
      BY <3>1, <3>2
    <3>3. CASE queue' = Append(queue, Entry)
      BY <1>3, <1>4, <2>1, <3>1, <3>3, AppendRange
    <3> QED
      BY <1>2, <3>2, <3>3
  <2>4. \A w \in Workers : held'[w] \notin Range(queue')
    BY <1>1, <1>7, <2>1 DEF JobsInv
  <2> QED
    BY <1>1, <2>2, <2>3, <2>4 DEF JobsInv
<1>12. SteerInv'
  <2> SUFFICES ASSUME NEW d \in Dirs, NEW i \in 1..Len(Children[d]),
                      answer'[Children[d][i]] \in {"SKIP", "STOP", "ABORT"}
               PROVE  /\ opened'[Children[d][i]] = 0 /\ ~Waiting(Children[d][i])'
                      /\ \A x \in LeftOut(d, i)' : /\ asked'[x] = 0 /\ opened'[x] = 0 /\ ~Waiting(x)'
                                                   /\ x \notin AheadOf(mode, frames')
    BY <1>1 DEF SteerInv
  <2>1. CASE Children[d][i] = Entry
    <3>2. ans \in {"SKIP", "STOP", "ABORT"} /\ answer'[Entry] = ans
      BY <1>6, <2>1
    <3>3. opened[Entry] = 0 /\ ~Waiting(Entry) /\ queue' = queue
      BY <1>2, <1>3, <3>2 DEF Fresh
    <3>4. ASSUME NEW x \in LeftOut(d, i)'
          PROVE  /\ asked'[x] = 0 /\ opened'[x] = 0 /\ ~Waiting(x)'
                 /\ x \notin AheadOf(mode, frames')
      <4>1. /\ x \in AheadOf(mode, frames) /\ x # Entry /\ x \in Ahead(mode, Top)
            /\ ans = "SKIP" => ~mode.inverted /\ x \in Subtree(Entry)
        BY <1>1, <2>1, <3>2, <3>4, LeftOutAhead
      <4>2. asked[x] = 0 /\ opened[x] = 0 /\ ~Waiting(x) /\ x \in Entries
        BY <1>1, <4>1, AheadAreEntries DEF AheadInv, Fresh, IInv, TypeOK
      <4> QED
        BY <1>1, <1>2, <1>5, <1>8, <3>2, <4>1, <4>2
    <3> QED
      BY <1>1, <2>1, <3>3, <3>4 DEF Waiting
  <2>2. CASE Children[d][i] # Entry
    <3>1. Children[d][i] \in Entries
      BY TreeFacts
    <3>2. answer'[Children[d][i]] = answer[Children[d][i]]
      BY <1>5, <2>2, <3>1
    <3>3. /\ opened[Children[d][i]] = 0 /\ ~Waiting(Children[d][i])
          /\ \A x \in LeftOut(d, i) : /\ asked[x] = 0 /\ opened[x] = 0 /\ ~Waiting(x)
                                      /\ x \notin AheadOf(mode, frames)
      BY <1>1, <3>2 DEF SteerInv
    <3>4. LeftOut(d, i)' = LeftOut(d, i)
      BY <1>1, <3>2 DEF LeftOut, Beneath
    <3>5. LeftOut(d, i) \subseteq Entries
      BY LeftOutAreEntries
    <3>6. \A x \in LeftOut(d, i) : x # Entry
      BY <1>3, <3>3
    <3> QED
      BY <1>1, <1>2, <1>5, <1>8, <2>2, <3>1, <3>3, <3>4, <3>5, <3>6
  <2> QED
    BY <2>1, <2>2
<1> QED
  BY <1>9, <1>10, <1>11, <1>12 DEF EntriesInv

LEMMA TakeEntries ==
  ASSUME IInv, EntriesInv, NEW w \in Workers, Take(w)
  PROVE  EntriesInv'
<1>1. /\ mode' = mode /\ frames' = frames /\ asked' = asked /\ opened' = opened /\ answer' = answer
      /\ AheadInv /\ MetOnceInv /\ JobsInv /\ SteerInv /\ queue' = Tail(queue)
      /\ queue \in Seq(Entries) /\ queue # <<>> /\ held \in [Workers -> Entries \cup {NoEntry}]
      /\ NoEntry \notin Entries
  BY WorkersAssumption DEF Take, EntriesInv, IInv, TypeOK
<1> DEFINE e0 == Head(queue)
<1>2. /\ e0 \in Range(queue) /\ e0 \in Entries /\ Range(queue') \subseteq Range(queue)
      /\ \A i, k \in DOMAIN queue' : i # k => queue'[i] # queue'[k]
      /\ e0 \notin Range(queue')
  BY <1>1, TailRange DEF JobsInv
<1> HIDE DEF e0
<1>3. \A v \in Workers : held'[v] = held[v] \/ (v = w /\ held'[v] = e0 /\ held[v] = NoEntry)
  BY <1>1 DEF Take, e0
<1>4. \A e \in Entries : Waiting(e)' => Waiting(e)
  BY <1>1, <1>2, <1>3 DEF Waiting
<1>5. AheadInv'
  <2>1. AheadOf(mode, frames) \subseteq Entries
    BY AheadAreEntries DEF IInv, TypeOK
  <2> QED
    BY <1>1, <1>4, <2>1 DEF AheadInv, Fresh
<1>6. MetOnceInv'
  BY <1>1 DEF MetOnceInv
<1>7. JobsInv'
  <2>1. \A v \in Workers : held[v] # e0 /\ held[v] \notin Range(queue)
    BY <1>1, <1>2 DEF JobsInv
  <2>2. \A u, v \in Workers : u # v => held'[u] # held'[v] \/ held'[u] = NoEntry
    BY <1>1, <1>3, <2>1 DEF JobsInv
  <2>3. \A v \in Workers : held'[v] \notin Range(queue')
    BY <1>2, <1>3, <2>1
  <2> QED
    BY <1>1, <1>2, <1>4, <2>2, <2>3 DEF JobsInv
<1>8. SteerInv'
  <2>1. \A d \in Dirs : \A i \in 1..Len(Children[d]) :
          /\ LeftOut(d, i) \subseteq Entries /\ Children[d][i] \in Entries
          /\ LeftOut(d, i)' = LeftOut(d, i)
    BY <1>1, LeftOutAreEntries DEF LeftOut, Beneath
  <2> QED
    BY <1>1, <1>4, <2>1 DEF SteerInv
<1> QED
  BY <1>5, <1>6, <1>7, <1>8 DEF EntriesInv

LEMMA OpenEntries ==
  ASSUME IInv, EntriesInv, NEW w \in Workers, NEW ans \in Answers, Open(w, ans)
  PROVE  EntriesInv'
<1>1. /\ mode' = mode /\ frames' = frames /\ asked' = asked /\ queue' = queue /\ answer' = answer
      /\ AheadInv /\ MetOnceInv /\ JobsInv /\ SteerInv
      /\ opened \in [Entries -> Nat] /\ held \in [Workers -> Entries \cup {NoEntry}]
      /\ NoEntry \notin Entries /\ queue \in Seq(Entries)
      /\ held' = [held EXCEPT ![w] = NoEntry] /\ held[w] # NoEntry
      /\ opened' = [opened EXCEPT ![held[w]] = @ + 1]
  BY WorkersAssumption DEF Open, EntriesInv, IInv, TypeOK
<1> PICK e0 \in Entries : e0 = held[w]
  BY <1>1
<1>2. Waiting(e0) /\ opened[e0] = 0
  <2>1. Waiting(e0)
    BY <1>1 DEF Waiting
  <2> QED
    BY <1>1, <2>1 DEF JobsInv
<1>3. opened'[e0] = 1 /\ \A e \in Entries \ {e0} : opened'[e] = opened[e]
  BY <1>1, <1>2
<1>4. \A v \in Workers : held'[v] = IF v = w THEN NoEntry ELSE held[v]
  BY <1>1
<1>5. Range(queue) \subseteq Entries
  BY <1>1 DEF Range
<1>6. \A e \in Entries : Waiting(e)' => Waiting(e)
  BY <1>1, <1>4 DEF Waiting
<1>7. ~Waiting(e0)'
  <2>1. e0 \notin Range(queue) /\ \A v \in Workers : v # w => held[v] # e0
    BY <1>1 DEF JobsInv
  <2> QED
    BY <1>1, <1>2, <1>4, <2>1 DEF Waiting
<1>8. AheadInv'
  <2>1. AheadOf(mode, frames) \subseteq Entries
    BY AheadAreEntries DEF IInv, TypeOK
  <2>2. e0 \notin AheadOf(mode, frames)
    BY <1>1, <1>2 DEF AheadInv, Fresh
  <2> QED
    BY <1>1, <1>3, <1>6, <2>1, <2>2 DEF AheadInv, Fresh
<1>9. MetOnceInv'
  BY <1>1, <1>3 DEF MetOnceInv
<1>10. JobsInv'
  <2>1. \A e \in Entries : opened'[e] > 0 => ~Waiting(e)'
    BY <1>1, <1>3, <1>6, <1>7 DEF JobsInv
  <2>2. \A u, v \in Workers : u # v => held'[u] # held'[v] \/ held'[u] = NoEntry
    BY <1>1, <1>4 DEF JobsInv
  <2>3. \A v \in Workers : held'[v] \notin Range(queue')
    BY <1>1, <1>4, <1>5 DEF JobsInv
  <2> QED
    BY <1>1, <2>1, <2>2, <2>3 DEF JobsInv
<1>11. SteerInv'
  <2>1. \A d \in Dirs : \A i \in 1..Len(Children[d]) :
          /\ LeftOut(d, i) \subseteq Entries /\ Children[d][i] \in Entries
          /\ LeftOut(d, i)' = LeftOut(d, i)
    BY <1>1, LeftOutAreEntries DEF LeftOut, Beneath
  <2>2. \A d \in Dirs : \A i \in 1..Len(Children[d]) :
          answer[Children[d][i]] \in {"SKIP", "STOP", "ABORT"} =>
            Children[d][i] # e0 /\ e0 \notin LeftOut(d, i)
    BY <1>1, <1>2 DEF SteerInv
  <2> QED
    BY <1>1, <1>3, <1>6, <2>1, <2>2 DEF SteerInv
<1> QED
  BY <1>8, <1>9, <1>10, <1>11 DEF EntriesInv

LEMMA EntriesPreserved == IInv /\ EntriesInv /\ [Next]_vars => EntriesInv'
<1> SUFFICES ASSUME IInv, EntriesInv, [Next]_vars PROVE EntriesInv'
    OBVIOUS
<1>0. Separate(mode, frames) /\ mode \in Modes
  BY DEF EntriesInv, AheadInv, IInv, TypeOK
<1>1. CASE ListingEnd \/ (CheckAbort /\ abort)
  <2>1. frames' = Tail(frames) /\ walker = "check"
    BY <1>1 DEF ListingEnd, CheckAbort, Resume
  <2> QED
    BY <1>0, <1>1, <2>1, PoolFrames, ReturnAhead, EntriesKept DEF ListingEnd, CheckAbort
<1>2. CASE (CheckAbort /\ ~abort) \/ UNCHANGED vars \/ StoreAbort \/ \E w \in Workers : StoreOpened(w)
  BY <1>0, <1>2, EntriesKept DEF CheckAbort, vars, StoreAbort, StoreOpened, Resume
<1>3. CASE Filter
  <2>1. frames' = Advanced /\ walker = "call"
    BY <1>3 DEF Filter, Resume
  <2> QED
    BY <1>0, <1>3, <2>1, PoolFrames, AdvanceAhead, EntriesKept DEF Filter
<1>4. CASE WalkThrows
  <2>1. frames' = <<>>
    BY <1>4 DEF WalkThrows
  <2>2. Separate(mode, frames') /\ AheadOf(mode, frames') = {}
    BY <1>0, <2>1 DEF Separate, AheadOf
  <2> QED
    BY <1>4, <2>2, EntriesKept DEF WalkThrows
<1> QED
  BY <1>1, <1>2, <1>3, <1>4, VisitEntries, TakeEntries, OpenEntries
     DEF Next, WalkerStep, WorkerStep, Terminated

\* What is ahead of the walk was never met, jobs are queued or held once, and
\* what an answer left out is neither met nor ahead.
THEOREM EntriesInvariance == SafetySpec => []CleanInv
<1>1. Init => CleanInv
  BY InitEntries
<1>2. IInv /\ CleanInv /\ [Next]_vars => CleanInv'
  <2>1. [Next]_vars => mode' = mode
    BY DEF Next, vars, Terminated, WalkerStep, WorkerStep, ListingEnd, CheckAbort, Filter, StoreAbort,
           Visit, WalkThrows, Take, Open, StoreOpened
  <2>2. mode' = mode => (Clean(mode)' <=> Clean(mode))
    BY DEF Clean, Climbed
  <2> QED
    BY <2>1, <2>2, EntriesPreserved DEF CleanInv
<1> QED
  BY <1>1, <1>2, Invariance, PTL DEF SafetySpec

\* In a walk that comes to no directory twice, SKIP keeps the walk and the
\* workers out of the entry and all beneath it, STOP and ABORT out of the rest
\* of its listing too.
THEOREM AnswersAreObeyed == SafetySpec => []SteeringObeyed
<1>1. CleanInv => SteeringObeyed
  BY DEF CleanInv, EntriesInv, SteerInv, SteeringObeyed
<1> QED
  BY <1>1, EntriesInvariance, PTL

-----------------------------------------------------------------------------
(* With a pool: the turns of an inverted walk *)

Places(q, e) == {k \in DOMAIN q : q[k] = e}
HoldersIn(h, e) == {w \in Workers : h[w] = e}

LEMMA PlacesFacts ==
  ASSUME NEW S, NEW q \in Seq(S), NEW e
  PROVE  IsFiniteSet(Places(q, e)) /\ Cardinality(Places(q, e)) \in Nat
<1>1. Len(q) \in Nat /\ Places(q, e) \subseteq 1..Len(q)
  BY LenProperties DEF Places
<1>2. 1 \in Int /\ Len(q) \in Int
  BY <1>1
<1>3. IsFiniteSet(1..Len(q))
  BY <1>2, FS_Interval
<1> QED
  BY <1>1, <1>3, FS_Subset, FS_CardinalityType

\* A job that is queued is one more.
LEMMA PlacesAppended ==
  ASSUME NEW S, NEW q \in Seq(S), NEW x \in S, NEW e
  PROVE  Cardinality(Places(Append(q, x), e)) = Cardinality(Places(q, e)) + (IF e = x THEN 1 ELSE 0)
<1> DEFINE p == Append(q, x)
           n == Len(q)
<1>1. /\ n \in Nat /\ DOMAIN q = 1..n /\ DOMAIN p = 1..n + 1
      /\ p[n + 1] = x /\ \A i \in 1..n : p[i] = q[i]
  BY AppendProperties, LenProperties
<1> HIDE DEF p, n
<1>2. n + 1 \notin 1..n /\ 1..n + 1 = 1..n \cup {n + 1}
  BY <1>1
<1>3. IsFiniteSet(Places(q, e)) /\ Cardinality(Places(q, e)) \in Nat /\ n + 1 \notin Places(q, e)
  BY <1>1, <1>2, PlacesFacts DEF Places
<1>4. CASE e = x
  <2>1. Places(p, e) = Places(q, e) \cup {n + 1}
    BY <1>1, <1>2, <1>4 DEF Places
  <2> QED
    BY <1>3, <1>4, <2>1, FS_AddElement DEF p
<1>5. CASE e # x
  <2>1. Places(p, e) = Places(q, e)
    BY <1>1, <1>2, <1>5 DEF Places
  <2> QED
    BY <1>3, <1>5, <2>1 DEF p
<1> QED
  BY <1>4, <1>5

\* A job that is taken from the queue is one less.
LEMMA PlacesTaken ==
  ASSUME NEW S, NEW q \in Seq(S), q # <<>>, NEW e
  PROVE  Cardinality(Places(Tail(q), e)) + (IF e = Head(q) THEN 1 ELSE 0) <= Cardinality(Places(q, e))
<1> DEFINE t == Tail(q)
           T == Places(t, e)
           B == Places(q, e) \ {1}
           f == [k \in T |-> k + 1]
<1>1. /\ Len(q) \in Nat /\ Len(q) > 0 /\ DOMAIN q = 1..Len(q) /\ DOMAIN t = 1..Len(q) - 1
      /\ Head(q) = q[1] /\ t \in Seq(S) /\ \A i \in 1..Len(q) - 1 : t[i] = q[i + 1]
  BY HeadTailProperties, EmptySeq, LenProperties
<1> HIDE DEF t
<1>2. IsFiniteSet(Places(q, e)) /\ Cardinality(Places(q, e)) \in Nat
  BY PlacesFacts
<1>3. IsFiniteSet(T) /\ Cardinality(T) \in Nat
  BY <1>1, PlacesFacts
<1>4. IsFiniteSet(B) /\ Cardinality(B) = IF 1 \in Places(q, e) THEN Cardinality(Places(q, e)) - 1
                                         ELSE Cardinality(Places(q, e))
  BY <1>2, FS_RemoveElement
<1>5. \A k \in T : k \in Int /\ k + 1 \in B
  BY <1>1 DEF Places
<1> HIDE DEF T, B
<1>6. f \in Injection(T, B)
  <2>1. f \in [T -> B]
    BY <1>5
  <2>2. ASSUME NEW a \in T, NEW b \in T, f[a] = f[b]
        PROVE  a = b
    <3>1. a + 1 = b + 1 /\ a \in Int /\ b \in Int
      BY <1>5, <2>2
    <3> QED
      BY <3>1
  <2> HIDE DEF f
  <2> QED
    BY <2>1, <2>2 DEF Injection, IsInjective
<1> HIDE DEF f
<1>7. Cardinality(T) <= Cardinality(B)
  BY <1>4, <1>6, FS_Injection
<1>8. e = Head(q) => 1 \in Places(q, e)
  BY <1>1 DEF Places
<1> QED
  BY <1>2, <1>3, <1>4, <1>7, <1>8 DEF T, t

\* The jobs of an entry, of a queue, what the workers hold and what was called
JobsIn(q, h, o, e) == Cardinality(Places(q, e)) + Cardinality(HoldersIn(h, e)) + o[e]

LEMMA JobsFacts ==
  ASSUME NEW q \in Seq(Entries), NEW h, NEW o \in [Entries -> Nat], NEW e \in Entries
  PROVE  /\ IsFiniteSet(HoldersIn(h, e)) /\ Cardinality(HoldersIn(h, e)) \in Nat
         /\ Cardinality(Places(q, e)) \in Nat /\ o[e] \in Nat /\ JobsIn(q, h, o, e) \in Nat
         /\ o[e] <= JobsIn(q, h, o, e)
<1>1. IsFiniteSet(HoldersIn(h, e)) /\ Cardinality(HoldersIn(h, e)) \in Nat
  <2>1. HoldersIn(h, e) \subseteq Workers
    BY DEF HoldersIn
  <2> QED
    BY <2>1, WorkersAssumption, FS_Subset, FS_CardinalityType
<1>2. Cardinality(Places(q, e)) \in Nat /\ o[e] \in Nat
  BY PlacesFacts
<1> QED
  BY <1>1, <1>2 DEF JobsIn

\* What a worker does makes no job.
LEMMA TakeAddsNone ==
  ASSUME NEW q \in Seq(Entries), q # <<>>, NEW h \in [Workers -> Entries \cup {NoEntry}],
         NEW o \in [Entries -> Nat], NEW w \in Workers, h[w] = NoEntry, NEW e \in Entries
  PROVE  /\ JobsIn(Tail(q), h, o, e) <= JobsIn(q, h, o, e)
         /\ JobsIn(Tail(q), [h EXCEPT ![w] = Head(q)], o, e) <= JobsIn(q, h, o, e)
<1> DEFINE g == [h EXCEPT ![w] = Head(q)]
<1>1. e # NoEntry /\ Tail(q) \in Seq(Entries)
  BY WorkersAssumption
<1>2. HoldersIn(g, e) = (IF e = Head(q) THEN HoldersIn(h, e) \cup {w} ELSE HoldersIn(h, e))
      /\ w \notin HoldersIn(h, e)
  <2>1. \A v \in Workers : g[v] = IF v = w THEN Head(q) ELSE h[v]
    OBVIOUS
  <2> HIDE DEF g
  <2> QED
    BY <1>1, <2>1 DEF HoldersIn
<1> HIDE DEF g
<1>3. /\ IsFiniteSet(HoldersIn(h, e)) /\ Cardinality(HoldersIn(h, e)) \in Nat
      /\ Cardinality(Places(q, e)) \in Nat /\ Cardinality(Places(Tail(q), e)) \in Nat /\ o[e] \in Nat
  BY <1>1, JobsFacts
<1>4. Cardinality(HoldersIn(g, e)) = Cardinality(HoldersIn(h, e)) + (IF e = Head(q) THEN 1 ELSE 0)
  <2>1. CASE e = Head(q)
    BY <1>2, <1>3, <2>1, FS_AddElement
  <2>2. CASE e # Head(q)
    BY <1>2, <1>3, <2>2
  <2> QED
    BY <2>1, <2>2
<1>5. Cardinality(Places(Tail(q), e)) + (IF e = Head(q) THEN 1 ELSE 0) <= Cardinality(Places(q, e))
  BY PlacesTaken
<1>6. ASSUME NEW a \in Nat, a = Cardinality(HoldersIn(h, e)), NEW b \in Nat, b = Cardinality(Places(q, e)),
             NEW c \in Nat, c = Cardinality(Places(Tail(q), e)), NEW n \in {0, 1},
             n = (IF e = Head(q) THEN 1 ELSE 0)
      PROVE  /\ JobsIn(Tail(q), h, o, e) <= JobsIn(q, h, o, e)
             /\ JobsIn(Tail(q), g, o, e) <= JobsIn(q, h, o, e)
  <2>1. c + n <= b /\ Cardinality(HoldersIn(g, e)) = a + n
    BY <1>4, <1>5, <1>6
  <2>2. JobsIn(Tail(q), h, o, e) = c + a + o[e] /\ JobsIn(q, h, o, e) = b + a + o[e]
        /\ JobsIn(Tail(q), g, o, e) = c + (a + n) + o[e]
    BY <1>6, <2>1 DEF JobsIn
  <2>3. PICK k \in Nat : k = o[e]
    BY <1>3
  <2>4. c + n <= b
    BY <2>1
  <2>5. c + a + k <= b + a + k /\ c + (a + n) + k <= b + a + k
    <3>1. n \in Nat
      BY <1>6
    <3> QED
      BY <2>4, <3>1
  <2> QED
    BY <2>2, <2>3, <2>5
<1> QED
  BY <1>3, <1>6 DEF g

LEMMA OpenAddsNone ==
  ASSUME NEW q \in Seq(Entries), NEW h \in [Workers -> Entries \cup {NoEntry}],
         NEW o \in [Entries -> Nat], NEW w \in Workers, h[w] # NoEntry, NEW e \in Entries
  PROVE  JobsIn(q, [h EXCEPT ![w] = NoEntry], [o EXCEPT ![h[w]] = @ + 1], e) = JobsIn(q, h, o, e)
<1> DEFINE g == [h EXCEPT ![w] = NoEntry]
           p == [o EXCEPT ![h[w]] = @ + 1]
<1>1. e # NoEntry /\ h[w] \in Entries
  BY WorkersAssumption
<1>2. HoldersIn(g, e) = HoldersIn(h, e) \ {w} /\ (e = h[w] <=> w \in HoldersIn(h, e))
  <2>1. \A v \in Workers : g[v] = IF v = w THEN NoEntry ELSE h[v]
    OBVIOUS
  <2> HIDE DEF g
  <2> QED
    BY <1>1, <2>1 DEF HoldersIn
<1>3. p[e] = o[e] + (IF e = h[w] THEN 1 ELSE 0)
  BY <1>1
<1> HIDE DEF g, p
<1>4. /\ IsFiniteSet(HoldersIn(h, e)) /\ Cardinality(HoldersIn(h, e)) \in Nat
      /\ Cardinality(Places(q, e)) \in Nat /\ o[e] \in Nat
  BY JobsFacts
<1>5. Cardinality(HoldersIn(g, e)) = Cardinality(HoldersIn(h, e)) - (IF e = h[w] THEN 1 ELSE 0)
  <2>1. CASE e = h[w]
    BY <1>2, <1>4, <2>1, FS_RemoveElement
  <2>2. CASE e # h[w]
    <3>1. HoldersIn(g, e) = HoldersIn(h, e)
      BY <1>2, <2>2
    <3> QED
      BY <1>4, <2>2, <3>1
  <2> QED
    BY <2>1, <2>2
<1>6. JobsIn(q, g, p, e) = JobsIn(q, h, o, e)
  <2>1. CASE e = h[w]
    BY <1>3, <1>4, <1>5, <2>1 DEF JobsIn
  <2>2. CASE e # h[w]
    BY <1>3, <1>4, <1>5, <2>2 DEF JobsIn
  <2> QED
    BY <2>1, <2>2
<1> QED
  BY <1>6 DEF g, p

\* The walk adds a job, or none.
LEMMA AppendAddsOne ==
  ASSUME NEW q \in Seq(Entries), NEW h, NEW o \in [Entries -> Nat], NEW x \in Entries, NEW e \in Entries
  PROVE  JobsIn(Append(q, x), h, o, e) = JobsIn(q, h, o, e) + (IF e = x THEN 1 ELSE 0)
<1>1. Cardinality(Places(Append(q, x), e)) = Cardinality(Places(q, e)) + (IF e = x THEN 1 ELSE 0)
  BY PlacesAppended
<1>2. /\ Cardinality(HoldersIn(h, e)) \in Nat
      /\ Cardinality(Places(q, e)) \in Nat /\ o[e] \in Nat
  BY JobsFacts
<1> QED
  BY <1>1, <1>2 DEF JobsIn

LEMMA JobsAre ==
  ASSUME NEW e
  PROVE  /\ Jobs(e) = JobsIn(queue, held, opened, e)
         /\ Jobs(e)' = JobsIn(queue', held', opened', e)
BY DEF Jobs, JobsIn, Places, HoldersIn

\* The frames of an inverted walk: all but the innermost are done.
Stack(fs) == /\ \A k \in DOMAIN fs : OnWay(mode, fs[k])
             /\ \A k \in DOMAIN fs : k > 1 => Rest(fs[k]) = {}

\* The turns that the frames still have for an entry
LeftIn(fs, e) == IF fs = <<>> THEN {} ELSE Coming(mode, Head(fs), e)

\* Calls and turns to come are no more than the turns.
Fits(n, fs, e) == n + Cardinality(LeftIn(fs, e)) <= Cardinality(Turns(mode, e))

LEMMA TurnsAre ==
  TurnsInv <=> (mode.inverted =>
                  /\ Stack(frames)
                  /\ \A e \in Entries : Fits(asked[e], frames, e) /\ Fits(Jobs(e), frames, e))
BY DEF TurnsInv, Stack, Fits, LeftIn, Top

LEMMA LeftFacts ==
  ASSUME mode \in Modes, mode.inverted, NEW fs \in Seq(Frame), NEW e
  PROVE  /\ IsFiniteSet(LeftIn(fs, e)) /\ Cardinality(LeftIn(fs, e)) \in Nat
         /\ Cardinality(LeftIn(fs, e)) <= Cardinality(Turns(mode, e)) /\ Cardinality(Turns(mode, e)) \in Nat
<1>1. CASE fs = <<>>
  <2>1. First(Start, 0) \in Frame
    BY TreeAssumption DEF First, Frame
  <2>2. Cardinality(Turns(mode, e)) \in Nat
    BY <2>1, ComingFacts
  <2>3. LeftIn(fs, e) = {}
    BY <1>1 DEF LeftIn
  <2> QED
    BY <2>2, <2>3, FS_EmptySet
<1>2. CASE fs # <<>>
  <2>1. Head(fs) \in Frame /\ LeftIn(fs, e) = Coming(mode, Head(fs), e)
    BY <1>2 DEF LeftIn
  <2> QED
    BY <2>1, ComingFacts
<1> QED
  BY <1>1, <1>2

\* What takes nothing from the walk keeps the bound; a call takes a turn.
LEMMA FitsStill ==
  ASSUME mode \in Modes, mode.inverted, NEW fs \in Seq(Frame), NEW gs \in Seq(Frame), NEW e,
         LeftIn(gs, e) \subseteq LeftIn(fs, e), NEW n \in Nat, Fits(n, fs, e)
  PROVE  /\ \A k \in Nat : k <= n => Fits(k, gs, e)
         /\ \A x \in LeftIn(fs, e) : x \notin LeftIn(gs, e) => Fits(n + 1, gs, e)
<1>1. /\ Cardinality(LeftIn(fs, e)) \in Nat /\ Cardinality(LeftIn(gs, e)) \in Nat
      /\ Cardinality(Turns(mode, e)) \in Nat /\ IsFiniteSet(LeftIn(fs, e))
  BY LeftFacts
<1>2. /\ Cardinality(LeftIn(gs, e)) <= Cardinality(LeftIn(fs, e))
      /\ \A x \in LeftIn(fs, e) : x \notin LeftIn(gs, e) =>
           Cardinality(LeftIn(gs, e)) + 1 <= Cardinality(LeftIn(fs, e))
  BY <1>1, TurnTaken
<1>3. PICK a \in Nat : a = Cardinality(LeftIn(fs, e))
  BY <1>1
<1>4. PICK b \in Nat : b = Cardinality(LeftIn(gs, e))
  BY <1>1
<1>5. PICK t \in Nat : t = Cardinality(Turns(mode, e))
  BY <1>1
<1>6. n + a <= t /\ b <= a
  BY <1>2, <1>3, <1>4, <1>5 DEF Fits
<1>7. ASSUME NEW k \in Nat, k <= n
      PROVE  Fits(k, gs, e)
  <2>1. k + b <= t
    BY <1>6, <1>7
  <2> QED
    BY <1>4, <1>5, <2>1 DEF Fits
<1>8. ASSUME NEW x \in LeftIn(fs, e), x \notin LeftIn(gs, e)
      PROVE  Fits(n + 1, gs, e)
  <2>1. b + 1 <= a
    BY <1>2, <1>3, <1>4, <1>8
  <2>2. (n + 1) + b <= t
    BY <1>6, <2>1
  <2> QED
    BY <1>4, <1>5, <2>2 DEF Fits
<1> QED
  BY <1>7, <1>8

\* A frame on top of frames that are done
LEMMA StackPush ==
  ASSUME NEW f \in Frame, NEW fs \in Seq(Frame), OnWay(mode, f),
         \A k \in DOMAIN fs : OnWay(mode, fs[k]) /\ Rest(fs[k]) = {}
  PROVE  /\ Stack(<<f>> \o fs) /\ <<f>> \o fs # <<>> /\ Head(<<f>> \o fs) = f
<1> DEFINE p == <<f>> \o fs
<1>1. /\ p # <<>> /\ Head(p) = f /\ p[1] = f /\ Len(fs) \in Nat /\ DOMAIN p = 1..Len(fs) + 1
      /\ DOMAIN fs = 1..Len(fs) /\ \A k \in 1..Len(fs) + 1 : k > 1 => p[k] = fs[k - 1]
  BY LenProperties
<1> HIDE DEF p
<1>2. \A k \in DOMAIN p : k = 1 \/ (k > 1 /\ k - 1 \in DOMAIN fs /\ p[k] = fs[k - 1])
  BY <1>1
<1>3. Stack(p)
  BY <1>1, <1>2 DEF Stack
<1> QED
  BY <1>1, <1>3 DEF p

\* The loops after a move of the walk
LEMMA StackMoves ==
  ASSUME Walking, mode \in Modes, mode.inverted, Stack(frames)
  PROVE  /\ Stack(Tail(frames)) /\ \A e : LeftIn(Tail(frames), e) = {}
         /\ AtEntry => /\ Stack(Advanced)
                       /\ \A e : LeftIn(Advanced, e) \subseteq LeftIn(frames, e)
                       /\ Top.up \in LeftIn(frames, Entry) /\ Top.up \notin LeftIn(Advanced, Entry)
<1> DEFINE g == [Top EXCEPT !.next = @ + 1]
<1>1. /\ frames \in Seq(Frame) /\ frames # <<>> /\ Top \in Frame /\ Top = frames[1]
      /\ Tail(frames) \in Seq(Frame)
  BY FrameFacts DEF Walking, Top
<1>2. /\ Len(frames) \in Nat \ {0} /\ DOMAIN frames = 1..Len(frames)
      /\ DOMAIN Tail(frames) = 1..Len(frames) - 1
      /\ \A k \in 1..Len(frames) - 1 : Tail(frames)[k] = frames[k + 1]
  BY <1>1, HeadTailProperties, EmptySeq, LenProperties
<1>3. \A k \in DOMAIN Tail(frames) : OnWay(mode, Tail(frames)[k]) /\ Rest(Tail(frames)[k]) = {}
  <2> SUFFICES ASSUME NEW k \in DOMAIN Tail(frames)
               PROVE  OnWay(mode, Tail(frames)[k]) /\ Rest(Tail(frames)[k]) = {}
    OBVIOUS
  <2>1. k + 1 \in DOMAIN frames /\ k + 1 > 1 /\ Tail(frames)[k] = frames[k + 1]
    BY <1>2
  <2> QED
    BY <2>1 DEF Stack
<1>4. Stack(Tail(frames))
  BY <1>3 DEF Stack
<1>5. \A e : LeftIn(Tail(frames), e) = {}
  <2>1. Tail(frames) # <<>> => 1 \in DOMAIN Tail(frames) /\ Head(Tail(frames)) = Tail(frames)[1]
    BY <1>1, EmptySeq, LenProperties, HeadTailProperties
  <2> QED
    BY <1>3, <2>1 DEF LeftIn, Coming
<1>6. OnWay(mode, Top)
  BY <1>1, <1>2 DEF Stack
<1>7. ASSUME AtEntry
      PROVE  /\ OnWay(mode, g) /\ g \in Frame
             /\ \A e : Coming(mode, g, e) \subseteq Coming(mode, Top, e)
             /\ Top.up \notin Coming(mode, g, Entry) /\ Top.up \in Coming(mode, Top, Entry)
  BY <1>1, <1>6, <1>7, ComingNext DEF AtEntry, Listing, Entry
<1>8. Advanced = <<g>> \o Tail(frames)
  BY DEF Advanced
<1> HIDE DEF g
<1>9. ASSUME AtEntry
      PROVE  /\ Stack(Advanced) /\ Advanced # <<>> /\ Head(Advanced) = g
  <2>1. g \in Frame /\ OnWay(mode, g)
    BY <1>7, <1>9
  <2> QED
    BY <1>1, <1>3, <1>8, <2>1, StackPush
<1>10. \A e : LeftIn(frames, e) = Coming(mode, Top, e)
  BY <1>1 DEF LeftIn, Top
<1>11. ASSUME AtEntry
       PROVE  \A e : LeftIn(Advanced, e) = Coming(mode, g, e)
  BY <1>9, <1>11 DEF LeftIn
<1> QED
  BY <1>4, <1>5, <1>7, <1>9, <1>10, <1>11

LEMMA StackUp ==
  ASSUME AtEntry, mode \in Modes, mode.inverted, Stack(frames), Top.next = Len(Listing), NEW f \in Above
  PROVE  /\ Stack(<<f>> \o Advanced)
         /\ \A e : LeftIn(<<f>> \o Advanced, e) \subseteq LeftIn(frames, e)
         /\ Top.up \notin LeftIn(<<f>> \o Advanced, Entry)
<1> DEFINE g == [Top EXCEPT !.next = @ + 1]
<1>1. /\ Walking /\ frames \in Seq(Frame) /\ frames # <<>> /\ Top \in Frame /\ Top = frames[1]
      /\ Tail(frames) \in Seq(Frame) /\ Advanced \in Seq(Frame) /\ 1 \in DOMAIN frames
  BY FrameFacts DEF AtEntry, Walking, Top
<1>2. OnWay(mode, Top)
  BY <1>1 DEF Stack
<1>3. /\ OnWay(mode, f) /\ f \in Frame
      /\ \A e : Coming(mode, f, e) \subseteq Coming(mode, Top, e)
      /\ Top.up \notin Coming(mode, f, Entry)
  BY <1>1, <1>2, ComingUp
<1>4. Stack(Advanced)
  BY <1>1, StackMoves
<1>5. Rest(g) = {}
  <2>1. /\ Top.next \in Nat /\ g.dir = Top.dir /\ g.next = Top.next + 1
        /\ Len(Children[Top.dir]) \in Nat /\ Top.next = Len(Children[Top.dir])
    BY <1>1, TreeFacts DEF Frame, Listing
  <2>2. g.next..Len(Children[g.dir]) = {}
    BY <2>1
  <2> QED
    BY <2>2 DEF Rest
<1>6. Advanced = <<g>> \o Tail(frames) /\ g \in Frame
  <2>1. \A h \in Frame : [h EXCEPT !.next = @ + 1] \in Frame
    BY DEF Frame
  <2> QED
    BY <1>1, <2>1 DEF Advanced
<1> HIDE DEF g
<1>7. Advanced # <<>> /\ Advanced[1] = g
  BY <1>1, <1>6
<1>8. \A k \in DOMAIN Advanced : OnWay(mode, Advanced[k]) /\ Rest(Advanced[k]) = {}
  <2>1. \A k \in DOMAIN Advanced : k \in Nat \ {0}
    BY <1>1
  <2>2. \A k \in DOMAIN Advanced : k = 1 \/ k > 1
    BY <2>1
  <2> QED
    BY <1>4, <1>5, <1>7, <2>2 DEF Stack
<1>9. Stack(<<f>> \o Advanced) /\ <<f>> \o Advanced # <<>> /\ Head(<<f>> \o Advanced) = f
  BY <1>1, <1>3, <1>8, StackPush
<1>10. \A e : LeftIn(<<f>> \o Advanced, e) = Coming(mode, f, e) /\ LeftIn(frames, e) = Coming(mode, Top, e)
  BY <1>1, <1>9 DEF LeftIn, Top
<1> QED
  BY <1>3, <1>9, <1>10

\* A walk that does not climb is clean.
LEMMA DownClean ==
  ASSUME CleanInv, ~mode.inverted
  PROVE  EntriesInv /\ Separate(mode, frames)
BY DEF CleanInv, Clean, EntriesInv, AheadInv

LEMMA InitTurns == Init => TurnsInv
<1> SUFFICES ASSUME Init, mode.inverted
             PROVE  /\ Stack(frames)
                    /\ \A e \in Entries : Fits(asked[e], frames, e) /\ Fits(Jobs(e), frames, e)
  BY TurnsAre
<1>1. /\ frames = <<First(Start, 0)>> /\ mode \in Modes /\ First(Start, 0) \in Frame
      /\ queue = <<>> /\ held = [w \in Workers |-> NoEntry]
  BY TreeAssumption DEF Init, First, Frame
<1>2. OnWay(mode, First(Start, 0))
  BY <1>1, WayFacts DEF OnWay, First, Climbed
<1>3. Stack(frames)
  BY <1>1, <1>2 DEF Stack
<1>4. ASSUME NEW e \in Entries
      PROVE  asked[e] = 0 /\ Jobs(e) = 0
  <2>1. Places(queue, e) = {}
    BY <1>1 DEF Places
  <2>2. HoldersIn(held, e) = {}
    BY <1>1, WorkersAssumption DEF HoldersIn
  <2>3. asked[e] = 0 /\ opened[e] = 0
    BY DEF Init
  <2>4. Jobs(e) = 0 + 0 + 0
    BY <2>1, <2>2, <2>3, JobsAre, FS_EmptySet DEF JobsIn
  <2> QED
    BY <2>3, <2>4
<1>5. ASSUME NEW e \in Entries
      PROVE  Fits(0, frames, e)
  <2>1. frames \in Seq(Frame)
    BY <1>1
  <2>2. PICK a \in Nat : a = Cardinality(LeftIn(frames, e))
    BY <1>1, <2>1, LeftFacts
  <2>3. a <= Cardinality(Turns(mode, e))
    BY <1>1, <2>1, <2>2, LeftFacts
  <2> QED
    BY <2>2, <2>3 DEF Fits
<1> QED
  BY <1>3, <1>4, <1>5

\* A step that asks and queues nothing, and leaves no more than there was
LEMMA TurnsKept ==
  ASSUME IInv, TurnsInv, [Next]_vars, mode' = mode, asked' = asked, frames' \in Seq(Frame),
         mode.inverted => /\ Stack(frames')
                          /\ \A e \in Entries : LeftIn(frames', e) \subseteq LeftIn(frames, e),
         \A e \in Entries : Jobs(e)' \in Nat /\ Jobs(e)' <= Jobs(e)
  PROVE  TurnsInv'
<1> SUFFICES ASSUME mode.inverted
             PROVE  /\ Stack(frames')
                    /\ \A e \in Entries : Fits(asked[e], frames', e) /\ Fits(Jobs(e)', frames', e)
  BY DEF TurnsInv, Stack, Fits, LeftIn, Top, OnWay, Turns, Coming, Climbed
<1>1. /\ mode \in Modes /\ frames \in Seq(Frame) /\ asked \in [Entries -> Nat]
      /\ \A e \in Entries : Jobs(e) \in Nat
  BY JobsFacts, JobsAre DEF IInv, TypeOK
<1>2. ASSUME NEW e \in Entries
      PROVE  Fits(asked[e], frames', e) /\ Fits(Jobs(e)', frames', e)
  <2>1. Fits(asked[e], frames, e) /\ Fits(Jobs(e), frames, e)
    BY TurnsAre
  <2>2. asked[e] \in Nat /\ Jobs(e) \in Nat /\ LeftIn(frames', e) \subseteq LeftIn(frames, e)
    BY <1>1
  <2>3. \A k \in Nat : k <= asked[e] => Fits(k, frames', e)
    BY <1>1, <2>1, <2>2, FitsStill
  <2>4. \A k \in Nat : k <= Jobs(e) => Fits(k, frames', e)
    BY <1>1, <2>1, <2>2, FitsStill
  <2> QED
    BY <2>2, <2>3, <2>4
<1> QED
  BY <1>2

\* The QUEUING call takes a turn of the entry, and so does the job.
LEMMA VisitTurns ==
  ASSUME IInv, TurnsInv, [Next]_vars, NEW ans \in Answers, NEW isDir \in BOOLEAN, NEW exists \in BOOLEAN,
         Visit(ans, isDir, exists)
  PROVE  TurnsInv'
<1>1. mode' = mode /\ held' = held /\ opened' = opened
  BY DEF Visit
<1> SUFFICES ASSUME mode.inverted
             PROVE  /\ Stack(frames')
                    /\ \A e \in Entries : Fits(asked'[e], frames', e) /\ Fits(Jobs(e)', frames', e)
  BY <1>1 DEF TurnsInv, Stack, Fits, LeftIn, Top, OnWay, Turns, Coming, Climbed
<1>2. /\ mode \in Modes /\ frames \in Seq(Frame) /\ asked \in [Entries -> Nat]
      /\ queue \in Seq(Entries) /\ opened \in [Entries -> Nat]
      /\ \A e \in Entries : Jobs(e) \in Nat
  BY JobsFacts, JobsAre DEF IInv, TypeOK
<1>3. AtEntry /\ Walking /\ Entry \in Entries /\ Obey(ans, isDir, exists) /\ frames' \in Seq(Frame)
  BY PoolFrames, EntryPlace, ObeyFacts DEF Visit
<1>4. Stack(frames) /\ \A e \in Entries : Fits(asked[e], frames, e) /\ Fits(Jobs(e), frames, e)
  BY TurnsAre
<1>5. Top.up \in LeftIn(frames, Entry)
  BY <1>2, <1>3, <1>4, StackMoves
<1>6. /\ Stack(frames') /\ Top.up \notin LeftIn(frames', Entry)
      /\ \A e : LeftIn(frames', e) \subseteq LeftIn(frames, e)
      /\ queue' = queue \/ queue' = Append(queue, Entry)
  <2>1. CASE ans \in {"STOP", "ABORT"}
    <3>1. frames' = Tail(frames) /\ queue' = queue
      BY <1>3, <2>1 DEF Obey, Resume
    <3> QED
      BY <1>2, <1>3, <1>4, <3>1, StackMoves
  <2>2. CASE ans = "SKIP"
    <3>1. frames' = Advanced /\ queue' = queue
      BY <1>3, <2>2 DEF Obey, Resume
    <3> QED
      BY <1>2, <1>3, <1>4, <3>1, StackMoves
  <2>3. CASE ans = "CONTINUE"
    <3>1. DescendOrOpen(isDir, exists)
      BY <1>3, <2>3 DEF Obey
    <3>2. frames' = Advanced \/ \E f \in Goal(isDir) : frames' = <<f>> \o Advanced
      BY <3>1 DEF DescendOrOpen, Resume
    <3>3. queue' = queue \/ queue' = Append(queue, Entry)
      BY <3>1 DEF DescendOrOpen
    <3>4. CASE frames' = Advanced
      BY <1>2, <1>3, <1>4, <3>3, <3>4, StackMoves
    <3>5. ASSUME NEW f \in Goal(isDir), frames' = <<f>> \o Advanced
          PROVE  /\ Stack(frames') /\ Top.up \notin LeftIn(frames', Entry)
                 /\ \A e : LeftIn(frames', e) \subseteq LeftIn(frames, e)
      <4>1. Climbs(isDir) /\ f \in Above
        BY <1>2, <1>3, GoalFacts DEF Deeper
      <4>2. Top.next = Len(Listing)
        BY <4>1 DEF Climbs
      <4> QED
        BY <1>2, <1>3, <1>4, <3>5, <4>1, <4>2, StackUp
    <3> QED
      BY <3>2, <3>3, <3>4, <3>5
  <2> QED
    BY <2>1, <2>2, <2>3 DEF Answers
<1>7. ASSUME NEW e \in Entries
      PROVE  asked'[e] \in {asked[e], asked[e] + (IF e = Entry THEN 1 ELSE 0)}
  <2>1. asked' = asked \/ asked' = [asked EXCEPT ![Entry] = @ + 1]
    BY DEF Visit
  <2> QED
    BY <1>2, <1>3, <2>1
<1>8. ASSUME NEW e \in Entries
      PROVE  Jobs(e)' \in {Jobs(e), Jobs(e) + (IF e = Entry THEN 1 ELSE 0)}
  <2>1. Jobs(e)' = JobsIn(queue', held, opened, e) /\ Jobs(e) = JobsIn(queue, held, opened, e)
    BY <1>1, JobsAre
  <2>2. JobsIn(Append(queue, Entry), held, opened, e)
          = JobsIn(queue, held, opened, e) + (IF e = Entry THEN 1 ELSE 0)
    BY <1>2, <1>3, AppendAddsOne
  <2> QED
    BY <1>6, <2>1, <2>2
<1>9. ASSUME NEW e \in Entries, NEW n \in Nat, NEW k \in {n, n + (IF e = Entry THEN 1 ELSE 0)},
             Fits(n, frames, e)
      PROVE  Fits(k, frames', e)
  <2>1. /\ \A i \in Nat : i <= n => Fits(i, frames', e)
        /\ \A x \in LeftIn(frames, e) : x \notin LeftIn(frames', e) => Fits(n + 1, frames', e)
    BY <1>2, <1>3, <1>6, <1>9, FitsStill
  <2>2. k = n \/ (e = Entry /\ k = n + 1)
    BY <1>9
  <2> QED
    BY <1>5, <1>6, <2>1, <2>2
<1>10. ASSUME NEW e \in Entries
       PROVE  Fits(asked'[e], frames', e) /\ Fits(Jobs(e)', frames', e)
  <2>1. asked[e] \in Nat /\ Jobs(e) \in Nat
    BY <1>2
  <2> QED
    BY <1>4, <1>7, <1>8, <1>9, <2>1
<1> QED
  BY <1>6, <1>10

LEMMA TurnsPreserved == IInv /\ TurnsInv /\ [Next]_vars => TurnsInv'
<1> SUFFICES ASSUME IInv, TurnsInv, [Next]_vars PROVE TurnsInv'
    OBVIOUS
<1>1. mode \in Modes /\ frames \in Seq(Frame) /\ frames' \in Seq(Frame)
  BY TypePreserved DEF IInv, TypeOK
<1>2. mode.inverted => Stack(frames)
  BY TurnsAre
\* Whoever leaves the jobs alone
<1>3. ASSUME queue' = queue, held' = held, opened' = opened, NEW e \in Entries
      PROVE  Jobs(e)' \in Nat /\ Jobs(e)' <= Jobs(e)
  <2>1. Jobs(e)' = JobsIn(queue, held, opened, e) /\ Jobs(e) = JobsIn(queue, held, opened, e)
    BY <1>3, JobsAre
  <2>2. JobsIn(queue, held, opened, e) \in Nat
    BY JobsFacts DEF IInv, TypeOK
  <2> QED
    BY <2>1, <2>2
<1>4. ASSUME \/ frames' = frames
             \/ walker = "check" /\ frames' = Tail(frames)
             \/ walker = "call" /\ frames' = Advanced
             \/ frames' = <<>>,
             mode.inverted
      PROVE  /\ Stack(frames')
             /\ \A e \in Entries : LeftIn(frames', e) \subseteq LeftIn(frames, e)
  <2>1. CASE frames' = frames
    BY <1>2, <1>4, <2>1
  <2>2. CASE walker = "check" /\ frames' = Tail(frames)
    <3>1. Walking
      BY <2>2, PoolFrames
    <3> QED
      BY <1>1, <1>2, <1>4, <2>2, <3>1, StackMoves
  <2>3. CASE walker = "call" /\ frames' = Advanced
    <3>1. Walking /\ AtEntry
      BY <2>3, PoolFrames
    <3> QED
      BY <1>1, <1>2, <1>4, <2>3, <3>1, StackMoves
  <2>4. CASE frames' = <<>>
    BY <2>4 DEF Stack, LeftIn
  <2> QED
    BY <1>4, <2>1, <2>2, <2>3, <2>4
<1>5. CASE ListingEnd \/ CheckAbort
  <2>1. /\ mode' = mode /\ asked' = asked /\ queue' = queue /\ held' = held /\ opened' = opened
        /\ frames' = frames \/ (walker = "check" /\ frames' = Tail(frames))
    BY <1>5 DEF ListingEnd, CheckAbort, Resume
  <2> QED
    BY <1>1, <1>3, <1>4, <2>1, TurnsKept
<1>6. CASE Filter
  <2>1. /\ mode' = mode /\ asked' = asked /\ queue' = queue /\ held' = held /\ opened' = opened
        /\ walker = "call" /\ frames' = Advanced
    BY <1>6 DEF Filter, Resume
  <2> QED
    BY <1>1, <1>3, <1>4, <2>1, TurnsKept
<1>7. CASE WalkThrows \/ StoreAbort \/ (\E w \in Workers : StoreOpened(w)) \/ UNCHANGED vars
  <2>1. /\ mode' = mode /\ asked' = asked /\ queue' = queue /\ held' = held /\ opened' = opened
        /\ frames' = frames \/ frames' = <<>>
    BY <1>7 DEF WalkThrows, StoreAbort, StoreOpened, vars, Resume
  <2> QED
    BY <1>1, <1>3, <1>4, <2>1, TurnsKept
<1>8. ASSUME NEW w \in Workers, Take(w)
      PROVE  TurnsInv'
  <2>1. /\ mode' = mode /\ asked' = asked /\ frames' = frames /\ opened' = opened
        /\ queue' = Tail(queue) /\ queue # <<>> /\ held[w] = NoEntry
        /\ held' = held \/ held' = [held EXCEPT ![w] = Head(queue)]
        /\ queue \in Seq(Entries) /\ opened \in [Entries -> Nat]
        /\ held \in [Workers -> Entries \cup {NoEntry}]
        /\ Tail(queue) \in Seq(Entries)
    BY <1>8 DEF Take, IInv, TypeOK
  <2>2. ASSUME NEW e \in Entries
        PROVE  Jobs(e)' \in Nat /\ Jobs(e)' <= Jobs(e)
    <3>1. Jobs(e)' = JobsIn(queue', held', opened', e) /\ Jobs(e) = JobsIn(queue, held, opened, e)
      BY JobsAre
    <3>2. JobsIn(Tail(queue), held', opened, e) \in Nat
      BY <2>1, JobsFacts
    <3>3. /\ JobsIn(Tail(queue), held, opened, e) <= JobsIn(queue, held, opened, e)
          /\ JobsIn(Tail(queue), [held EXCEPT ![w] = Head(queue)], opened, e) <= JobsIn(queue, held, opened, e)
      BY <2>1, TakeAddsNone
    <3> QED
      BY <2>1, <3>1, <3>2, <3>3
  <2> QED
    BY <1>1, <1>4, <2>1, <2>2, TurnsKept
<1>9. ASSUME NEW w \in Workers, NEW ans \in Answers, Open(w, ans)
      PROVE  TurnsInv'
  <2>1. /\ mode' = mode /\ asked' = asked /\ frames' = frames /\ queue' = queue
        /\ held[w] # NoEntry /\ held' = [held EXCEPT ![w] = NoEntry]
        /\ opened' = [opened EXCEPT ![held[w]] = @ + 1]
        /\ queue \in Seq(Entries) /\ opened \in [Entries -> Nat]
        /\ held \in [Workers -> Entries \cup {NoEntry}]
    BY <1>9 DEF Open, IInv, TypeOK
  <2>2. ASSUME NEW e \in Entries
        PROVE  Jobs(e)' \in Nat /\ Jobs(e)' <= Jobs(e)
    <3>1. Jobs(e)' = JobsIn(queue', held', opened', e) /\ Jobs(e) = JobsIn(queue, held, opened, e)
      BY JobsAre
    <3>2. JobsIn(queue', held', opened', e) = JobsIn(queue, held, opened, e)
      BY <2>1, OpenAddsNone
    <3>3. JobsIn(queue, held, opened, e) \in Nat
      BY <2>1, JobsFacts
    <3> QED
      BY <3>1, <3>2, <3>3
  <2> QED
    BY <1>1, <1>4, <2>1, <2>2, TurnsKept
<1> QED
  BY <1>5, <1>6, <1>7, <1>8, <1>9, VisitTurns DEF Next, WalkerStep, WorkerStep, Terminated

\* Whatever the walk and the workers do, an entry is asked about and opened no
\* more often than the walk comes to its directory: once, unless the start path
\* is spelled so that an inverted walk climbs to a directory twice.
THEOREM MetOnce == SafetySpec => []OnceEach
<1>1. IInv /\ TurnsInv /\ CleanInv => OnceEach
  <2> SUFFICES ASSUME IInv, TurnsInv, CleanInv, NEW e \in Entries
               PROVE  /\ asked[e] <= Cardinality(Turns(mode, e))
                      /\ opened[e] <= Cardinality(Turns(mode, e))
    BY DEF OnceEach
  <2>1. CASE mode.inverted
    <3>1. Fits(asked[e], frames, e) /\ Fits(Jobs(e), frames, e)
      BY <2>1, TurnsAre
    <3>2. /\ mode \in Modes /\ frames \in Seq(Frame) /\ asked[e] \in Nat /\ opened[e] \in Nat
          /\ Jobs(e) \in Nat /\ opened[e] <= Jobs(e)
      BY JobsFacts, JobsAre DEF IInv, TypeOK
    <3>3. Cardinality(LeftIn(frames, e)) \in Nat /\ Cardinality(Turns(mode, e)) \in Nat
      BY <2>1, <3>2, LeftFacts
    <3> QED
      BY <3>1, <3>2, <3>3 DEF Fits
  <2>2. CASE ~mode.inverted
    <3>1. asked[e] <= 1 /\ opened[e] <= 1
      BY <2>2, DownClean DEF EntriesInv, MetOnceInv
    <3>2. Turns(mode, e) = {0}
      BY <2>2 DEF Turns
    <3>3. IsFiniteSet({}) /\ Cardinality({}) = 0 /\ {0} = {} \cup {0}
      BY FS_EmptySet
    <3>4. Cardinality({0}) = 1
      BY <3>3, FS_AddElement
    <3> QED
      BY <3>1, <3>2, <3>4
  <2> QED
    BY <2>1, <2>2
<1>2. SafetySpec => []TurnsInv
  <2>1. Init => TurnsInv
    BY InitTurns
  <2> QED
    BY <2>1, TurnsPreserved, Invariance, PTL DEF SafetySpec
<1> QED
  BY <1>1, <1>2, Invariance, EntriesInvariance, PTL

-----------------------------------------------------------------------------
(* With a pool: what an undisturbed walk leaves undone *)

\* What is opened, be it wanted or not
ToOpen == Wanted \cup Unwanted

LEMMA ToOpenFacts ==
  /\ ToOpen = VisibleIn(InReach) \ (IF mode.recursive THEN Dirs ELSE {})
  /\ ToOpen \subseteq Entries /\ ToOpen \subseteq VisibleIn(InReach)
<1>1. ToOpen = VisibleIn(InReach) \ (IF mode.recursive THEN Dirs ELSE {})
  BY DEF ToOpen, Wanted, Unwanted
<1>2. VisibleIn(InReach) \subseteq Entries
  BY DEF VisibleIn
<1> QED
  BY <1>1, <1>2

LEMMA InitComplete == Init => CompleteInv
<1> SUFFICES ASSUME Init PROVE CompleteInv
    OBVIOUS
<1>1. /\ frames = <<First(Start, 0)>> /\ queue = <<>> /\ NoEntry \notin Entries
      /\ held = [w \in Workers |-> NoEntry] /\ opened = [e \in Entries |-> 0]
      /\ ~abort /\ aborting = {} /\ walker = "check" /\ First(Start, 0).dir = Start /\ First(Start, 0).next = 1 /\ Start \in Dirs
  BY WorkersAssumption, TreeAssumption DEF Init, First
<1>2. \A k \in DOMAIN frames : frames[k].dir \in InReach
  BY <1>1, ReachFacts DEF InReach
<1>3. \A e \in Entries : ~Waiting(e) /\ opened[e] = 0
  <2>1. Range(queue) = {}
    BY <1>1 DEF Range
  <2> QED
    BY <1>1, <2>1 DEF Waiting
<1>4. ASSUME ~mode.inverted, NEW e \in ToOpen
      PROVE  e \in AheadOf(mode, frames)
  <2>1. Rest(First(Start, 0)) = Range(Children[Start])
    BY <1>1, RestFirst
  <2>2. AheadOf(mode, frames) = Ahead(mode, First(Start, 0))
    <3>1. DOMAIN frames = {1} /\ frames[1] = First(Start, 0)
      BY <1>1
    <3> QED
      BY <3>1 DEF AheadOf
  <2>3. AheadOf(mode, frames) = Below[Start]
    BY <1>1, <1>4, <2>1, <2>2, BelowUnfolds DEF Ahead
  <2>4. CASE mode.recursive
    <3>1. PICK p \in DirsInReach : e \in Range(Children[p])
      BY <1>4, <2>4, ToOpenFacts DEF InReach, VisibleIn, Parents
    <3> QED
      BY <1>1, <2>3, <3>1, ReachIsBelow, ReachFacts, BelowFacts
  <2>5. CASE ~mode.recursive
    <3>1. e \in Range(Children[Start])
      BY <1>4, <2>5, ToOpenFacts DEF InReach, VisibleIn, Parents
    <3> QED
      BY <1>1, <2>3, <3>1, BelowFacts
  <2> QED
    BY <2>4, <2>5
<1> QED
  BY <1>1, <1>2, <1>3, <1>4 DEF CompleteInv, ToOpen

\* A step of the walking thread, seen through what it does to the frames.
LEMMA CompleteKept ==
  ASSUME CompleteInv, mode' = mode, disturbed => disturbed',
         abort' \/ aborting' # {} \/ walker' = "abort" => disturbed',
         ~disturbed' /\ ~mode.inverted =>
           /\ \A k \in DOMAIN frames' : frames'[k].dir \in InReach
           /\ \A e \in Entries : Waiting(e)' \/ opened'[e] > 0
                                   => Waiting(e) \/ opened[e] > 0 \/ e \in ToOpen
           /\ \A e \in ToOpen : Waiting(e) \/ opened[e] > 0 => Waiting(e)' \/ opened'[e] > 0
           /\ \A e \in ToOpen : e \in AheadOf(mode, frames)
                => Waiting(e)' \/ opened'[e] > 0 \/ e \in AheadOf(mode, frames')
  PROVE  CompleteInv'
<1> SUFFICES ASSUME ~disturbed', ~mode.inverted
             PROVE  /\ \A k \in DOMAIN frames' : frames'[k].dir \in InReach
                    /\ \A e \in Entries : Waiting(e)' \/ opened'[e] > 0 => e \in ToOpen
                    /\ \A e \in ToOpen : Waiting(e)' \/ opened'[e] > 0 \/ e \in AheadOf(mode, frames')
  BY DEF CompleteInv, InReach, ToOpen, Wanted, Unwanted
<1>1. ~disturbed
  OBVIOUS
<1>2. /\ \A e \in Entries : Waiting(e) \/ opened[e] > 0 => e \in ToOpen
      /\ \A e \in ToOpen : Waiting(e) \/ opened[e] > 0 \/ e \in AheadOf(mode, frames)
  BY <1>1 DEF CompleteInv, ToOpen
<1> QED
  BY <1>2

\* An undisturbed visit queues what it does not enter.
LEMMA VisitComplete ==
  ASSUME IInv, CleanInv, CompleteInv, NEW ans \in Answers, NEW isDir \in BOOLEAN,
         NEW exists \in BOOLEAN, Visit(ans, isDir, exists)
  PROVE  CompleteInv'
<1>1. /\ walker = "call" /\ AtEntry /\ Walking /\ mode' = mode /\ held' = held /\ opened' = opened
      /\ mode \in Modes /\ Entry \notin Hidden
  BY PoolFrames, EntryPlace DEF Visit, IInv, TypeOK
<1>2. (abort' \/ aborting' # {} \/ walker' = "abort" => disturbed') /\ (disturbed => disturbed')
  <2>1. walker' = "abort" => ans # "CONTINUE"
    BY <1>1, ObeyFacts DEF Visit
  <2> QED
    BY <2>1 DEF Visit, CompleteInv
<1>3. ASSUME ~disturbed', ~mode.inverted
      PROVE  /\ \A k \in DOMAIN frames' : frames'[k].dir \in InReach
             /\ \A e \in Entries : Waiting(e)' \/ opened'[e] > 0
                                     => Waiting(e) \/ opened[e] > 0 \/ e \in ToOpen
             /\ \A e \in ToOpen : Waiting(e) \/ opened[e] > 0 => Waiting(e)' \/ opened'[e] > 0
             /\ \A e \in ToOpen : e \in AheadOf(mode, frames)
                  => Waiting(e)' \/ opened'[e] > 0 \/ e \in AheadOf(mode, frames')
  <2>0. Separate(mode, frames)
    BY <1>3, DownClean
  <2>1. /\ ans = "CONTINUE" /\ exists /\ isDir = (Entry \in Dirs) /\ ~disturbed
        /\ DescendOrOpen(isDir, exists) /\ queue \in Seq(Entries)
    BY <1>3 DEF Visit, Obey, IInv, TypeOK
  <2>2. \A k \in DOMAIN frames : frames[k].dir \in InReach
    BY <1>3, <2>1 DEF CompleteInv
  <2>3. /\ Top.dir \in InReach
        /\ \A k \in DOMAIN Advanced : Advanced[k].dir \in InReach
        /\ \A f \in Frame : f.dir \in InReach =>
             \A k \in DOMAIN (<<f>> \o Advanced) : (<<f>> \o Advanced)[k].dir \in InReach
    BY <1>1, <2>2, InReachAreDirs, FramesIn
  <2>4. Entry \in Entries /\ Top.dir \in Dirs /\ Entry \in Range(Children[Top.dir])
    BY <1>1, EntryPlace
  <2>5. CASE Deeper(isDir)
    <3> DEFINE f == First(Entry, Top.up)
    <3>1. Entry \in Dirs /\ mode.recursive /\ Goal(isDir) = {f} /\ queue' = queue
      BY <2>1, <2>5 DEF Deeper, Goal, DescendOrOpen
    <3>2. frames' = <<f>> \o Advanced
      BY <2>1, <3>1 DEF DescendOrOpen, Resume
    <3>3. Entry \in InReach
      BY <1>1, <2>3, <2>4, <3>1, ReachFacts DEF InReach
    <3>4. /\ AheadOf(mode, frames') = Below[Entry] \cup AheadOf(mode, Advanced)
          /\ f \in Frame /\ f.dir = Entry
      BY <1>1, <1>3, <2>0, <2>4, <3>1, <3>2, DeeperAhead
    <3> HIDE DEF f
    <3>5. ASSUME NEW e \in ToOpen, e \in AheadOf(mode, frames)
          PROVE  e \in AheadOf(mode, frames')
      <4>1. e # Entry
        BY <3>1, ToOpenFacts
      <4>2. AheadOf(mode, frames) = Subtree(Entry) \cup AheadOf(mode, Advanced)
        BY <1>1, <1>3, <2>0, AdvanceUnfolds
      <4> QED
        BY <3>1, <3>4, <3>5, <4>1, <4>2 DEF Subtree
    <3>6. \A e \in Entries : Waiting(e)' <=> Waiting(e)
      BY <1>1, <3>1 DEF Waiting
    <3> QED
      BY <1>1, <2>3, <3>2, <3>3, <3>4, <3>5, <3>6, ToOpenFacts
  <2>6. CASE ~Deeper(isDir)
    <3>1. Goal(isDir) = {} /\ ~Climbs(isDir) /\ queue' = Append(queue, Entry)
      BY <1>3, <2>1, <2>6 DEF Goal, Climbs, DescendOrOpen
    <3>2. frames' = Advanced
      BY <2>1, <3>1 DEF DescendOrOpen, Resume
    <3>3. Range(queue') = Range(queue) \cup {Entry}
      BY <2>1, <2>4, <3>1, AppendRange
    <3>4. \A e \in Entries : Waiting(e)' <=> Waiting(e) \/ e = Entry
      BY <1>1, <3>3 DEF Waiting
    <3>5. Entry \in Dirs => ~mode.recursive
      BY <1>3, <2>1, <2>6 DEF Deeper
    <3>6. Entry \in ToOpen
      BY <1>1, <2>3, <2>4, <3>5, ToOpenFacts DEF VisibleIn, Parents
    <3>7. ASSUME NEW e \in ToOpen, e \in AheadOf(mode, frames), e \notin AheadOf(mode, Advanced)
          PROVE  e = Entry
      BY <1>1, <1>3, <2>0, <2>3, <3>5, <3>7, ToOpenFacts, AdvanceLeaves
    <3> QED
      BY <1>1, <2>3, <2>4, <3>2, <3>4, <3>6, <3>7, ToOpenFacts
  <2> QED
    BY <2>5, <2>6
<1> QED
  BY <1>1, <1>2, <1>3, CompleteKept

LEMMA CompletePreserved == IInv /\ CleanInv /\ CompleteInv /\ [Next]_vars => CompleteInv'
<1> SUFFICES ASSUME IInv, CleanInv, CompleteInv, [Next]_vars PROVE CompleteInv'
    OBVIOUS
<1>0. /\ ~mode.inverted => Separate(mode, frames)
      /\ abort \/ aborting # {} \/ walker = "abort" => disturbed
      /\ ~disturbed /\ ~mode.inverted => \A k \in DOMAIN frames : frames[k].dir \in InReach
      /\ mode \in Modes
  BY DownClean DEF CompleteInv, InReach, IInv, TypeOK
<1>1. CASE ListingEnd
  <2>1. /\ frames' = Tail(frames) /\ walker = "check" /\ Top.next > Len(Children[Top.dir])
        /\ walker' # "abort"
    BY <1>1 DEF ListingEnd, Resume, Listing
  <2>2. ~disturbed /\ ~mode.inverted => \A k \in DOMAIN frames' : frames'[k].dir \in InReach
    BY <1>0, <2>1, PoolFrames, InReachAreDirs, FramesIn
  <2>3. ~mode.inverted => AheadOf(mode, frames') = AheadOf(mode, frames)
    BY <1>1, <2>1, PoolFrames, EndAhead DEF ListingEnd
  <2>4. /\ mode' = mode /\ queue' = queue /\ held' = held /\ opened' = opened
        /\ disturbed' = disturbed /\ abort' = abort /\ aborting' = aborting
    BY <1>1 DEF ListingEnd
  <2>5. \A e \in Entries : Waiting(e)' <=> Waiting(e)
    BY <2>4 DEF Waiting
  <2>6. abort' \/ aborting' # {} \/ walker' = "abort" => disturbed'
    BY <1>0, <2>1, <2>4
  <2> QED
    BY <2>2, <2>3, <2>4, <2>5, <2>6, ToOpenFacts, CompleteKept
<1>2. CASE CheckAbort
  <2>1. CASE abort
    <3>1. disturbed' /\ mode' = mode
      BY <1>0, <1>2, <2>1 DEF CheckAbort
    <3> QED
      BY <3>1 DEF CompleteInv
  <2>2. CASE ~abort
    BY <1>0, <1>2, <2>2, CompleteKept DEF CheckAbort, Waiting
  <2> QED
    BY <2>1, <2>2
<1>3. CASE Filter
  <2>1. /\ frames' = Advanced /\ walker = "call" /\ Entry \in Hidden
        /\ mode' = mode /\ queue' = queue /\ held' = held /\ opened' = opened
        /\ disturbed' = disturbed /\ abort' = abort /\ aborting' = aborting /\ walker' # "abort"
    BY <1>3 DEF Filter, Resume
  <2>2. ASSUME ~disturbed, ~mode.inverted
        PROVE  /\ \A k \in DOMAIN frames' : frames'[k].dir \in InReach
               /\ \A e \in ToOpen : e \in AheadOf(mode, frames) => e \in AheadOf(mode, frames')
    <3>1. Top.dir \in InReach /\ \A k \in DOMAIN Advanced : Advanced[k].dir \in InReach
      BY <1>0, <2>1, <2>2, PoolFrames, InReachAreDirs, FramesIn
    <3>2. ASSUME NEW e \in ToOpen, e \in AheadOf(mode, frames), e \notin AheadOf(mode, Advanced)
          PROVE  FALSE
      BY <1>0, <2>1, <2>2, <3>1, <3>2, PoolFrames, ToOpenFacts, AdvanceLeaves
    <3> QED
      BY <2>1, <3>1, <3>2
  <2> QED
    BY <1>0, <2>1, <2>2, CompleteKept DEF Waiting
<1>4. CASE WalkThrows
  BY <1>4 DEF WalkThrows, CompleteInv
<1>5. ASSUME NEW w \in Workers, Take(w) PROVE CompleteInv'
  <2>1. CASE abort
    <3>1. disturbed'
      BY <1>0, <1>5, <2>1 DEF Take
    <3> QED
      BY <3>1 DEF CompleteInv
  <2>2. CASE ~abort
    <3>1. /\ queue \in Seq(Entries) /\ queue # <<>> /\ queue' = Tail(queue)
          /\ held \in [Workers -> Entries \cup {NoEntry}] /\ held[w] = NoEntry
          /\ held' = [held EXCEPT ![w] = Head(queue)] /\ NoEntry \notin Entries
      BY <1>5, <2>2, WorkersAssumption DEF Take, IInv, TypeOK
    <3>2. Range(queue) = {Head(queue)} \cup Range(Tail(queue)) /\ Head(queue) \in Entries
      BY <3>1, HeadRange
    <3>3. \A e \in Entries : Waiting(e)' <=> Waiting(e)
      BY <3>1, <3>2 DEF Waiting
    <3> QED
      BY <1>0, <1>5, <3>3, ToOpenFacts, CompleteKept DEF Take
  <2> QED
    BY <2>1, <2>2
<1>6. ASSUME NEW w \in Workers, NEW ans \in Answers, Open(w, ans) PROVE CompleteInv'
  <2>1. /\ held \in [Workers -> Entries \cup {NoEntry}] /\ held[w] # NoEntry /\ NoEntry \notin Entries
        /\ opened \in [Entries -> Nat] /\ queue' = queue
        /\ held' = [held EXCEPT ![w] = NoEntry] /\ opened' = [opened EXCEPT ![held[w]] = @ + 1]
    BY <1>6, WorkersAssumption DEF Open, IInv, TypeOK
  <2> PICK e0 \in Entries : e0 = held[w]
    BY <2>1
  <2>2. Waiting(e0)
    BY DEF Waiting
  <2>3. opened'[e0] > 0 /\ \A e \in Entries \ {e0} : opened'[e] = opened[e]
    BY <2>1
  <2>4. \A e \in Entries : Waiting(e)' => Waiting(e)
    BY <2>1 DEF Waiting
  <2>5. \A e \in Entries \ {e0} : Waiting(e) => Waiting(e)'
    BY <2>1 DEF Waiting
  <2>6. /\ mode' = mode /\ frames' = frames
        /\ (abort' \/ aborting' # {} \/ walker' = "abort" => disturbed') /\ (disturbed => disturbed')
    BY <1>0, <1>6 DEF Open
  <2> QED
    BY <1>0, <2>2, <2>3, <2>4, <2>5, <2>6, ToOpenFacts, CompleteKept
<1>7. CASE UNCHANGED vars
  BY <1>0, <1>7, CompleteKept DEF vars, Waiting
<1>8. CASE StoreAbort
  <2>1. disturbed /\ disturbed'
    BY <1>0, <1>8 DEF StoreAbort
  <2> QED
    BY <2>1 DEF CompleteInv
<1>9. ASSUME NEW w \in Workers, StoreOpened(w) PROVE CompleteInv'
  <2>1. disturbed /\ disturbed'
    BY <1>0, <1>9 DEF StoreOpened
  <2> QED
    BY <2>1 DEF CompleteInv
<1> QED
  BY <1>1, <1>2, <1>3, <1>4, <1>5, <1>6, <1>7, <1>8, <1>9, VisitComplete
     DEF Next, WalkerStep, WorkerStep, Terminated

\* A walk that nothing disturbed opens all that it should and nothing else but
\* the directories of a flat walk with filesOnly, whatever the tree and the
\* number of workers.
THEOREM WalkIsComplete == SafetySpec => []WalkComplete
<1>1. Init => CompleteInv
  BY InitComplete
<1>2. IInv /\ CleanInv /\ CompleteInv /\ [Next]_vars => CompleteInv'
  BY CompletePreserved
<1>3. IInv /\ CleanInv /\ CompleteInv => WalkComplete
  <2> SUFFICES ASSUME IInv, CleanInv, CompleteInv, Quiet, ~disturbed, ~mode.inverted
               PROVE  {e \in Entries : opened[e] = 1} = ToOpen
    BY DEF WalkComplete, ToOpen
  <2>1. AheadOf(mode, frames) = {}
    BY DEF Quiet, IInv, FramesInv, AheadOf
  <2>2. \A e \in Entries : ~Waiting(e)
    <3>1. Range(queue) = {}
      BY DEF Quiet, Range
    <3> QED
      BY <3>1, WorkersAssumption DEF Quiet, Waiting
  <2>3. \A e \in Entries : opened[e] \in Nat /\ opened[e] <= 1
    BY DownClean DEF IInv, TypeOK, EntriesInv, MetOnceInv
  <2>4. /\ \A e \in Entries : opened[e] > 0 => e \in ToOpen
        /\ \A e \in ToOpen : opened[e] > 0
    BY <2>1, <2>2, ToOpenFacts DEF CompleteInv, ToOpen
  <2> QED
    BY <2>3, <2>4, ToOpenFacts
<1> QED
  BY <1>1, <1>2, <1>3, Invariance, EntriesInvariance, PTL DEF SafetySpec
-----------------------------------------------------------------------------
(* Without a pool: the steps *)

\* A call, and what the walk does with its answer.
CallStep(ans, isDir, exists) ==
  \/ Leave(ans, isDir, exists) \/ GoOn(ans, isDir, exists)
  \/ ans = "CONTINUE" /\ (Enter(isDir, exists) \/ Climb(isDir, exists))

LEMMA SeqCases ==
  ASSUME [SeqNext]_seqVars
  PROVE  \/ SeqListingEnd \/ SeqFilter \/ SeqThrows \/ UNCHANGED seqVars
         \/ \E ans \in Answers : ReportFailed(ans)
         \/ \E ans \in Answers, isDir \in BOOLEAN, exists \in BOOLEAN : CallStep(ans, isDir, exists)
<1>1. "CONTINUE" \in Answers
  BY DEF Answers
<1>2. ASSUME NEW isDir \in BOOLEAN, NEW exists \in BOOLEAN,
             \/ \E ans \in Answers : Leave(ans, isDir, exists) \/ GoOn(ans, isDir, exists)
             \/ Enter(isDir, exists) \/ Climb(isDir, exists)
      PROVE  \E ans \in Answers : CallStep(ans, isDir, exists)
  <2>1. CASE \E ans \in Answers : Leave(ans, isDir, exists) \/ GoOn(ans, isDir, exists)
    BY <2>1 DEF CallStep
  <2>2. CASE Enter(isDir, exists) \/ Climb(isDir, exists)
    BY <1>1, <2>2 DEF CallStep
  <2> QED
    BY <1>2, <2>1, <2>2
<1> QED
  BY <1>2 DEF SeqNext, WalkStep, SeqTerminated

\* The walk has frames until it is over, and is at an entry when it calls.
LEMMA SeqFrames ==
  ASSUME SeqTypeOK, PlaceInv
  PROVE  /\ at # "over" => Walking
         /\ at = "failed" => AtEntry
         /\ at = "check" /\ Top.next <= Len(Listing) => AtEntry
         /\ at # "failed" => Loops = frames
BY DEF SeqTypeOK, PlaceInv, Walking, AtEntry, Loops

\* A step that makes no OPENED call lets what is ahead go.
LEMMA MuteStep ==
  ASSUME SeqTypeOK, PlaceInv,
         \/ SeqListingEnd \/ SeqFilter \/ SeqThrows \/ UNCHANGED seqVars
         \/ \E ans \in Answers : ReportFailed(ans)
  PROVE  /\ mode' = mode /\ told' = told /\ reply' = reply /\ vanished' = vanished
         /\ Separate(mode, Loops) =>
              Separate(mode, Loops') /\ AheadOf(mode, Loops') \subseteq AheadOf(mode, Loops)
         /\ frames' \in Seq(Frame) /\ (at' = "over" <=> frames' = <<>>)
         /\ at' \in {"check", "over"} \/ UNCHANGED seqVars
<1>0. mode \in Modes
  BY DEF SeqTypeOK
<1>1. CASE SeqListingEnd
  <2>1. Walking /\ Loops = frames
    BY <1>1, SeqFrames DEF SeqListingEnd
  <2>2. frames' = Tail(frames) /\ at' = (IF frames' = <<>> THEN "over" ELSE "check")
    BY <1>1 DEF SeqListingEnd, Returns, Unwound, Goto
  <2>3. Loops' = Tail(frames)
    BY <2>2 DEF Loops
  <2> QED
    BY <1>1, <2>1, <2>2, <2>3, FrameFacts, ReturnAhead DEF SeqListingEnd, calls
<1>2. CASE SeqFilter
  <2>1. AtEntry /\ Walking /\ Loops = frames
    BY <1>2, SeqFrames, EntryPlace DEF SeqFilter
  <2>2. frames' = Advanced /\ at' = "check"
    BY <1>2 DEF SeqFilter, Goto
  <2>3. Loops' = Advanced
    BY <2>2 DEF Loops
  <2> QED
    BY <1>0, <1>2, <2>1, <2>2, <2>3, FrameFacts, AdvanceAhead DEF SeqFilter, calls
<1>3. CASE SeqThrows
  <2>1. frames' = <<>> /\ at' = "over"
    BY <1>3 DEF SeqThrows, Goto
  <2>2. Loops' = <<>>
    BY <2>1 DEF Loops
  <2>3. Separate(mode, Loops) => Separate(mode, Loops') /\ AheadOf(mode, Loops') = {}
    BY <2>2 DEF Separate, AheadOf
  <2>4. frames' \in Seq(Frame)
    BY <2>1
  <2> QED
    BY <1>3, <2>1, <2>3, <2>4 DEF SeqThrows, calls
<1>4. CASE UNCHANGED seqVars
  <2>1. Loops' = Loops
    BY <1>4 DEF seqVars, Loops, Advanced, Top
  <2> QED
    BY <1>4, <2>1 DEF seqVars, calls, SeqTypeOK, PlaceInv
<1>5. ASSUME NEW ans \in Answers, ReportFailed(ans)
      PROVE  /\ mode' = mode /\ told' = told /\ reply' = reply /\ vanished' = vanished
             /\ Loops' = Loops /\ frames' = Advanced /\ at' = "check" /\ Walking
  BY <1>5, SeqFrames DEF ReportFailed, Goto, Loops
<1>6. CASE \E ans \in Answers : ReportFailed(ans)
  BY <1>5, <1>6, FrameFacts
<1> QED
  BY <1>1, <1>2, <1>3, <1>4, <1>6

\* What a call does to the histories.
LEMMA CallTells ==
  ASSUME SeqTypeOK, PlaceInv, NEW ans \in Answers, NEW isDir \in BOOLEAN,
         NEW exists \in BOOLEAN, Call(ans, isDir, exists)
  PROVE  /\ at = "check" /\ AtEntry /\ Walking /\ Loops = frames /\ Entry \notin Hidden
         /\ Entry \in Entries
         /\ \A e \in Entries \ {Entry} : told'[e] = told[e] /\ reply'[e] = reply[e]
         /\ IF Silent(isDir) THEN ans = "CONTINUE" /\ told'[Entry] = told[Entry] /\ reply'[Entry] = reply[Entry]
                             ELSE told'[Entry] = told[Entry] + 1 /\ reply'[Entry] = ans
         /\ told' \in [Entries -> Nat] /\ reply' \in [Entries -> Answers \cup {"none"}]
         /\ ~vanished' => ~vanished /\ exists /\ isDir = (Entry \in Dirs)
         /\ mode' = mode /\ failed' = failed /\ threw' = threw
<1>1. at = "check" /\ AtEntry /\ Walking /\ Loops = frames /\ Entry \notin Hidden
  BY SeqFrames, EntryPlace DEF Call
<1>2. Entry \in Entries
  BY <1>1, EntryPlace
<1>4. told \in [Entries -> Nat] /\ reply \in [Entries -> Answers \cup {"none"}]
  BY DEF SeqTypeOK
<1>5. CASE Silent(isDir)
  <2>1. ans = "CONTINUE" /\ told' = told /\ reply' = reply
    BY <1>5 DEF Call
  <2> QED
    BY <1>1, <1>2, <1>4, <1>5, <2>1 DEF Call
<1>6. CASE ~Silent(isDir)
  <2>1. told' = [told EXCEPT ![Entry] = @ + 1] /\ reply' = [reply EXCEPT ![Entry] = ans]
    BY <1>6 DEF Call
  <2>2. told'[Entry] = told[Entry] + 1 /\ reply'[Entry] = ans /\ told' \in [Entries -> Nat]
    BY <1>2, <1>4, <2>1
  <2>3. reply' \in [Entries -> Answers \cup {"none"}]
    BY <1>4, <2>1
  <2>4. \A e \in Entries \ {Entry} : told'[e] = told[e] /\ reply'[e] = reply[e]
    BY <1>4, <2>1
  <2>5. /\ ~vanished' => ~vanished /\ exists /\ isDir = (Entry \in Dirs)
        /\ mode' = mode /\ failed' = failed /\ threw' = threw
    BY DEF Call
  <2> QED
    BY <1>1, <1>2, <1>6, <2>2, <2>3, <2>4, <2>5
<1> QED
  BY <1>5, <1>6

\* A walk that comes to no directory twice calls for what it had ahead.
LEMMA CallMeets ==
  ASSUME SeqTypeOK, PlaceInv, MetInv, NEW ans \in Answers, NEW isDir \in BOOLEAN,
         NEW exists \in BOOLEAN, Call(ans, isDir, exists)
  PROVE  /\ Entry \in AheadOf(mode, frames)
         /\ told[Entry] = 0 /\ reply[Entry] = "none"
         /\ IF Silent(isDir) THEN told'[Entry] = 0 /\ reply'[Entry] = "none" ELSE told'[Entry] = 1
<1>1. AtEntry /\ Walking /\ Loops = frames /\ mode \in Modes /\ Entry \in Entries
  BY CallTells DEF SeqTypeOK
<1>2. Entry \in AheadOf(mode, frames)
  BY <1>1, AdvanceAhead, ReturnAhead DEF MetInv
<1>3. told[Entry] = 0 /\ reply[Entry] = "none"
  BY <1>1, <1>2 DEF MetInv
<1> QED
  BY <1>2, <1>3, CallTells

\* What a call does to the frames.
LEMMA CallMoves ==
  ASSUME SeqTypeOK, PlaceInv, NEW ans \in Answers, NEW isDir \in BOOLEAN,
         NEW exists \in BOOLEAN, CallStep(ans, isDir, exists)
  PROVE  /\ Call(ans, isDir, exists)
         /\ \/ /\ ans = "ABORT" /\ frames' = <<>> /\ Loops' = <<>> /\ at' = "over"
               /\ result' = "ABORTED"
            \/ /\ ans = "STOP" /\ frames' = Tail(frames) /\ Loops' = frames'
               /\ at' = (IF frames' = <<>> THEN "over" ELSE "check")
               /\ result' = (IF frames' = <<>> THEN "STOPPED" ELSE result)
            \/ /\ ans \in {"SKIP", "CONTINUE"} /\ frames' = Advanced /\ Loops' = frames'
               /\ at' = "check" /\ UNCHANGED result
               /\ ans = "CONTINUE" => ~Deeper(isDir)
            \/ /\ ans = "CONTINUE" /\ Deeper(isDir) /\ Entry \in Dirs
               /\ frames' = <<First(Entry, Top.up)>> \o Advanced /\ Loops' = frames'
               /\ at' = "check" /\ UNCHANGED result
            \/ /\ ans = "CONTINUE" /\ ~(exists /\ Entry \in Dirs) /\ Deeper(isDir)
               /\ frames' = frames /\ Loops' = Advanced /\ at' = "failed" /\ UNCHANGED result
            \/ /\ ans = "CONTINUE" /\ Climbs(isDir) /\ at' = "check" /\ UNCHANGED result
               /\ \E f \in Above :
                    frames' = <<f>> \o Tail(frames) /\ Loops' = frames'
            \/ /\ ans = "CONTINUE" /\ ~exists /\ frames' = Tail(frames) /\ Loops' = frames'
               /\ Climbs(isDir)
               /\ at' = (IF frames' = <<>> THEN "over" ELSE "check")
               /\ result' = (IF frames' = <<>> THEN "FAILED" ELSE result)
<1>0. at' # "failed" => Loops' = frames'
  BY DEF Loops
<1>1. CASE Leave(ans, isDir, exists)
  <2>1. Call(ans, isDir, exists) /\ \E status \in Leaves(ans) : Returns(status)
    BY <1>1 DEF Leave
  <2>2. CASE ans = "ABORT"
    <3>1. Returns("ABORTED")
      BY <2>1, <2>2 DEF Leaves
    <3> QED
      BY <1>0, <2>1, <2>2, <3>1 DEF Returns, Unwound, Goto
  <2>3. CASE ans = "STOP"
    <3>1. Returns("STOPPED")
      BY <2>1, <2>3 DEF Leaves
    <3> QED
      BY <1>0, <2>1, <2>3, <3>1 DEF Returns, Unwound, Goto
  <2> QED
    BY <2>1, <2>2, <2>3 DEF Leaves
<1>2. CASE GoOn(ans, isDir, exists)
  <2>1. ans \in {"SKIP", "CONTINUE"}
    BY <1>2 DEF GoOn, Leaves, Answers
  <2> QED
    BY <1>0, <1>2, <2>1 DEF GoOn, Goto
<1>3. CASE ans = "CONTINUE" /\ Enter(isDir, exists)
  <2>1. Call(ans, isDir, exists) /\ Deeper(isDir)
    BY <1>3 DEF Enter
  <2>2. CASE exists /\ Entry \in Dirs
    BY <1>0, <1>3, <2>1, <2>2 DEF Enter, Goto
  <2>3. CASE ~(exists /\ Entry \in Dirs)
    <3>1. frames' = frames /\ at' = "failed" /\ UNCHANGED result
      BY <1>3, <2>3 DEF Enter, Goto
    <3>2. Loops' = Advanced
      BY <3>1 DEF Loops, Advanced, Top
    <3> QED
      BY <1>3, <2>1, <2>3, <3>1, <3>2
  <2> QED
    BY <2>2, <2>3
<1>4. CASE ans = "CONTINUE" /\ Climb(isDir, exists)
  <2>1. Call(ans, isDir, exists) /\ Climbs(isDir)
    BY <1>4 DEF Climb
  <2>2. PICK f \in Above :
          \/ frames' = <<f>> \o Tail(frames) /\ Goto("check")
          \/ ~exists /\ Returns("FAILED")
    BY <1>4 DEF Climb
  <2>3. CASE frames' = <<f>> \o Tail(frames) /\ Goto("check")
    BY <1>0, <1>4, <2>1, <2>3 DEF Goto
  <2>4. CASE ~exists /\ Returns("FAILED")
    BY <1>0, <1>4, <2>1, <2>4 DEF Returns, Unwound, Goto
  <2> QED
    BY <2>2, <2>3, <2>4
<1> QED
  BY <1>1, <1>2, <1>3, <1>4 DEF CallStep

\* The frames stay well formed.
LEMMA CallFrames ==
  ASSUME SeqTypeOK, PlaceInv, NEW ans \in Answers, NEW isDir \in BOOLEAN,
         NEW exists \in BOOLEAN, CallStep(ans, isDir, exists)
  PROVE  frames' \in Seq(Frame) /\ (at' = "over" <=> frames' = <<>>)
<1>1. Walking /\ frames \in Seq(Frame) /\ frames # <<>> /\ mode \in Modes
  BY CallMoves, CallTells DEF Walking, SeqTypeOK
<1>2. ASSUME Entry \in Dirs
      PROVE  First(Entry, Top.up) \in Frame
  BY <1>1, <1>2, FrameFacts DEF First, Frame
<1>3. \A f \in Above : f \in Frame
  BY <1>1, AboveFacts
<1>4. /\ Tail(frames) \in Seq(Frame) /\ Advanced \in Seq(Frame) /\ Advanced # <<>>
      /\ \A f \in Frame : /\ <<f>> \o Advanced \in Seq(Frame) /\ <<f>> \o Advanced # <<>>
                          /\ <<f>> \o Tail(frames) \in Seq(Frame) /\ <<f>> \o Tail(frames) # <<>>
  BY <1>1, FrameFacts
<1>5. <<>> \in Seq(Frame)
  OBVIOUS
<1> QED
  BY <1>1, <1>2, <1>3, <1>4, <1>5, CallMoves

\* What is ahead after a call.
LEMMA CallAhead ==
  ASSUME SeqTypeOK, PlaceInv, MetInv, NEW ans \in Answers, NEW isDir \in BOOLEAN,
         NEW exists \in BOOLEAN, CallStep(ans, isDir, exists)
  PROVE  /\ Separate(mode, Loops') /\ AheadOf(mode, Loops') \subseteq AheadOf(mode, frames) \ {Entry}
         /\ ans \in {"STOP", "ABORT"} => AheadOf(mode, Loops') \cap Ahead(mode, Top) = {}
<1>1. /\ AtEntry /\ Walking /\ Loops = frames /\ Separate(mode, frames)
      /\ mode \in Modes /\ at = "check"
  BY CallMoves, CallTells DEF MetInv, SeqTypeOK
<1>2. CASE Loops' = <<>>
  BY <1>1, <1>2 DEF Separate, AheadOf
<1>3. CASE Loops' = Tail(frames)
  BY <1>1, <1>3, ReturnAhead, AdvanceAhead
<1>4. CASE ans \in {"SKIP", "CONTINUE"} /\ Loops' = Advanced
  BY <1>1, <1>4, AdvanceAhead
<1>5. CASE /\ ans = "CONTINUE" /\ Deeper(isDir) /\ Entry \in Dirs
           /\ Loops' = <<First(Entry, Top.up)>> \o Advanced
  <2>1. ~mode.inverted
    BY <1>5 DEF Deeper
  <2> QED
    BY <1>1, <1>5, <2>1, DeeperAhead
<1>6. CASE ans = "CONTINUE" /\ Climbs(isDir) /\ \E f \in Above : Loops' = <<f>> \o Tail(frames)
  <2>1. PICK f \in Above : Loops' = <<f>> \o Tail(frames)
    BY <1>6
  <2>2. mode.inverted /\ Top.next = Len(Listing)
    BY <1>6 DEF Climbs
  <2> QED
    BY <1>1, <1>6, <2>1, <2>2, UpAhead
<1> QED
  BY <1>2, <1>3, <1>4, <1>5, <1>6, CallMoves

-----------------------------------------------------------------------------
(* Without a pool: places, statuses, and what was met *)

LEMMA InitSeq == SeqInit => SeqInv
<1> SUFFICES ASSUME SeqInit
             PROVE  SeqInv
  OBVIOUS
<1>1. Start \in Dirs /\ First(Start, 0) \in Frame
  BY TreeAssumption DEF First, Frame
<1>2. /\ frames = <<First(Start, 0)>> /\ frames \in Seq(Frame) /\ frames # <<>> /\ Top = First(Start, 0)
      /\ \A k \in DOMAIN frames : k = 1 /\ frames[k] = First(Start, 0)
  BY <1>1 DEF SeqInit, Top
<1>3. /\ mode \in Modes /\ at = "check" /\ result = "none" /\ ~vanished /\ ~threw
      /\ told = [e \in Entries |-> 0] /\ failed = [e \in Entries |-> 0]
      /\ reply = [e \in Entries |-> "none"] /\ Loops = frames
  BY DEF SeqInit, Loops
<1>4. SeqTypeOK /\ PlaceInv
  <2>1. told \in [Entries -> Nat] /\ failed \in [Entries -> Nat] /\ \A e \in Entries : failed[e] = 0
    BY <1>3
  <2>2. reply \in [Entries -> Answers \cup {"none"}]
    BY <1>3
  <2>3. /\ mode \in Modes /\ at = "check" /\ result = "none" /\ ~vanished
        /\ vanished \in BOOLEAN /\ threw \in BOOLEAN
    BY DEF SeqInit
  <2>4. SeqTypeOK
    BY <1>2, <2>1, <2>2, <2>3 DEF SeqTypeOK
  <2>5. PlaceInv
    BY <1>2, <2>1, <2>3 DEF PlaceInv
  <2> QED
    BY <2>4, <2>5
<1>13. OnWay(mode, First(Start, 0))
  <2>1. 0 \in 0..Len(mode.way) /\ First(Start, 0).up = 0 /\ First(Start, 0).dir = Start
    BY <1>3, WayFacts DEF First
  <2> QED
    BY <2>1 DEF OnWay, Climbed
<1>14. UpInv
  <2>1. ASSUME mode.inverted, NEW e \in Entries
        PROVE  told[e] + Cardinality(Coming(mode, Top, e)) <= Cardinality(Turns(mode, e))
    <3>1. told[e] = 0
      BY <1>3
    <3> QED
      BY <1>1, <1>2, <1>3, <2>1, <3>1, ComingFacts
  <2>2. Len(frames) <= 1
    BY <1>2
  <2> QED
    BY <1>2, <1>3, <1>13, <2>1, <2>2 DEF UpInv
<1>5. AbortUnwinds /\ (Clean(mode) => MetInv /\ StopInv)
  <2>1. \A e \in Entries : told[e] = 0 /\ reply[e] = "none"
    BY <1>3
  <2>2. (Clean(mode) => Separate(mode, Loops)) /\ AheadOf(mode, Loops) \subseteq Entries
    BY <1>2, <1>3, <1>13, AheadAreEntries DEF Separate
  <2>3. \A d \in Dirs : \A i \in 1..Len(Children[d]) : Children[d][i] \in Entries
    BY TreeFacts
  <2> QED
    BY <1>3, <2>1, <2>2, <2>3 DEF AbortUnwinds, Aborted, MetInv, StopInv
<1>6. \A e \in AheadOf(mode, Loops) : ~mode.inverted => e \in Below[Start]
  <2>1. ASSUME ~mode.inverted, NEW e \in AheadOf(mode, Loops)
        PROVE  e \in Below[Start]
    <3>1. e \in Ahead(mode, First(Start, 0))
      BY <1>2, <1>3, <2>1 DEF AheadOf
    <3> QED
      BY <1>1, <2>1, <3>1, RestFirst, BelowUnfolds DEF Ahead
  <2> QED
    BY <2>1
<1>7. ~mode.inverted => Below[Start] \subseteq AheadOf(mode, Loops)
  <2>1. 1 \in DOMAIN frames /\ frames[1] = First(Start, 0)
    BY <1>2
  <2> QED
    BY <1>1, <1>3, <2>1, RestFirst, BelowUnfolds DEF Ahead, AheadOf
<1>8. \A d \in Dirs : InFrames(d) <=> d = Start
  <2>1. 1 \in DOMAIN frames /\ frames[1].dir = Start
    BY <1>2 DEF First
  <2> QED
    BY <1>2, <2>1 DEF InFrames, First
<1>9. \A d \in Dirs : Seen(d) <=> d = Start
  BY <1>3, <1>8, TreeFacts DEF Seen
<1>10. SeenInv
  <2>1. Start \notin Below[Start]
    BY <1>1, BelowIsDeeper, DepthFacts
  <2> QED
    BY <1>6, <1>8, <1>9, <2>1 DEF SeenInv
<1>11. ListingInv
  <2> SUFFICES ASSUME ~mode.inverted, NEW p \in Dirs, Touched(p), NEW x \in Range(Children[p])
               PROVE  x \in AheadOf(mode, Loops)
    BY DEF ListingInv
  <2>1. p = Start
    BY <1>9 DEF Touched
  <2> QED
    BY <1>1, <1>7, <2>1, BelowFacts
<1>12. CalmInv
  <2>1. Start \in InReach
    BY ReachFacts DEF InReach
  <2>2. ASSUME ~mode.inverted, NEW e \in SeqWanted
        PROVE  e \in AheadOf(mode, Loops)
    <3>1. PICK p \in InReach : e \in Range(Children[p]) /\ p \in Dirs
      BY DEF SeqWanted, VisibleIn, Parents
    <3>2. p = Start \/ p \in Below[Start]
      BY <3>1, ReachIsBelow DEF InReach
    <3> QED
      BY <1>1, <1>7, <2>2, <3>1, <3>2, BelowFacts
  <2>3. SeqWanted \subseteq Entries
    BY DEF SeqWanted, VisibleIn
  <2>4. \A k \in DOMAIN frames : frames[k].dir = Start
    BY <1>2 DEF First
  <2> QED
    BY <1>3, <2>1, <2>2, <2>4 DEF CalmInv
<1> QED
  BY <1>4, <1>5, <1>10, <1>11, <1>12, <1>14 DEF SeqInv

LEMMA SeqTypeKept == SeqTypeOK /\ PlaceInv /\ [SeqNext]_seqVars => SeqTypeOK'
<1> SUFFICES ASSUME SeqTypeOK, PlaceInv, [SeqNext]_seqVars
             PROVE  SeqTypeOK'
  OBVIOUS
<1>1. ASSUME \/ SeqListingEnd \/ SeqFilter \/ SeqThrows \/ UNCHANGED seqVars
             \/ \E ans \in Answers : ReportFailed(ans)
      PROVE  SeqTypeOK'
  <2>1. /\ mode' = mode /\ told' = told /\ reply' = reply /\ vanished' = vanished
        /\ frames' \in Seq(Frame)
    BY <1>1, MuteStep
  <2>2. at' \in {"check", "failed", "over"} /\ threw' \in BOOLEAN
        /\ result' \in {"none", "STOPPED", "ABORTED", "FAILED", "DONE"}
    BY <1>1 DEF SeqListingEnd, SeqFilter, SeqThrows, ReportFailed, seqVars, Returns, Goto, SeqTypeOK
  <2>3. failed' \in [Entries -> Nat]
    <3>1. CASE \E ans \in Answers : ReportFailed(ans)
      <4>1. failed' = [failed EXCEPT ![Entry] = @ + 1]
        BY <3>1 DEF ReportFailed
      <4>2. Entry \in Entries
        BY <3>1, SeqFrames, EntryPlace DEF ReportFailed
      <4>3. failed \in [Entries -> Nat]
        BY DEF SeqTypeOK
      <4> QED
        BY <4>1, <4>2, <4>3
    <3>2. CASE SeqListingEnd \/ SeqFilter \/ SeqThrows \/ UNCHANGED seqVars
      BY <3>2 DEF SeqListingEnd, SeqFilter, SeqThrows, seqVars, calls, SeqTypeOK
    <3> QED
      BY <1>1, <3>1, <3>2
  <2> QED
    BY <2>1, <2>2, <2>3 DEF SeqTypeOK
<1>2. ASSUME NEW ans \in Answers, NEW isDir \in BOOLEAN, NEW exists \in BOOLEAN,
             CallStep(ans, isDir, exists)
      PROVE  SeqTypeOK'
  <2>1. Call(ans, isDir, exists)
    BY <1>2, CallMoves
  <2>2. frames' \in Seq(Frame)
    BY <1>2, CallFrames
  <2>3. /\ at' \in {"check", "failed", "over"}
        /\ result' \in {"none", "STOPPED", "ABORTED", "FAILED", "DONE"}
    BY <1>2, CallMoves DEF SeqTypeOK
  <2>4. vanished' \in BOOLEAN
    BY <2>1 DEF Call, SeqTypeOK
  <2> QED
    BY <2>1, <2>2, <2>3, <2>4, CallTells DEF SeqTypeOK
<1> QED
  BY <1>1, <1>2, SeqCases

LEMMA PlaceKept == SeqTypeOK /\ PlaceInv /\ [SeqNext]_seqVars => PlaceInv'
<1> SUFFICES ASSUME SeqTypeOK, PlaceInv, [SeqNext]_seqVars
             PROVE  PlaceInv'
  OBVIOUS
<1>1. ASSUME \/ SeqListingEnd \/ SeqFilter \/ SeqThrows
             \/ \E ans \in Answers : ReportFailed(ans)
      PROVE  PlaceInv'
  <2>1. at' = "over" <=> frames' = <<>>
    BY <1>1, MuteStep
  <2>2. at' # "failed"
    BY <1>1 DEF SeqListingEnd, SeqFilter, SeqThrows, ReportFailed, Returns, Goto
  <2>3. ~vanished' => ~vanished /\ failed' = failed
    BY <1>1 DEF SeqListingEnd, SeqFilter, SeqThrows, ReportFailed, calls, PlaceInv
  <2> QED
    BY <2>1, <2>2, <2>3 DEF PlaceInv
<1>2. CASE UNCHANGED seqVars
  <2>1. UNCHANGED <<at, frames, vanished, failed>>
    BY <1>2 DEF seqVars, calls
  <2> QED
    BY <2>1 DEF PlaceInv, Top, Listing
<1>3. ASSUME NEW ans \in Answers, NEW isDir \in BOOLEAN, NEW exists \in BOOLEAN,
             CallStep(ans, isDir, exists)
      PROVE  PlaceInv'
  <2>1. Call(ans, isDir, exists)
    BY <1>3, CallMoves
  <2>2. at' = "over" <=> frames' = <<>>
    BY <1>3, CallFrames
  <2>3. ~vanished' => ~vanished /\ failed' = failed
    BY <2>1, CallTells
  <2>4. at' = "failed" => frames' = frames /\ Deeper(isDir) /\ ~(exists /\ Entry \in Dirs)
    BY <1>3, CallMoves
  <2>5. at' = "failed" => vanished'
    BY <2>1, <2>4, CallTells DEF Deeper
  <2>6. at' = "failed" => Top'.next <= Len(Listing')
    <3>1. AtEntry
      BY <2>1, CallTells
    <3>2. ASSUME frames' = frames
          PROVE  Top'.next <= Len(Listing')
      BY <3>1, <3>2 DEF AtEntry, Top, Listing
    <3> QED
      BY <2>4, <3>2
  <2> QED
    BY <2>2, <2>3, <2>5, <2>6 DEF PlaceInv
<1> QED
  BY <1>1, <1>2, <1>3, SeqCases

LEMMA MetKept == SeqTypeOK /\ PlaceInv /\ MetInv /\ [SeqNext]_seqVars => MetInv'
<1> SUFFICES ASSUME SeqTypeOK, PlaceInv, MetInv, [SeqNext]_seqVars
             PROVE  MetInv'
  OBVIOUS
<1>1. ASSUME \/ SeqListingEnd \/ SeqFilter \/ SeqThrows \/ UNCHANGED seqVars
             \/ \E ans \in Answers : ReportFailed(ans)
      PROVE  MetInv'
  <2>1. /\ mode' = mode /\ told' = told /\ reply' = reply
        /\ Separate(mode, Loops') /\ AheadOf(mode, Loops') \subseteq AheadOf(mode, Loops)
    BY <1>1, MuteStep DEF MetInv
  <2> QED
    BY <2>1 DEF MetInv
<1>2. ASSUME NEW ans \in Answers, NEW isDir \in BOOLEAN, NEW exists \in BOOLEAN,
             CallStep(ans, isDir, exists)
      PROVE  MetInv'
  <2>1. Call(ans, isDir, exists)
    BY <1>2, CallMoves
  <2>2. Separate(mode, Loops') /\ AheadOf(mode, Loops') \subseteq AheadOf(mode, frames) \ {Entry}
    BY <1>2, CallAhead
  <2>3. /\ \A e \in Entries \ {Entry} : told'[e] = told[e] /\ reply'[e] = reply[e]
        /\ Loops = frames /\ mode' = mode /\ Entry \in Entries
        /\ ~Silent(isDir) => told'[Entry] = 1 /\ reply'[Entry] = ans
        /\ Silent(isDir) => told'[Entry] = 0 /\ reply'[Entry] = "none"
    BY <2>1, CallTells, CallMeets
  <2>4. AheadOf(mode, frames) \subseteq Entries
    BY AheadAreEntries DEF SeqTypeOK
  <2>5. \A e \in AheadOf(mode, Loops') : told'[e] = 0
    BY <2>2, <2>3, <2>4 DEF MetInv
  <2>6. ans # "none"
    BY DEF Answers
  <2>7. \A e \in Entries : told'[e] <= 1 /\ (reply'[e] = "none" <=> told'[e] = 0)
    <3>1. CASE Silent(isDir)
      BY <2>3, <3>1 DEF MetInv
    <3>2. CASE ~Silent(isDir)
      BY <2>3, <2>6, <3>2 DEF MetInv
    <3> QED
      BY <3>1, <3>2
  <2> QED
    BY <2>2, <2>3, <2>5, <2>7 DEF MetInv
<1> QED
  BY <1>1, <1>2, SeqCases

LEMMA AbortKept == SeqTypeOK /\ PlaceInv /\ AbortUnwinds /\ [SeqNext]_seqVars => AbortUnwinds'
<1> SUFFICES ASSUME SeqTypeOK, PlaceInv, AbortUnwinds, [SeqNext]_seqVars
             PROVE  AbortUnwinds'
  OBVIOUS
<1>1. CASE SeqListingEnd \/ SeqFilter \/ SeqThrows \/ (\E ans \in Answers : ReportFailed(ans))
  <2>1. reply' = reply /\ ~Aborted
    BY <1>1 DEF SeqListingEnd, SeqFilter, SeqThrows, ReportFailed, calls, AbortUnwinds
  <2>2. ~Aborted'
    BY <2>1 DEF Aborted
  <2>3. at' = "over" /\ ~threw' => result' # "ABORTED"
    BY <1>1 DEF SeqListingEnd, SeqFilter, SeqThrows, ReportFailed, Returns, Goto
  <2> QED
    BY <2>2, <2>3 DEF AbortUnwinds
<1>2. CASE UNCHANGED seqVars
  BY <1>2 DEF seqVars, calls, AbortUnwinds, Aborted
<1>3. ASSUME NEW ans \in Answers, NEW isDir \in BOOLEAN, NEW exists \in BOOLEAN,
             CallStep(ans, isDir, exists)
      PROVE  AbortUnwinds'
  <2>1. Call(ans, isDir, exists)
    BY <1>3, CallMoves
  <2>2. /\ at = "check" /\ Entry \in Entries
        /\ \A e \in Entries \ {Entry} : reply'[e] = reply[e]
        /\ (ans = "CONTINUE" /\ reply'[Entry] = reply[Entry]) \/ reply'[Entry] = ans
    BY <2>1, CallTells
  <2>3. \A e \in Entries : reply[e] # "ABORT"
    BY <2>2 DEF AbortUnwinds, Aborted
  <2>4. Aborted' <=> ans = "ABORT"
    BY <2>2, <2>3 DEF Aborted
  <2>5. ans = "ABORT" => at' = "over" /\ result' = "ABORTED"
    BY <1>3, CallMoves
  <2>6. ans # "ABORT" /\ at' = "over" => result' # "ABORTED"
    BY <1>3, CallMoves
  <2> QED
    BY <2>4, <2>5, <2>6 DEF AbortUnwinds
<1> QED
  BY <1>1, <1>2, <1>3, SeqCases

LEMMA StopKept == SeqTypeOK /\ PlaceInv /\ MetInv /\ StopInv /\ [SeqNext]_seqVars => StopInv'
<1> SUFFICES ASSUME SeqTypeOK, PlaceInv, MetInv, StopInv, [SeqNext]_seqVars
             PROVE  StopInv'
  OBVIOUS
<1>1. ASSUME \/ SeqListingEnd \/ SeqFilter \/ SeqThrows \/ UNCHANGED seqVars
             \/ \E ans \in Answers : ReportFailed(ans)
      PROVE  StopInv'
  <2>1. /\ mode' = mode /\ told' = told /\ reply' = reply
        /\ AheadOf(mode, Loops') \subseteq AheadOf(mode, Loops)
    BY <1>1, MuteStep DEF MetInv
  <2> QED
    BY <2>1 DEF StopInv
<1>2. ASSUME NEW ans \in Answers, NEW isDir \in BOOLEAN, NEW exists \in BOOLEAN,
             CallStep(ans, isDir, exists)
      PROVE  StopInv'
  <2>1. Call(ans, isDir, exists)
    BY <1>2, CallMoves
  <2>2. /\ AheadOf(mode, Loops') \subseteq AheadOf(mode, frames) \ {Entry}
        /\ ans \in {"STOP", "ABORT"} => AheadOf(mode, Loops') \cap Ahead(mode, Top) = {}
    BY <1>2, CallAhead
  <2>3. /\ \A e \in Entries \ {Entry} : told'[e] = told[e] /\ reply'[e] = reply[e]
        /\ Loops = frames /\ mode' = mode /\ Entry \in Entries /\ reply'[Entry] \in {"none", ans}
        /\ Entry \in AheadOf(mode, frames) /\ reply[Entry] = "none" /\ AtEntry /\ Walking
    BY <2>1, CallTells, CallMeets
  <2>4. Ahead(mode, Top) \subseteq AheadOf(mode, frames) /\ Separate(mode, frames)
    BY <2>3, ReturnAhead DEF MetInv
  <2> SUFFICES ASSUME NEW d \in Dirs, NEW i \in 1..Len(Children[d]), reply'[Children[d][i]] = "STOP",
                      NEW k \in i + 1..Len(Children[d])
               PROVE  told'[Children[d][k]] = 0 /\ Children[d][k] \notin AheadOf(mode, Loops')
    BY <2>3 DEF StopInv
  <2> DEFINE c == Children[d][i]
             x == Children[d][k]
  <2>5. k \in 1..Len(Children[d]) /\ k # i /\ Len(Children[d]) \in Nat /\ i < k
    BY TreeFacts
  <2>6. c \in Entries /\ x \in Entries
    BY <2>5, TreeFacts
  <2>7. CASE reply[c] = "STOP"
    <3>1. told[x] = 0 /\ x \notin AheadOf(mode, Loops)
      BY <2>7 DEF StopInv
    <3> QED
      BY <2>2, <2>3, <2>6, <3>1
  <2>8. CASE reply[c] # "STOP"
    <3>1. c = Entry /\ ans = "STOP"
      BY <2>3, <2>6, <2>8
    <3>2. d = Top.dir /\ i = Top.next
      BY <2>3, <3>1, EntryPlace
    <3>3. x \in Rest(Top)
      BY <2>5, <3>2 DEF Rest
    <3>4. x \in Ahead(mode, Top)
      BY <3>3 DEF Ahead, Subtree
    <3>5. x # Entry
      BY <2>3, <2>5, <3>2, EntryPlace
    <3>6. told[x] = 0
      BY <2>3, <2>4, <3>4 DEF MetInv
    <3> QED
      BY <2>2, <2>3, <2>6, <3>1, <3>4, <3>5, <3>6
  <2> QED
    BY <2>7, <2>8
<1> QED
  BY <1>1, <1>2, SeqCases

-----------------------------------------------------------------------------
(* Without a pool: a directory before what is in it *)

\* Only an OPENED call leads into a directory.
LEMMA MuteDirs ==
  ASSUME SeqTypeOK, PlaceInv, NEW d \in Dirs, InFrames(d)',
         \/ SeqListingEnd \/ SeqFilter \/ SeqThrows \/ UNCHANGED seqVars
         \/ \E ans \in Answers : ReportFailed(ans)
  PROVE  InFrames(d)
<1> DEFINE D == {c \in Dirs : InFrames(c)}
<1>1. \A k \in DOMAIN frames : frames[k].dir \in D
  <2>1. frames \in Seq(Frame) /\ \A f \in Frame : f.dir \in Dirs
    BY DEF SeqTypeOK, Frame
  <2>2. \A k \in DOMAIN frames : frames[k] \in Frame
    BY <2>1
  <2> QED
    BY <2>1, <2>2 DEF InFrames
<1>2. D \in SUBSET Dirs
  OBVIOUS
<1> HIDE DEF D
<1>3. PICK k \in DOMAIN frames' : frames'[k].dir = d
  BY DEF InFrames
<1>4. frames' = frames \/ frames' = <<>> \/ (Walking /\ (frames' = Tail(frames) \/ frames' = Advanced))
  <2>1. CASE SeqListingEnd
    BY <2>1, SeqFrames DEF SeqListingEnd, Returns, Unwound
  <2>2. CASE SeqFilter \/ (\E ans \in Answers : ReportFailed(ans))
    BY <2>2, SeqFrames DEF SeqFilter, ReportFailed
  <2>3. CASE SeqThrows \/ UNCHANGED seqVars
    BY <2>3 DEF SeqThrows, seqVars
  <2> QED
    BY <2>1, <2>2, <2>3
<1>5. d \in D
  <2>1. CASE frames' = frames
    BY <1>1, <1>3, <2>1
  <2>2. CASE frames' = <<>>
    BY <1>3, <2>2
  <2>3. CASE Walking /\ frames' = Tail(frames)
    BY <1>1, <1>2, <1>3, <2>3, FramesIn
  <2>4. CASE Walking /\ frames' = Advanced
    BY <1>1, <1>2, <1>3, <2>4, FramesIn
  <2> QED
    BY <1>4, <2>1, <2>2, <2>3, <2>4
<1> QED
  BY <1>5 DEF D

LEMMA CallDirs ==
  ASSUME SeqTypeOK, PlaceInv, MetInv, ~mode.inverted, NEW ans \in Answers, NEW isDir \in BOOLEAN,
         NEW exists \in BOOLEAN, CallStep(ans, isDir, exists)
  PROVE  /\ InFrames(Top.dir)
         /\ \A d \in Dirs : InFrames(d)' =>
              InFrames(d) \/ (d = Entry /\ ans = "CONTINUE" /\ Deeper(isDir))
<1> DEFINE D == {c \in Dirs : InFrames(c)}
<1>1. \A k \in DOMAIN frames : frames[k].dir \in D
  <2>1. frames \in Seq(Frame) /\ \A f \in Frame : f.dir \in Dirs
    BY DEF SeqTypeOK, Frame
  <2>2. \A k \in DOMAIN frames : frames[k] \in Frame
    BY <2>1
  <2> QED
    BY <2>1, <2>2 DEF InFrames
<1>2. D \in SUBSET Dirs
  OBVIOUS
<1>3. \A c \in D : InFrames(c)
  OBVIOUS
<1>4. \A c \in Dirs : InFrames(c) => c \in D
  OBVIOUS
<1> HIDE DEF D
<1>5. Walking
  BY CallMoves, CallTells
<1>6. Top.dir \in D
  BY <1>1, <1>2, <1>5, FramesIn
<1>7. ASSUME NEW d \in Dirs, InFrames(d)', ~(d = Entry /\ ans = "CONTINUE" /\ Deeper(isDir))
      PROVE  d \in D
  <2>1. PICK k \in DOMAIN frames' : frames'[k].dir = d
    BY <1>7 DEF InFrames
  <2>2. CASE frames' \in {<<>>, frames, Tail(frames), Advanced}
    <3>1. CASE frames' = frames
      BY <1>1, <2>1, <3>1
    <3>2. CASE frames' = <<>>
      BY <2>1, <3>2
    <3>3. CASE frames' = Tail(frames)
      BY <1>1, <1>2, <1>5, <2>1, <3>3, FramesIn
    <3>4. CASE frames' = Advanced
      BY <1>1, <1>2, <1>5, <2>1, <3>4, FramesIn
    <3> QED
      BY <2>2, <3>1, <3>2, <3>3, <3>4
  <2>3. CASE /\ ans = "CONTINUE" /\ Deeper(isDir) /\ Entry \in Dirs
             /\ frames' = <<First(Entry, Top.up)>> \o Advanced
    <3>1. D \cup {Entry} \in SUBSET Dirs
      BY <1>2, <2>3
    <3>2. \A l \in DOMAIN frames : frames[l].dir \in D \cup {Entry}
      BY <1>1
    <3>3. PICK f \in Frame : f = First(Entry, Top.up) /\ f.dir = Entry
      BY <1>5, <2>3, FrameFacts DEF First, Frame
    <3>4. \A l \in DOMAIN (<<f>> \o Advanced) : (<<f>> \o Advanced)[l].dir \in D \cup {Entry}
      BY <1>5, <3>1, <3>2, <3>3, FramesIn
    <3>5. d \in D \cup {Entry}
      BY <2>1, <2>3, <3>3, <3>4
    <3> QED
      BY <1>7, <2>3, <3>5
  <2>4. ~Climbs(isDir)
    BY DEF Climbs
  <2> QED
    BY <2>2, <2>3, <2>4, CallMoves
<1>8. InFrames(Top.dir)
  BY <1>3, <1>6
<1>9. ASSUME NEW d \in Dirs, InFrames(d)'
      PROVE  InFrames(d) \/ (d = Entry /\ ans = "CONTINUE" /\ Deeper(isDir))
  <2>1. CASE ~(d = Entry /\ ans = "CONTINUE" /\ Deeper(isDir))
    <3>1. d \in D
      BY <1>7, <1>9, <2>1
    <3> QED
      BY <1>3, <3>1
  <2> QED
    BY <2>1
<1> QED
  BY <1>8, <1>9

\* The walk has not come to what is ahead.
LEMMA AheadUntouched ==
  ASSUME SeqTypeOK, PlaceInv, MetInv, SeenInv, ~mode.inverted,
         NEW p \in Dirs, p \in AheadOf(mode, Loops)
  PROVE  ~Seen(p) /\ ~Touched(p)
<1>1. Loops \in Seq(Frame)
  BY SeqFrames, EntryPlace, FrameFacts DEF Loops, SeqTypeOK
<1>2. ASSUME NEW c \in Dirs, c \in AheadOf(mode, Loops)
      PROVE  ~Seen(c) /\ Range(Children[c]) \subseteq AheadOf(mode, Loops)
  <2>1. Range(Children[c]) \subseteq AheadOf(mode, Loops)
    BY <1>1, <1>2, AheadClosed
  <2>2. \A x \in Range(Children[c]) : told[x] = 0
    BY <2>1 DEF MetInv
  <2>3. ~InFrames(c)
    BY <1>2 DEF SeenInv
  <2> QED
    BY <2>1, <2>2, <2>3 DEF Seen
<1>3. ~Seen(p) /\ Range(Children[p]) \subseteq AheadOf(mode, Loops)
  BY <1>2
<1> QED
  BY <1>2, <1>3 DEF Touched

\* What a call makes the walk see: at most the directory that it enters.
LEMMA CallSees ==
  ASSUME SeqTypeOK, PlaceInv, MetInv, SeenInv, ~mode.inverted, NEW ans \in Answers,
         NEW isDir \in BOOLEAN, NEW exists \in BOOLEAN, CallStep(ans, isDir, exists),
         NEW d \in Dirs, Seen(d)'
  PROVE  Seen(d) \/ (d = Entry /\ ans = "CONTINUE" /\ Deeper(isDir))
<1>1. /\ \A e \in Entries \ {Entry} : told'[e] = told[e]
      /\ AtEntry
  BY CallMoves, CallTells
<1>2. CASE InFrames(d)'
  BY <1>2, CallDirs DEF Seen
<1>3. CASE \E x \in Range(Children[d]) : told'[x] > 0
  <2>1. PICK x \in Range(Children[d]) : told'[x] > 0
    BY <1>3
  <2>2. CASE x = Entry
    <3>1. d = Top.dir
      BY <1>1, <2>1, <2>2, TreeFacts, EntryPlace
    <3>2. InFrames(Top.dir)
      BY CallDirs
    <3> QED
      BY <3>1, <3>2 DEF Seen, InFrames
  <2>3. CASE x # Entry
    <3>1. told[x] > 0
      BY <1>1, <2>1, <2>3, TreeFacts
    <3> QED
      BY <2>1, <3>1 DEF Seen, InFrames
  <2> QED
    BY <2>2, <2>3
<1> QED
  BY <1>2, <1>3 DEF Seen

LEMMA MuteSees ==
  ASSUME SeqTypeOK, PlaceInv, MetInv, NEW d \in Dirs, Seen(d)',
         \/ SeqListingEnd \/ SeqFilter \/ SeqThrows \/ UNCHANGED seqVars
         \/ \E ans \in Answers : ReportFailed(ans)
  PROVE  Seen(d)
<1>1. told' = told
  BY MuteStep DEF MetInv
<1>2. InFrames(d)' => InFrames(d)
  BY MuteDirs
<1> QED
  BY <1>1, <1>2 DEF Seen

LEMMA SeenKept == SeqTypeOK /\ PlaceInv /\ MetInv /\ SeenInv /\ [SeqNext]_seqVars => SeenInv'
<1> SUFFICES ASSUME SeqTypeOK, PlaceInv, MetInv, SeenInv, [SeqNext]_seqVars, ~mode'.inverted
             PROVE  SeenInv'
  BY DEF SeenInv
<1>1. ASSUME \/ SeqListingEnd \/ SeqFilter \/ SeqThrows \/ UNCHANGED seqVars
             \/ \E ans \in Answers : ReportFailed(ans)
      PROVE  SeenInv'
  <2>1. /\ mode' = mode /\ told' = told /\ reply' = reply
        /\ AheadOf(mode, Loops') \subseteq AheadOf(mode, Loops)
    BY <1>1, MuteStep DEF MetInv
  <2>2. \A d \in Dirs \cap AheadOf(mode, Loops') : ~InFrames(d)'
    BY <1>1, <2>1, MuteDirs DEF SeenInv
  <2>3. \A d \in Dirs \ {Start} : Seen(d)' => Seen(d)
    BY <1>1, MuteSees
  <2> QED
    BY <2>1, <2>2, <2>3 DEF SeenInv
<1>2. ASSUME NEW ans \in Answers, NEW isDir \in BOOLEAN, NEW exists \in BOOLEAN,
             CallStep(ans, isDir, exists)
      PROVE  SeenInv'
  <2>1. Call(ans, isDir, exists)
    BY <1>2, CallMoves
  <2>2. AheadOf(mode, Loops') \subseteq AheadOf(mode, frames) \ {Entry}
    BY <1>2, CallAhead
  <2>3. /\ \A e \in Entries \ {Entry} : told'[e] = told[e] /\ reply'[e] = reply[e]
        /\ Loops = frames /\ mode' = mode /\ Entry \in AheadOf(mode, frames)
        /\ Silent(isDir) => reply'[Entry] = "none"
        /\ ~Silent(isDir) => told'[Entry] = 1 /\ reply'[Entry] = ans
    BY <2>1, CallTells, CallMeets
  <2>4. ASSUME NEW d \in Dirs \cap AheadOf(mode, Loops')
        PROVE  ~InFrames(d)'
    BY <1>2, <2>2, <2>3, CallDirs DEF SeenInv
  <2>5. ASSUME NEW d \in Dirs \ {Start}, Seen(d)'
        PROVE  (mode.filesOnly \/ told'[d] = 1) /\ reply'[d] \in {"none", "CONTINUE"}
    <3>1. CASE d = Entry
      <4>1. ~Seen(d)
        BY <2>3, <3>1, AheadUntouched
      <4>2. ans = "CONTINUE"
        BY <1>2, <2>3, <2>5, <4>1, CallSees
      <4> QED
        BY <2>3, <3>1, <4>2 DEF Silent
    <3>2. CASE d # Entry
      <4>1. Seen(d)
        BY <1>2, <2>3, <2>5, <3>2, CallSees
      <4>2. d \in Entries
        BY DEF Entries
      <4> QED
        BY <2>3, <3>2, <4>1, <4>2 DEF SeenInv
    <3> QED
      BY <3>1, <3>2
  <2> QED
    BY <2>3, <2>4, <2>5 DEF SeenInv
<1> QED
  BY <1>1, <1>2, SeqCases

-----------------------------------------------------------------------------
(* Without a pool: what a STOP leaves alone *)

\* What is ahead in a listing that was touched is not below another entry.
LEMMA TouchedAhead ==
  ASSUME SeqTypeOK, PlaceInv, MetInv, SeenInv, ~mode.inverted,
         NEW p \in Dirs, Touched(p), NEW x \in Range(Children[p]),
         NEW e \in Entries, x \in Subtree(e), Subtree(e) \subseteq AheadOf(mode, Loops)
  PROVE  x = e
<1> SUFFICES ASSUME x # e
             PROVE  FALSE
  OBVIOUS
<1>1. e \in Dirs /\ x \in Below[e]
  BY DEF Subtree
<1>2. p = e \/ p \in Below[e]
  BY <1>1, BelowParent
<1>3. p \in AheadOf(mode, Loops)
  BY <1>1, <1>2 DEF Subtree
<1> QED
  BY <1>3, AheadUntouched

\* A call touches at most the directory that it enters.
LEMMA CallTouches ==
  ASSUME SeqTypeOK, PlaceInv, MetInv, SeenInv, ~mode.inverted, NEW ans \in Answers,
         NEW isDir \in BOOLEAN, NEW exists \in BOOLEAN, CallStep(ans, isDir, exists),
         NEW p \in Dirs, Touched(p)'
  PROVE  Touched(p) \/ (p = Entry /\ ans = "CONTINUE" /\ Deeper(isDir))
<1>1. AtEntry
  BY CallMoves, CallTells
<1>2. CASE Seen(p)'
  BY <1>2, CallSees DEF Touched
<1>3. CASE \E c \in Range(Children[p]) \cap Dirs : c # Start /\ Seen(c)'
  <2>1. PICK c \in Range(Children[p]) \cap Dirs : c # Start /\ Seen(c)'
    BY <1>3
  <2>2. CASE Seen(c)
    BY <2>1, <2>2 DEF Touched
  <2>3. CASE c = Entry
    <3>1. p = Top.dir
      BY <1>1, <2>1, <2>3, TreeFacts, EntryPlace
    <3>2. InFrames(Top.dir)
      BY CallDirs
    <3> QED
      BY <3>1, <3>2 DEF Touched, Seen
  <2> QED
    BY <2>1, <2>2, <2>3, CallSees
<1> QED
  BY <1>2, <1>3 DEF Touched

LEMMA MuteTouches ==
  ASSUME SeqTypeOK, PlaceInv, MetInv, NEW p \in Dirs, Touched(p)',
         \/ SeqListingEnd \/ SeqFilter \/ SeqThrows \/ UNCHANGED seqVars
         \/ \E ans \in Answers : ReportFailed(ans)
  PROVE  Touched(p)
<1>1. \A d \in Dirs : Seen(d)' => Seen(d)
  BY MuteSees
<1> QED
  BY <1>1 DEF Touched

\* What a walk that nothing disturbs loses sight of when it makes no call.
LEMMA MuteLoses ==
  ASSUME SeqTypeOK, PlaceInv, MetInv, ~mode.inverted, ~vanished, ~threw',
         \/ SeqListingEnd \/ SeqFilter \/ SeqThrows \/ UNCHANGED seqVars
         \/ \E ans \in Answers : ReportFailed(ans)
  PROVE  \/ AheadOf(mode, Loops') = AheadOf(mode, Loops)
         \/ /\ AtEntry /\ Entry \in Hidden /\ Loops = frames
            /\ Loops' = Advanced
            /\ AheadOf(mode, Loops) = Subtree(Entry) \cup AheadOf(mode, Loops')
<1>1. CASE SeqListingEnd
  <2>1. Walking /\ Loops = frames /\ Top.next > Len(Listing)
    BY <1>1, SeqFrames DEF SeqListingEnd
  <2>2. frames' = Tail(frames) /\ at' # "failed"
    BY <1>1 DEF SeqListingEnd, Returns, Unwound, Goto
  <2>3. Loops' = Tail(frames)
    BY <2>2 DEF Loops
  <2> QED
    BY <2>1, <2>3, EndAhead
<1>2. CASE SeqFilter
  <2>1. AtEntry /\ Walking /\ Loops = frames /\ Entry \in Hidden
    BY <1>2, SeqFrames, EntryPlace DEF SeqFilter
  <2>2. frames' = Advanced /\ at' # "failed"
    BY <1>2 DEF SeqFilter, Goto
  <2>3. Loops' = Advanced
    BY <2>2 DEF Loops
  <2>4. Separate(mode, frames)
    BY <2>1 DEF MetInv
  <2> QED
    BY <2>1, <2>3, <2>4, AdvanceUnfolds DEF SeqTypeOK
<1>3. ~SeqThrows
  BY DEF SeqThrows
<1>4. CASE UNCHANGED seqVars
  <2>1. Loops' = Loops
    BY <1>4 DEF seqVars, Loops, Advanced, Top
  <2> QED
    BY <2>1
<1>5. ~ \E ans \in Answers : ReportFailed(ans)
  BY DEF ReportFailed, PlaceInv
<1> QED
  BY <1>1, <1>2, <1>3, <1>4, <1>5

\* The same of a call that is not answered STOP or ABORT.
LEMMA CallLoses ==
  ASSUME SeqTypeOK, PlaceInv, MetInv, ~mode.inverted, NEW ans \in Answers \ {"STOP", "ABORT"},
         NEW isDir \in BOOLEAN, NEW exists \in BOOLEAN, CallStep(ans, isDir, exists), ~vanished'
  PROVE  /\ AheadOf(mode, frames) = Subtree(Entry) \cup AheadOf(mode, Advanced)
         /\ AheadOf(mode, Advanced) \subseteq AheadOf(mode, Loops')
         /\ ans = "CONTINUE" /\ Deeper(isDir) =>
              Entry \in Dirs /\ Below[Entry] \subseteq AheadOf(mode, Loops')
         /\ ~(ans = "CONTINUE" /\ Deeper(isDir)) => Loops' = Advanced
         /\ isDir = (Entry \in Dirs) /\ exists
<1>1. /\ AtEntry /\ Walking /\ Loops = frames /\ isDir = (Entry \in Dirs) /\ exists
  BY CallMoves, CallTells
<1>2. Separate(mode, frames)
  BY <1>1 DEF MetInv
<1>3. AheadOf(mode, frames) = Subtree(Entry) \cup AheadOf(mode, Advanced)
  BY <1>1, <1>2, AdvanceUnfolds DEF SeqTypeOK
<1>4. ~Climbs(isDir) /\ (Deeper(isDir) => Entry \in Dirs)
  BY <1>1 DEF Climbs, Deeper
<1>5. CASE ans = "CONTINUE" /\ Deeper(isDir)
  <2>1. Entry \in Dirs /\ Loops' = <<First(Entry, Top.up)>> \o Advanced
    BY <1>1, <1>4, <1>5, CallMoves
  <2> QED
    BY <1>1, <1>2, <1>3, <1>5, <2>1, DeeperAhead DEF SeqTypeOK
<1>6. CASE ~(ans = "CONTINUE" /\ Deeper(isDir))
  <2>1. Loops' = Advanced
    BY <1>1, <1>4, <1>6, CallMoves
  <2> QED
    BY <1>1, <1>3, <1>6, <2>1
<1> QED
  BY <1>5, <1>6

LEMMA ListingKept ==
  SeqTypeOK /\ PlaceInv /\ AbortUnwinds /\ MetInv /\ SeenInv /\ ListingInv /\ [SeqNext]_seqVars => ListingInv'
<1> SUFFICES ASSUME SeqTypeOK, PlaceInv, AbortUnwinds, MetInv, SeenInv, ListingInv, [SeqNext]_seqVars,
                    ~mode'.inverted, ~threw', ~vanished', ~Aborted',
                    NEW p \in Dirs, Touched(p)', \A c \in Range(Children[p]) : reply'[c] # "STOP",
                    NEW x \in Range(Children[p]) \ (Hidden \cup Dirs)
             PROVE  told'[x] = 1 \/ x \in AheadOf(mode', Loops')
  BY DEF ListingInv
<1>1. x \in Entries /\ x \in Subtree(x) /\ x \notin Dirs /\ x \notin Hidden
  BY TreeFacts DEF Subtree
<1>2. ASSUME \/ SeqListingEnd \/ SeqFilter \/ SeqThrows \/ UNCHANGED seqVars
             \/ \E ans \in Answers : ReportFailed(ans)
      PROVE  told'[x] = 1 \/ x \in AheadOf(mode', Loops')
  <2>1. mode' = mode /\ told' = told /\ reply' = reply /\ vanished' = vanished
    BY <1>2, MuteStep DEF MetInv
  <2>2. ~threw /\ ~Aborted
    BY <1>2, <2>1 DEF SeqListingEnd, SeqFilter, SeqThrows, seqVars, ReportFailed, Aborted
  <2>3. Touched(p)
    BY <1>2, MuteTouches
  <2>4. told[x] = 1 \/ x \in AheadOf(mode, Loops)
    BY <2>1, <2>2, <2>3 DEF ListingInv
  <2>5. ASSUME AtEntry, Entry \in Hidden, x \in Subtree(Entry), Subtree(Entry) \subseteq AheadOf(mode, Loops)
        PROVE  FALSE
    BY <1>1, <2>1, <2>3, <2>5, TouchedAhead, EntryPlace
  <2> QED
    BY <1>2, <2>1, <2>4, <2>5, MuteLoses
<1>3. ASSUME NEW ans \in Answers, NEW isDir \in BOOLEAN, NEW exists \in BOOLEAN,
             CallStep(ans, isDir, exists)
      PROVE  told'[x] = 1 \/ x \in AheadOf(mode', Loops')
  <2>1. Call(ans, isDir, exists)
    BY <1>3, CallMoves
  <2>2. /\ at = "check" /\ AtEntry /\ Walking /\ Loops = frames
        /\ Entry \in Entries /\ told[Entry] = 0 /\ reply[Entry] = "none"
        /\ \A e \in Entries \ {Entry} : told'[e] = told[e] /\ reply'[e] = reply[e]
        /\ Silent(isDir) => ans = "CONTINUE"
        /\ ~Silent(isDir) => told'[Entry] = 1 /\ reply'[Entry] = ans
        /\ ~vanished /\ isDir = (Entry \in Dirs) /\ mode' = mode /\ threw' = threw
    BY <2>1, CallTells, CallMeets
  <2>3. Separate(mode, frames)
    BY <2>2 DEF MetInv
  <2>4. ~Aborted /\ ans # "ABORT"
    BY <2>2 DEF AbortUnwinds, Aborted
  <2>5. \A c \in Range(Children[p]) : reply[c] # "STOP"
    BY <2>2, TreeFacts
  <2>6. Touched(p) => told[x] = 1 \/ x \in AheadOf(mode, frames)
    BY <2>2, <2>4, <2>5 DEF ListingInv
  <2>7. told[x] = 1 => told'[x] = 1
    BY <1>1, <2>2
  <2>8. CASE ans = "STOP"
    <3>1. Touched(p)
      BY <1>3, <2>2, <2>8, CallTouches
    <3>2. reply'[Entry] = "STOP" /\ ~Climbs(isDir)
      BY <2>2, <2>8 DEF Climbs
    <3>3. Loops' = Tail(frames)
      BY <1>3, <2>8, CallMoves
    <3>4. AheadOf(mode, frames) = Ahead(mode, Top) \cup AheadOf(mode, Tail(frames))
      BY <2>2, HeadAhead DEF Walking, Top
    <3>5. ASSUME x \in Ahead(mode, Top)
          PROVE  FALSE
      <4>1. PICK e \in Rest(Top) : x \in Subtree(e)
        BY <2>2, <3>5 DEF Ahead
      <4>2. Subtree(e) \subseteq AheadOf(mode, Loops)
        BY <2>2, <3>4, <4>1 DEF Ahead
      <4>3. e \in Range(Children[Top.dir]) /\ e \in Entries
        <5>1. Top.dir \in Dirs /\ Top.next \in Nat \ {0}
          BY <2>2, FrameFacts DEF Frame
        <5>2. PICK i \in Top.next..Len(Children[Top.dir]) : e = Children[Top.dir][i]
          BY <4>1 DEF Rest
        <5>3. i \in 1..Len(Children[Top.dir])
          BY <5>1, <5>2, TreeFacts
        <5> QED
          BY <5>1, <5>2, <5>3, TreeFacts
      <4>4. x = e
        BY <2>2, <3>1, <4>1, <4>2, <4>3, TouchedAhead
      <4>5. p = Top.dir
        <5>1. Top.dir \in Dirs
          BY <2>2, EntryPlace
        <5> QED
          BY <4>3, <4>4, <5>1, TreeFacts
      <4> QED
        BY <2>2, <3>2, <4>5, EntryPlace
    <3> QED
      BY <2>2, <2>6, <2>7, <3>1, <3>3, <3>4, <3>5
  <2>9. CASE ans # "STOP"
    <3>1. /\ AheadOf(mode, frames) = Subtree(Entry) \cup AheadOf(mode, Advanced)
          /\ AheadOf(mode, Advanced) \subseteq AheadOf(mode, Loops')
          /\ ans = "CONTINUE" /\ Deeper(isDir) =>
               Entry \in Dirs /\ Below[Entry] \subseteq AheadOf(mode, Loops')
      BY <1>3, <2>2, <2>4, <2>9, CallLoses
    <3>2. CASE Touched(p)
      <4>1. ASSUME x \in Subtree(Entry)
            PROVE  told'[x] = 1
        <5>1. x = Entry
          BY <2>2, <3>1, <3>2, <4>1, TouchedAhead
        <5>2. ~Silent(isDir)
          BY <1>1, <2>2, <5>1 DEF Silent
        <5> QED
          BY <2>2, <5>1, <5>2
      <4> QED
        BY <2>2, <2>6, <2>7, <3>1, <3>2, <4>1
    <3>3. CASE p = Entry /\ ans = "CONTINUE" /\ Deeper(isDir)
      BY <2>2, <3>1, <3>3, BelowFacts
    <3> QED
      BY <1>3, <2>2, <3>2, <3>3, CallTouches
  <2> QED
    BY <2>8, <2>9
<1> QED
  BY <1>2, <1>3, SeqCases

-----------------------------------------------------------------------------
(* Without a pool: what a walk that nothing disturbs meets *)

LEMMA CalmKept ==
  SeqTypeOK /\ PlaceInv /\ (~mode.inverted => MetInv) /\ CalmInv /\ [SeqNext]_seqVars => CalmInv'
<1> SUFFICES ASSUME SeqTypeOK, PlaceInv, ~mode.inverted => MetInv, CalmInv, [SeqNext]_seqVars, Calm'
             PROVE  /\ at' = "over" => result' = "DONE"
                    /\ ~mode'.inverted =>
                         /\ \A k \in DOMAIN frames' : frames'[k].dir \in InReach'
                         /\ \A e \in Entries : told'[e] > 0 => e \in SeqWanted'
                         /\ \A e \in SeqWanted' : told'[e] > 0 \/ e \in AheadOf(mode', Loops')
  BY DEF CalmInv
<1> DEFINE Reach == InReach
           Want == SeqWanted
<1>0. /\ ~threw' /\ ~vanished' /\ \A e \in Entries : reply'[e] \in {"none", "CONTINUE"}
      /\ mode' = mode => InReach' = Reach /\ SeqWanted' = Want
      /\ Want \subseteq Entries
  BY DEF Calm, InReach, SeqWanted, VisibleIn
<1>1. ASSUME \/ SeqListingEnd \/ SeqFilter \/ SeqThrows \/ UNCHANGED seqVars
             \/ \E ans \in Answers : ReportFailed(ans)
      PROVE  /\ at' = "over" => result' = "DONE"
             /\ ~mode.inverted =>
                  /\ \A d \in Dirs : InFrames(d)' => d \in Reach
                  /\ \A e \in Entries : told'[e] > 0 => e \in Want
                  /\ \A e \in Want : told'[e] > 0 \/ e \in AheadOf(mode, Loops')
             /\ mode' = mode
  <2>1. mode' = mode /\ told' = told /\ reply' = reply /\ vanished' = vanished
    BY <1>1, MuteStep
  <2>2. Calm
    <3>1. ~threw
      BY <1>0, <1>1 DEF SeqListingEnd, SeqFilter, SeqThrows, seqVars, ReportFailed
    <3> QED
      BY <1>0, <2>1, <3>1 DEF Calm
  <2>3. at' = "over" => result' = "DONE"
    <3>1. CASE SeqListingEnd
      BY <3>1 DEF SeqListingEnd, Returns, Goto
    <3>2. CASE UNCHANGED seqVars
      BY <2>2, <3>2 DEF CalmInv, seqVars
    <3>3. CASE SeqFilter \/ \E ans \in Answers : ReportFailed(ans)
      BY <3>3 DEF SeqFilter, ReportFailed, Goto
    <3>4. ~SeqThrows
      BY <1>0 DEF SeqThrows
    <3> QED
      BY <1>1, <3>1, <3>2, <3>3, <3>4
  <2>4. ASSUME ~mode.inverted
        PROVE  /\ \A d \in Dirs : InFrames(d)' => d \in Reach
               /\ \A e \in Entries : told'[e] > 0 => e \in Want
               /\ \A e \in Want : told'[e] > 0 \/ e \in AheadOf(mode, Loops')
    <3>1. /\ \A k \in DOMAIN frames : frames[k].dir \in Reach
          /\ \A e \in Entries : told[e] > 0 => e \in Want
          /\ \A e \in Want : told[e] > 0 \/ e \in AheadOf(mode, Loops)
      BY <2>2, <2>4 DEF CalmInv
    <3>2. \A d \in Dirs : InFrames(d) => d \in Reach
      BY <3>1 DEF InFrames
    <3>3. \A d \in Dirs : InFrames(d)' => InFrames(d)
      BY <1>1, MuteDirs
    <3>4. ASSUME NEW e \in Want, AtEntry, Entry \in Hidden, Loops = frames, Loops' = Advanced,
                 e \in AheadOf(mode, frames), e \notin AheadOf(mode, Advanced)
          PROVE  FALSE
      <4>1. Walking /\ mode \in Modes /\ Separate(mode, frames)
        BY <2>4, <3>4, EntryPlace DEF MetInv, SeqTypeOK
      <4>2. Top.dir \in InReach
        BY <3>1, <4>1, FramesIn, InReachAreDirs
      <4>3. e \in VisibleIn(InReach)
        BY DEF SeqWanted
      <4> QED
        BY <2>4, <3>4, <4>1, <4>2, <4>3, AdvanceLeaves
    <3>5. \A e \in Want : told[e] > 0 \/ e \in AheadOf(mode, Loops')
      BY <1>0, <1>1, <2>1, <2>4, <3>1, <3>4, MuteLoses
    <3> HIDE DEF Reach, Want
    <3> QED
      BY <2>1, <3>1, <3>2, <3>3, <3>5
  <2> QED
    BY <2>1, <2>3, <2>4
<1>2. ASSUME NEW ans \in Answers, NEW isDir \in BOOLEAN, NEW exists \in BOOLEAN,
             CallStep(ans, isDir, exists)
      PROVE  /\ at' = "over" => result' = "DONE"
             /\ ~mode.inverted =>
                  /\ \A d \in Dirs : InFrames(d)' => d \in Reach
                  /\ \A e \in Entries : told'[e] > 0 => e \in Want
                  /\ \A e \in Want : told'[e] > 0 \/ e \in AheadOf(mode, Loops')
             /\ mode' = mode
  <2>1. Call(ans, isDir, exists)
    BY <1>2, CallMoves
  <2>2. /\ at = "check" /\ AtEntry /\ Walking /\ Loops = frames
        /\ Entry \in Entries /\ Entry \notin Hidden
        /\ \A e \in Entries \ {Entry} : told'[e] = told[e] /\ reply'[e] = reply[e]
        /\ Silent(isDir) => ans = "CONTINUE"
        /\ ~Silent(isDir) => reply'[Entry] = ans
        /\ mode' = mode /\ threw' = threw
    BY <2>1, CallTells
  <2>8. ASSUME ~mode.inverted
        PROVE  /\ told[Entry] = 0 /\ reply[Entry] = "none"
               /\ Silent(isDir) => told'[Entry] = 0
               /\ ~Silent(isDir) => told'[Entry] = 1
    BY <2>1, <2>8, CallMeets
  <2>3. ~vanished /\ exists /\ isDir = (Entry \in Dirs)
    BY <1>0, <2>1, CallTells
  <2>4. ~mode.inverted => Calm
    BY <1>0, <2>2, <2>3, <2>8 DEF Calm
  <2>5. ans = "CONTINUE"
    BY <1>0, <2>2 DEF Answers
  <2>6. at' = "over" => result' = "DONE"
    BY <1>2, <2>3, <2>5, CallMoves
  <2>7. ASSUME ~mode.inverted
        PROVE  /\ \A d \in Dirs : InFrames(d)' => d \in Reach
               /\ \A e \in Entries : told'[e] > 0 => e \in Want
               /\ \A e \in Want : told'[e] > 0 \/ e \in AheadOf(mode, Loops')
    <3>1. /\ \A k \in DOMAIN frames : frames[k].dir \in Reach
          /\ \A e \in Entries : told[e] > 0 => e \in Want
          /\ \A e \in Want : told[e] > 0 \/ e \in AheadOf(mode, frames)
      BY <2>2, <2>4, <2>7 DEF CalmInv
    <3>2. Top.dir \in Reach /\ Top.dir \in Dirs /\ Entry \in Range(Children[Top.dir])
      BY <2>2, <3>1, EntryPlace, FramesIn, InReachAreDirs
    <3>3. Deeper(isDir) => Entry \in Reach
      BY <2>2, <2>3, <3>2, ReachFacts DEF Deeper, InReach
    <3>4. \A d \in Dirs : InFrames(d)' => d \in Reach
      <4>1. \A d \in Dirs : InFrames(d) => d \in Reach
        BY <3>1 DEF InFrames
      <4> HIDE DEF Reach
      <4> QED
        BY <1>2, <2>7, <3>3, <4>1, CallDirs
    <3>5. Entry \in VisibleIn(InReach)
      BY <2>2, <3>2 DEF VisibleIn, Parents
    <3>6. ~Silent(isDir) <=> Entry \in Want
      BY <2>2, <2>3, <3>5 DEF Silent, SeqWanted
    <3>7. /\ AheadOf(mode, frames) = Subtree(Entry) \cup AheadOf(mode, Advanced)
          /\ AheadOf(mode, Advanced) \subseteq AheadOf(mode, Loops')
          /\ Deeper(isDir) => Entry \in Dirs /\ Below[Entry] \subseteq AheadOf(mode, Loops')
      BY <1>0, <1>2, <2>5, <2>7, CallLoses
    <3>8. ASSUME NEW e \in Want, e \in AheadOf(mode, frames), e \notin AheadOf(mode, Loops')
          PROVE  e = Entry
      <4>1. CASE Deeper(isDir)
        BY <3>7, <3>8, <4>1 DEF Subtree
      <4>2. CASE ~Deeper(isDir)
        <5>1. Entry \in Dirs => ~mode.recursive
          BY <2>3, <2>7, <4>2 DEF Deeper
        <5>2. Separate(mode, frames) /\ mode \in Modes
          BY <2>2, <2>7 DEF MetInv, SeqTypeOK
        <5>3. e \in VisibleIn(InReach) /\ Top.dir \in InReach
          BY <3>2 DEF SeqWanted
        <5> QED
          BY <2>2, <2>7, <3>7, <3>8, <5>1, <5>2, <5>3, AdvanceLeaves
      <4> QED
        BY <4>1, <4>2
    <3> HIDE DEF Reach, Want
    <3>9. \A e \in Entries : told'[e] > 0 => e \in Want
      BY <2>2, <2>7, <2>8, <3>1, <3>6
    <3>10. \A e \in Want : told'[e] > 0 \/ e \in AheadOf(mode, Loops')
      <4> SUFFICES ASSUME NEW e \in Want, e \notin AheadOf(mode, Loops')
                   PROVE  told'[e] > 0
        OBVIOUS
      <4>1. e \in Entries
        BY <1>0
      <4>2. CASE e = Entry
        BY <2>2, <2>7, <2>8, <3>6, <4>2
      <4>3. CASE e # Entry
        BY <2>2, <2>7, <2>8, <3>1, <3>8, <4>1, <4>3
      <4> QED
        BY <4>2, <4>3
    <3> QED
      BY <3>4, <3>9, <3>10
  <2> QED
    BY <2>2, <2>6, <2>7
<1> HIDE DEF Reach, Want
<1>3. /\ at' = "over" => result' = "DONE"
      /\ ~mode.inverted =>
           /\ \A d \in Dirs : InFrames(d)' => d \in Reach
           /\ \A e \in Entries : told'[e] > 0 => e \in Want
           /\ \A e \in Want : told'[e] > 0 \/ e \in AheadOf(mode, Loops')
      /\ mode' = mode
  BY <1>1, <1>2, SeqCases
<1>4. frames' \in Seq(Frame)
  BY SeqTypeKept DEF SeqTypeOK
<1>5. ASSUME ~mode.inverted, NEW k \in DOMAIN frames'
      PROVE  frames'[k].dir \in Reach
  <2>1. frames'[k] \in Frame
    BY <1>4
  <2>2. PICK d \in Dirs : d = frames'[k].dir
    BY <2>1 DEF Frame
  <2>3. InFrames(d)'
    BY <2>2 DEF InFrames
  <2> QED
    BY <1>3, <1>5, <2>2, <2>3
<1> QED
  BY <1>0, <1>3, <1>5

-----------------------------------------------------------------------------
(* Without a pool: the turns of an inverted walk *)

LEMMA SeqModeKept == SeqTypeOK /\ PlaceInv /\ [SeqNext]_seqVars => mode' = mode
<1> SUFFICES ASSUME SeqTypeOK, PlaceInv, [SeqNext]_seqVars
             PROVE  mode' = mode
  OBVIOUS
<1>1. ASSUME NEW ans \in Answers, NEW isDir \in BOOLEAN, NEW exists \in BOOLEAN,
             CallStep(ans, isDir, exists)
      PROVE  mode' = mode
  BY <1>1, CallMoves, CallTells
<1> QED
  BY <1>1, MuteStep, SeqCases

\* What the one frame of an inverted walk becomes
LEMMA OneFrame ==
  ASSUME Walking, Len(frames) <= 1
  PROVE  /\ Tail(frames) = <<>> /\ Advanced = <<[Top EXCEPT !.next = @ + 1]>>
         /\ \A f \in Frame : <<f>> \o Tail(frames) = <<f>>
<1>1. frames \in Seq(Frame) /\ frames # <<>>
  BY DEF Walking
<1>2. Tail(frames) \in Seq(Frame) /\ Len(Tail(frames)) = 0
  <2>1. /\ Len(frames) \in Nat /\ Len(frames) # 0
        /\ Tail(frames) \in Seq(Frame) /\ Len(Tail(frames)) = Len(frames) - 1
    BY <1>1, HeadTailProperties, EmptySeq, LenProperties
  <2> QED
    BY <2>1
<1>3. Tail(frames) = <<>>
  BY <1>2, EmptySeq
<1>4. \A f \in Frame : <<f>> \o <<>> = <<f>>
  OBVIOUS
<1>5. [Top EXCEPT !.next = @ + 1] \in Frame
  <2>1. \A f \in Frame : [f EXCEPT !.next = @ + 1] \in Frame
    BY DEF Frame
  <2> QED
    BY <2>1, FrameFacts
<1> QED
  BY <1>3, <1>4, <1>5 DEF Advanced

LEMMA UpKept == SeqTypeOK /\ PlaceInv /\ UpInv /\ [SeqNext]_seqVars => UpInv'
<1> SUFFICES ASSUME SeqTypeOK, PlaceInv, UpInv, [SeqNext]_seqVars, mode.inverted
             PROVE  /\ at' # "failed" /\ Len(frames') <= 1
                    /\ frames' # <<>> => OnWay(mode, Top')
                    /\ \A e \in Entries :
                         told'[e] + Cardinality(IF frames' = <<>> THEN {} ELSE Coming(mode, Top', e))
                           <= Cardinality(Turns(mode, e))
  BY SeqModeKept DEF UpInv
<1>1. /\ mode \in Modes /\ told \in [Entries -> Nat] /\ at # "failed" /\ frames \in Seq(Frame)
      /\ Len(frames) <= 1
  BY DEF SeqTypeOK, UpInv
<1>2. \A e : IsFiniteSet(Turns(mode, e)) /\ Cardinality(Turns(mode, e)) \in Nat
  <2>1. First(Start, 0) \in Frame
    BY TreeAssumption DEF First, Frame
  <2> QED
    BY <1>1, <2>1, ComingFacts
<1>3. ASSUME Walking
      PROVE  /\ Top \in Frame /\ OnWay(mode, Top)
             /\ \A e \in Entries : /\ told[e] + Cardinality(Coming(mode, Top, e)) <= Cardinality(Turns(mode, e))
                                   /\ IsFiniteSet(Coming(mode, Top, e))
                                   /\ Cardinality(Coming(mode, Top, e)) \in Nat
  <2>1. Top \in Frame /\ frames # <<>>
    BY <1>3, FrameFacts DEF Walking
  <2> QED
    BY <1>1, <2>1, ComingFacts DEF UpInv
\* No frames are left.
<1>4. ASSUME frames' = <<>>, at' # "failed",
             \A e \in Entries : told'[e] <= Cardinality(Turns(mode, e))
      PROVE  /\ at' # "failed" /\ Len(frames') <= 1
             /\ frames' # <<>> => OnWay(mode, Top')
             /\ \A e \in Entries :
                  told'[e] + Cardinality(IF frames' = <<>> THEN {} ELSE Coming(mode, Top', e))
                    <= Cardinality(Turns(mode, e))
  <2>1. told' \in [Entries -> Nat]
    BY SeqTypeKept DEF SeqTypeOK
  <2> QED
    BY <1>4, <2>1, FS_EmptySet
\* One frame is left.
<1>5. ASSUME NEW f \in Frame, frames' = <<f>>, at' # "failed", OnWay(mode, f),
             \A e \in Entries : told'[e] + Cardinality(Coming(mode, f, e)) <= Cardinality(Turns(mode, e))
      PROVE  /\ at' # "failed" /\ Len(frames') <= 1
             /\ frames' # <<>> => OnWay(mode, Top')
             /\ \A e \in Entries :
                  told'[e] + Cardinality(IF frames' = <<>> THEN {} ELSE Coming(mode, Top', e))
                    <= Cardinality(Turns(mode, e))
  <2>1. frames' # <<>> /\ Len(frames') = 1 /\ Top' = f
    BY <1>5 DEF Top
  <2> QED
    BY <1>5, <2>1
<1>6. ASSUME \/ SeqListingEnd \/ SeqFilter \/ SeqThrows \/ UNCHANGED seqVars
             \/ \E ans \in Answers : ReportFailed(ans)
      PROVE  /\ at' # "failed" /\ Len(frames') <= 1
             /\ frames' # <<>> => OnWay(mode, Top')
             /\ \A e \in Entries :
                  told'[e] + Cardinality(IF frames' = <<>> THEN {} ELSE Coming(mode, Top', e))
                    <= Cardinality(Turns(mode, e))
  <2>1. told' = told
    BY <1>6, MuteStep
  <2>2. \A e \in Entries : told[e] <= Cardinality(Turns(mode, e))
    BY <1>1, <1>2, <1>3, FS_EmptySet DEF UpInv, Walking
  <2>3. CASE SeqListingEnd
    <3>1. Walking
      BY <2>3, SeqFrames DEF SeqListingEnd
    <3>2. frames' = <<>> /\ at' # "failed"
      BY <1>1, <2>3, <3>1, OneFrame DEF SeqListingEnd, Returns, Unwound, Goto
    <3> QED
      BY <1>4, <2>1, <2>2, <3>2
  <2>4. CASE SeqFilter
    <3>1. AtEntry /\ Walking
      BY <2>4, SeqFrames DEF SeqFilter, AtEntry
    <3> DEFINE g == [Top EXCEPT !.next = @ + 1]
    <3>2. frames' = <<g>> /\ at' # "failed"
      BY <1>1, <2>4, <3>1, OneFrame DEF SeqFilter, Goto
    <3>3. ASSUME NEW e \in Entries
          PROVE  /\ g \in Frame /\ OnWay(mode, g)
                 /\ Coming(mode, g, e) \subseteq Coming(mode, Top, e)
      BY <1>1, <1>3, <3>1, ComingNext DEF AtEntry, Listing
    <3> HIDE DEF g
    <3>4. ASSUME NEW e \in Entries
          PROVE  told[e] + Cardinality(Coming(mode, g, e)) <= Cardinality(Turns(mode, e))
      <4>1. Cardinality(Coming(mode, g, e)) \in Nat /\ Cardinality(Coming(mode, g, e)) <= Cardinality(Coming(mode, Top, e))
        BY <1>3, <3>1, <3>3, TurnTaken
      <4> QED
        BY <1>1, <1>2, <1>3, <3>1, <4>1
    <3>5. g \in Frame /\ OnWay(mode, g)
      BY <3>1, <3>3, EntryPlace
    <3> QED
      BY <1>5, <2>1, <3>2, <3>4, <3>5
  <2>5. CASE SeqThrows
    <3>1. frames' = <<>> /\ at' # "failed"
      BY <2>5 DEF SeqThrows, Goto
    <3> QED
      BY <1>4, <2>1, <2>2, <3>1
  <2>6. CASE UNCHANGED seqVars
    <3>1. frames' = frames /\ at' = at /\ Top' = Top
      BY <2>6 DEF seqVars, Top
    <3> QED
      BY <2>1, <3>1 DEF UpInv
  <2>7. ~\E ans \in Answers : ReportFailed(ans)
    BY <1>1 DEF ReportFailed
  <2> QED
    BY <1>6, <2>3, <2>4, <2>5, <2>6, <2>7
<1>7. ASSUME NEW ans \in Answers, NEW isDir \in BOOLEAN, NEW exists \in BOOLEAN,
             CallStep(ans, isDir, exists)
      PROVE  /\ at' # "failed" /\ Len(frames') <= 1
             /\ frames' # <<>> => OnWay(mode, Top')
             /\ \A e \in Entries :
                  told'[e] + Cardinality(IF frames' = <<>> THEN {} ELSE Coming(mode, Top', e))
                    <= Cardinality(Turns(mode, e))
  <2>1. Call(ans, isDir, exists)
    BY <1>7, CallMoves
  <2>2. /\ AtEntry /\ Walking /\ Entry \in Entries
        /\ \A e \in Entries \ {Entry} : told'[e] = told[e]
        /\ told'[Entry] \in {told[Entry], told[Entry] + 1}
        /\ told' \in [Entries -> Nat]
    BY <2>1, CallTells
  <2>3. Top.up \in Coming(mode, Top, Entry)
    BY <1>1, <1>3, <2>2, ComingNext DEF AtEntry, Listing, Entry
  <2>4. ASSUME NEW f \in Frame, NEW e \in Entries,
               Coming(mode, f, e) \subseteq Coming(mode, Top, e), Top.up \notin Coming(mode, f, Entry)
        PROVE  told'[e] + Cardinality(Coming(mode, f, e)) <= Cardinality(Turns(mode, e))
    <3>1. /\ Cardinality(Coming(mode, f, e)) \in Nat
          /\ Cardinality(Coming(mode, f, e)) <= Cardinality(Coming(mode, Top, e))
          /\ e = Entry => Cardinality(Coming(mode, f, e)) + 1 <= Cardinality(Coming(mode, Top, e))
      BY <1>3, <2>2, <2>3, <2>4, TurnTaken
    <3>2. told[e] \in Nat /\ told'[e] \in Nat /\ (e # Entry => told'[e] = told[e])
      BY <1>1, <2>2
    <3>3. told'[e] <= told[e] \/ (e = Entry /\ told'[e] <= told[e] + 1)
      BY <2>2, <3>2
    <3> QED
      BY <1>2, <1>3, <2>2, <3>1, <3>2, <3>3
  <2> DEFINE g == [Top EXCEPT !.next = @ + 1]
  <2>5. /\ g \in Frame /\ OnWay(mode, g) /\ Top.up \notin Coming(mode, g, Entry)
        /\ \A e \in Entries : Coming(mode, g, e) \subseteq Coming(mode, Top, e)
    BY <1>1, <1>3, <2>2, ComingNext DEF AtEntry, Listing, Entry
  <2>6. Tail(frames) = <<>> /\ Advanced = <<g>> /\ \A f \in Frame : <<f>> \o Tail(frames) = <<f>>
    BY <1>1, <2>2, OneFrame
  <2> HIDE DEF g
  <2>7. CASE frames' = <<>> /\ at' # "failed"
    <3>1. \A e \in Entries : told'[e] <= Cardinality(Turns(mode, e))
      <4> SUFFICES ASSUME NEW e \in Entries
                   PROVE  told'[e] <= Cardinality(Turns(mode, e))
        OBVIOUS
      <4>1. told'[e] + Cardinality(Coming(mode, g, e)) <= Cardinality(Turns(mode, e))
        BY <2>4, <2>5
      <4>2. Cardinality(Coming(mode, g, e)) \in Nat /\ told'[e] \in Nat
        BY <1>1, <2>2, <2>5, ComingFacts
      <4> QED
        BY <1>2, <4>1, <4>2
    <3> QED
      BY <1>4, <2>7, <3>1
  <2>8. CASE frames' = Advanced /\ at' # "failed"
    BY <1>5, <2>4, <2>5, <2>6, <2>8
  <2>9. CASE at' # "failed" /\ \E f \in Above : frames' = <<f>> \o Tail(frames)
    <3>1. PICK f \in Above : frames' = <<f>> \o Tail(frames)
      BY <2>9
    <3>2. /\ OnWay(mode, f) /\ f \in Frame /\ Top.up \notin Coming(mode, f, Entry)
          /\ \A e \in Entries : Coming(mode, f, e) \subseteq Coming(mode, Top, e)
      BY <1>1, <1>3, <2>2, ComingUp
    <3>3. frames' = <<f>>
      BY <2>6, <3>1, <3>2
    <3> QED
      BY <1>5, <2>4, <2>9, <3>2, <3>3
  <2>10. ~Deeper(isDir)
    BY DEF Deeper
  <2>11. \/ frames' = <<>> /\ at' # "failed"
         \/ frames' = Advanced /\ at' # "failed"
         \/ at' # "failed" /\ \E f \in Above : frames' = <<f>> \o Tail(frames)
    BY <1>7, <2>6, <2>10, CallMoves
  <2> QED
    BY <2>7, <2>8, <2>9, <2>11
<1> QED
  BY <1>6, <1>7, SeqCases

\* The invariant of the walk without a pool: where the walk is, what it has met
\* and what it has ahead, and what each answer and each listing leaves.
THEOREM SeqInvariance == SeqSpec => []SeqInv
<1>1. SeqInit => SeqInv
  BY InitSeq
<1>2. SeqInv /\ [SeqNext]_seqVars => SeqInv'
  <2> SUFFICES ASSUME SeqInv, [SeqNext]_seqVars
               PROVE  SeqInv'
    OBVIOUS
  <2>1. SeqTypeOK' /\ PlaceInv' /\ AbortUnwinds' /\ UpInv'
    BY SeqTypeKept, PlaceKept, AbortKept, UpKept DEF SeqInv
  <2>2. mode' = mode /\ (Clean(mode)' => Clean(mode))
    BY SeqModeKept DEF Clean, Climbed, SeqInv
  <2>3. ~mode.inverted => MetInv
    BY DEF SeqInv, Clean
  <2>4. Clean(mode)' => MetInv' /\ StopInv'
    BY <2>2, MetKept, StopKept DEF SeqInv
  <2>5. SeenInv' /\ ListingInv'
    <3>1. CASE mode.inverted
      BY <2>2, <3>1 DEF SeenInv, ListingInv
    <3>2. CASE ~mode.inverted
      BY <2>3, <3>2, SeenKept, ListingKept DEF SeqInv
    <3> QED
      BY <3>1, <3>2
  <2>6. CalmInv'
    BY <2>3, CalmKept DEF SeqInv
  <2> QED
    BY <2>1, <2>4, <2>5, <2>6 DEF SeqInv
<1> QED
  BY <1>1, <1>2, PTL DEF SeqSpec

\* An ABORT ends all the walks, however deep they are: walk returns ABORTED.
THEOREM AbortDoesUnwind == SeqSpec => []AbortUnwinds
BY SeqInvariance, PTL DEF SeqInv

\* A directory is opened before what is in it, and what is in one that was
\* answered SKIP or STOP is not reached.
THEOREM ParentComesFirst == SeqSpec => []ParentFirst
<1>1. SeqInv => ParentFirst
  <2> SUFFICES ASSUME SeqInv, ~mode.inverted, NEW d \in Dirs \ {Start},
                      NEW x \in Range(Children[d]), told[x] > 0
               PROVE  (mode.filesOnly \/ told[d] = 1) /\ reply[d] \in {"none", "CONTINUE"}
    BY DEF ParentFirst
  <2>1. Seen(d)
    BY DEF Seen
  <2> QED
    BY <2>1 DEF SeqInv, SeenInv
<1> QED
  BY <1>1, SeqInvariance, PTL

\* STOP leaves out the rest of its listing, and of that listing only.
THEOREM StopStaysLocal == SeqSpec => []StopIsLocal
<1>1. SeqInv => StopIsLocal
  <2> SUFFICES ASSUME SeqInv, Clean(mode), NEW d \in Dirs, NEW i \in 1..Len(Children[d]),
                      reply[Children[d][i]] = "STOP"
               PROVE  /\ \A k \in i + 1..Len(Children[d]) : told[Children[d][k]] = 0
                      /\ at = "over" /\ ~threw /\ ~vanished /\ ~Aborted /\ d # Start /\ ~mode.inverted =>
                           \A p \in Parents(d) : (\A x \in Range(Children[p]) : reply[x] # "STOP") =>
                             \A x \in Range(Children[p]) \ (Hidden \cup Dirs) : told[x] = 1
    BY DEF StopIsLocal
  <2>1. \A k \in i + 1..Len(Children[d]) : told[Children[d][k]] = 0
    BY DEF SeqInv, StopInv
  <2>2. ASSUME at = "over", ~threw, ~vanished, ~Aborted, d # Start, ~mode.inverted,
               NEW p \in Parents(d), \A x \in Range(Children[p]) : reply[x] # "STOP",
               NEW x \in Range(Children[p]) \ (Hidden \cup Dirs)
        PROVE  told[x] = 1
    <3>1. p \in Dirs /\ d \in Range(Children[p])
      BY DEF Parents
    <3>2. Children[d][i] \in Range(Children[d]) /\ Children[d][i] \in Entries
      BY TreeFacts
    <3>3. told[Children[d][i]] > 0
      <4>1. told[Children[d][i]] \in Nat /\ told[Children[d][i]] # 0
        BY <3>2 DEF SeqInv, SeqTypeOK, MetInv
      <4> QED
        BY <4>1
    <3>4. Touched(p)
      BY <2>2, <3>1, <3>2, <3>3 DEF Touched, Seen
    <3>5. told[x] = 1 \/ x \in AheadOf(mode, Loops)
      BY <2>2, <3>1, <3>4 DEF SeqInv, ListingInv
    <3>6. Loops = <<>>
      BY <2>2 DEF SeqInv, PlaceInv, Loops
    <3> QED
      BY <3>5, <3>6 DEF AheadOf
  <2> QED
    BY <2>1, <2>2
<1> QED
  BY <1>1, SeqInvariance, PTL

\* A walk that nothing disturbed returns DONE and has opened what it should,
\* once: the visible entries in reach.
THEOREM SeqIsComplete == SeqSpec => []SeqComplete
<1>1. SeqInv => SeqComplete
  <2> SUFFICES ASSUME SeqInv, at = "over", Calm
               PROVE  /\ result = "DONE"
                      /\ \A e \in Entries : told[e] <= Cardinality(Turns(mode, e)) /\ failed[e] = 0
                      /\ ~mode.inverted => {e \in Entries : told[e] = 1} = SeqWanted
    BY DEF SeqComplete, Calm
  <2>1. result = "DONE"
    BY DEF SeqInv, CalmInv
  <2>2. \A e \in Entries : told[e] \in Nat /\ failed[e] = 0
    BY DEF SeqInv, SeqTypeOK, PlaceInv, Calm
  <2>4. ~mode.inverted => \A e \in Entries : told[e] <= 1
    BY DEF SeqInv, MetInv, Clean
  <2>5. \A e \in Entries : told[e] <= Cardinality(Turns(mode, e))
    <3>1. CASE mode.inverted
      <4>1. frames = <<>>
        BY DEF SeqInv, PlaceInv
      <4>2. \A e \in Entries : told[e] + Cardinality({}) <= Cardinality(Turns(mode, e))
        BY <3>1, <4>1 DEF SeqInv, UpInv
      <4> QED
        BY <2>2, <4>2, FS_EmptySet
    <3>2. CASE ~mode.inverted
      <4>1. \A e \in Entries : Turns(mode, e) = {0}
        BY <3>2 DEF Turns
      <4> QED
        BY <2>4, <3>2, <4>1, FS_Singleton
    <3> QED
      BY <3>1, <3>2
  <2>3. ASSUME ~mode.inverted
        PROVE  {e \in Entries : told[e] = 1} = SeqWanted
    <3>1. Loops = <<>>
      BY DEF SeqInv, PlaceInv, Loops
    <3>2. AheadOf(mode, Loops) = {}
      BY <3>1 DEF AheadOf
    <3>3. /\ \A e \in Entries : told[e] > 0 => e \in SeqWanted
          /\ \A e \in SeqWanted : told[e] > 0
      BY <2>3, <3>2 DEF SeqInv, CalmInv
    <3>4. SeqWanted \subseteq Entries
      BY DEF SeqWanted, VisibleIn
    <3> QED
      BY <2>2, <2>3, <2>4, <3>3, <3>4
  <2> QED
    BY <2>1, <2>2, <2>3, <2>5
<1> QED
  BY <1>1, SeqInvariance, PTL
=============================================================================
