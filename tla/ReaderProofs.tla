----------------------------- MODULE ReaderProofs -----------------------------
(* Proofs about the pager of Reader: whoever stays within its protocol reads *)
(* the file, for every block size, every file and every sequence of calls.   *)
EXTENDS Reader, Integers, SequenceTheorems, TLAPS

-----------------------------------------------------------------------------
(* Blocks, and what is in the buffer *)

\* The multiples of the block size are ordered as their factors.
LEMMA TimesBlock ==
  ASSUME NEW k \in Nat, NEW m \in Nat, k <= m
  PROVE  k * Block \in Nat /\ k * Block <= m * Block
<1>1. Block \in Nat
  BY BlockAssumption
<1>2. k * Block \in Nat /\ (m - k) * Block \in Nat
  BY <1>1
<1>3. m * Block = k * Block + (m - k) * Block
  BY <1>1
<1> QED
  BY <1>2, <1>3

\* The file begins where a block begins.
LEMMA EdgeFirst == ASSUME NEW f \in File PROVE Edge(0, f)
BY BlockAssumption DEF Edge

\* The end of a block that begins at an edge is an edge.
LEMMA EdgeNext ==
  ASSUME NEW f \in File, NEW n \in Nat, n < f.size, Edge(n, f)
  PROVE  Edge(n + Least(Block, f.size - n), f)
<1>1. Block \in Nat /\ Block > 0 /\ f.size \in Nat
  BY BlockAssumption DEF File
<1>2. PICK k \in 0..n : n = k * Block
  BY <1>1 DEF Edge
<1>3. n + Block = (k + 1) * Block /\ k + 1 \in 0..n + Block
  BY <1>1, <1>2
<1>4. CASE Block < f.size - n
  BY <1>1, <1>3, <1>4 DEF Edge, Least
<1>5. CASE ~(Block < f.size - n)
  BY <1>1, <1>5 DEF Edge, Least
<1> QED
  BY <1>4, <1>5

\* Between two edges there is at least a block, or what is left of the file.
LEMMA EdgesApart ==
  ASSUME NEW f \in File, NEW n \in Nat, NEW m \in Nat, n < m, m <= f.size,
         Edge(n, f), Edge(m, f)
  PROVE  n + Least(Block, f.size - n) <= m
<1>1. Block \in Nat /\ Block > 0 /\ f.size \in Nat
  BY BlockAssumption DEF File
<1>2. CASE m = f.size
  BY <1>1, <1>2 DEF Least
<1>3. CASE m # f.size
  <2>1. PICK j \in 0..m : m = j * Block
    BY <1>3 DEF Edge
  <2>2. PICK k \in 0..n : n = k * Block
    BY <1>1 DEF Edge
  <2>3. k + 1 <= j
    <3>1. ~(j <= k)
      BY <2>1, <2>2, TimesBlock
    <3> QED
      BY <3>1
  <2>4. (k + 1) * Block <= j * Block
    BY <2>3, TimesBlock
  <2>5. n + Block <= m
    BY <1>1, <2>1, <2>2, <2>4
  <2> QED
    BY <1>1, <2>5 DEF Least
<1> QED
  BY <1>2, <1>3

\* A function on 1..n is a sequence of length n.
LEMMA IsSequence ==
  ASSUME NEW S, NEW n \in Nat, NEW f \in [1..n -> S]
  PROVE  f \in Seq(S) /\ Len(f) = n
<1>1. f \in Seq(S)
  BY IsASeq, SeqDef
<1> QED
  BY <1>1, LenProperties

\* A range of the file that the buffer holds is answered as it is in the file.
LEMMA BytesOfPrefix ==
  ASSUME NEW f \in File, NEW b \in Seq(Byte), Prefix(b, f),
         NEW from \in Nat, NEW to \in Nat, from <= to, to <= Len(b)
  PROVE  Bytes(b, from, to - from) = Slice(f, from, to)
<1>1. f.size \in Nat /\ Len(b) \in Nat /\ to <= f.size
  BY LenProperties DEF File, Prefix
<1>2. Least(to, f.size) - Least(from, f.size) = to - from
  BY <1>1 DEF Least
<1>3. \A i \in 1..to - from : from + i <= Len(b) /\ b[from + i] = <<f.version, from + i - 1>>
  BY <1>1 DEF Prefix
<1> QED
  BY <1>2, <1>3 DEF Bytes, Slice

\* What is appended to a prefix of the file at the prefix's end makes a longer
\* prefix; a buffer that is cut remains one.
LEMMA FilledPrefix ==
  ASSUME TypeOK, Prefix(buf, disk), NEW from \in Nat, NEW to \in Nat,
         from < to, to <= disk.size, from = Len(buf) \/ to <= Len(buf)
  PROVE  /\ Filled(from, to) \in Seq(Byte) /\ Len(Filled(from, to)) = to
         /\ Prefix(Filled(from, to), disk)
         /\ ~(from + Len(Lacking(to)) > to)
<1>1. disk.size \in Nat /\ disk.version \in Nat /\ Len(buf) \in Nat /\ Len(buf) <= disk.size
  BY LenProperties DEF TypeOK, File, Prefix
<1> DEFINE n == IF to <= Len(buf) THEN 0 ELSE to - Len(buf)
<1>2. Lacking(to) = [i \in 1..n |-> <<disk.version, Len(buf) + i - 1>>]
  <2>1. Least(to, disk.size) - Least(Len(buf), disk.size) = to - Len(buf)
    BY <1>1 DEF Least
  <2>2. 1..to - Len(buf) = 1..n
    BY <1>1
  <2> QED
    BY <2>1, <2>2 DEF Lacking, Slice
<1>3. Len(Lacking(to)) = n
  <2>1. n \in Nat
    BY <1>1
  <2>2. Lacking(to) \in [1..n -> Byte]
    BY <1>1, <1>2, <2>1 DEF Byte
  <2> QED
    BY <2>1, <2>2, IsSequence
<1>4. Filled(from, to) = [i \in 1..to |-> <<disk.version, i - 1>>]
  <2>1. ASSUME NEW i \in 1..to
        PROVE  Filled(from, to)[i] = <<disk.version, i - 1>>
    <3> DEFINE here == i > from /\ i - from <= Len(Lacking(to))
    <3>1. CASE here
      <4>1. from = Len(buf) /\ i - from \in 1..n
        BY <1>1, <1>3, <3>1
      <4>2. Filled(from, to)[i] = Lacking(to)[i - from]
        BY <3>1, <4>1 DEF Filled
      <4>3. Lacking(to)[i - from] = <<disk.version, Len(buf) + (i - from) - 1>>
        BY <1>2, <4>1
      <4> QED
        BY <1>1, <4>1, <4>2, <4>3
    <3>2. CASE ~here
      <4>1. i <= Len(buf)
        BY <1>1, <1>3, <3>2
      <4>2. Filled(from, to)[i] = buf[i]
        BY <3>2, <4>1 DEF Filled
      <4> QED
        BY <1>1, <4>1, <4>2 DEF Prefix
    <3> QED
      BY <3>1, <3>2
  <2>2. Filled(from, to) = [i \in 1..to |-> Filled(from, to)[i]]
    BY DEF Filled
  <2> QED
    BY <2>1, <2>2
<1>5. Filled(from, to) \in [1..to -> Byte]
  BY <1>1, <1>4 DEF Byte
<1>6. Filled(from, to) \in Seq(Byte) /\ Len(Filled(from, to)) = to
  BY <1>5, IsSequence
<1> QED
  BY <1>1, <1>3, <1>4, <1>6 DEF Prefix

\* Whatever is asked of load, the buffer remains a sequence of bytes.
LEMMA LoadType ==
  ASSUME TypeOK, NEW from \in Nat, NEW to \in Nat, Load(from, to)
  PROVE  buf' \in Seq(Byte) /\ wild' \in BOOLEAN
<1>1. disk.size \in Nat /\ disk.version \in Nat /\ Len(buf) \in Nat /\ buf \in [1..Len(buf) -> Byte]
  BY LenProperties DEF TypeOK, File
<1> DEFINE n == Least(to, disk.size) - Least(Len(buf), disk.size)
           m == IF n < 0 THEN 0 ELSE n
<1>2. Lacking(to) = [i \in 1..m |-> <<disk.version, Len(buf) + i - 1>>]
  <2>1. n \in Int
    BY <1>1 DEF Least
  <2>2. 1..n = 1..m
    BY <2>1
  <2> QED
    BY <2>2 DEF Lacking, Slice
<1>3. m \in Nat /\ Lacking(to) \in [1..m -> Byte]
  <2>1. n \in Int /\ m \in Nat
    BY <1>1 DEF Least
  <2> QED
    BY <1>1, <1>2, <2>1 DEF Byte
<1>4. Len(Lacking(to)) = m
  BY <1>3, IsSequence
<1>5. ASSUME NEW i \in 1..to
      PROVE  Filled(from, to)[i] \in Byte
  <2> DEFINE here == i > from /\ i - from <= Len(Lacking(to))
  <2>1. CASE here
    <3>1. i - from \in 1..m
      BY <1>3, <1>4, <2>1
    <3>2. Lacking(to)[i - from] \in Byte
      BY <1>3, <3>1
    <3> QED
      BY <2>1, <3>2 DEF Filled, Byte
  <2>2. CASE ~here /\ i <= Len(buf)
    <3>1. i \in 1..Len(buf) /\ buf[i] \in Byte
      BY <1>1, <2>2
    <3> QED
      BY <2>2, <3>1 DEF Filled
  <2>3. CASE ~here /\ ~(i <= Len(buf))
    BY <2>3 DEF Filled, Byte
  <2> QED
    BY <2>1, <2>2, <2>3
<1>6. Filled(from, to) \in [1..to -> Byte]
  <2>1. Filled(from, to) = [i \in 1..to |-> Filled(from, to)[i]]
    BY DEF Filled
  <2> QED
    BY <1>5, <2>1
<1>7. Filled(from, to) \in Seq(Byte)
  BY <1>6, IsSequence
<1>8. (from + Len(Lacking(to)) > to) \in BOOLEAN
  BY <1>3, <1>4
<1> QED
  BY <1>7, <1>8 DEF Load, TypeOK

-----------------------------------------------------------------------------
(* Types *)

LEMMA InitType == Init => TypeOK
<1> SUFFICES ASSUME Init PROVE TypeOK
  OBVIOUS
<1>1. disk \in File /\ seen \in File
  BY SizesAssumption DEF Init, File
<1>2. buf \in Seq(Byte)
  BY EmptySeq DEF Init
<1>3. saved \in Nat \X BOOLEAN
  BY DEF Init
<1> QED
  BY BlockAssumption, <1>1, <1>2, <1>3 DEF Init, TypeOK

LEMMA WriteType == TypeOK /\ Write => TypeOK'
BY SizesAssumption DEF Write, TypeOK, File, Opening, Scanning, reader, history

LEMMA OpenType ==
  TypeOK /\ (Open \/ \E next \in Opening : Resize(next) /\ saved' = saved) => TypeOK'
<1>1. ASSUME TypeOK, Open
      PROVE  TypeOK'
  <2>1. buf' \in Seq(Byte)
    BY <1>1, EmptySeq DEF Open
  <2>2. fileSize' \in Nat /\ pos' \in Nat /\ seen' \in File /\ disk' \in File
    BY <1>1, SizesAssumption DEF Open, TypeOK, File
  <2>3. at' \in {"closed", "open"}
    BY <1>1 DEF Open
  <2> QED
    BY BlockAssumption, <1>1, <2>1, <2>2, <2>3 DEF Open, TypeOK, Opening, Scanning
<1>2. ASSUME TypeOK, NEW next \in Opening, Resize(next), saved' = saved
      PROVE  TypeOK'
  BY <1>2, EmptySeq DEF Resize, TypeOK, File, Opening, Scanning
<1> QED
  BY <1>1, <1>2

LEMMA OpenSnapshotType ==
  ASSUME TypeOK, NEW file \in BOOLEAN, OpenSnapshot(file)
  PROVE  TypeOK'
<1>1. fileSize' \in Nat /\ pos' \in Nat
  <2>1. disk.size \in Nat
    BY DEF TypeOK, File
  <2>2. CASE file
    <3>1. fileSize' \in {disk.size} \cup Sizes
      BY <2>2 DEF OpenSnapshot
    <3> QED
      BY <2>1, <3>1, SizesAssumption DEF OpenSnapshot
  <2>3. CASE ~file
    BY <2>3, SizesAssumption DEF OpenSnapshot
  <2> QED
    BY <2>2, <2>3
<1>2. rows' # NoRows => rows' \in [of : File \cup {Junk}, size : Nat]
  BY DEF OpenSnapshot, TypeOK
<1> QED
  BY BlockAssumption, <1>1, <1>2 DEF OpenSnapshot, TypeOK, File, Opening, Scanning

LEMMA FirstLoadType == TypeOK /\ FirstLoad => TypeOK'
<1> SUFFICES ASSUME TypeOK, FirstLoad
             PROVE  TypeOK'
  OBVIOUS
<1>1. buf' \in Seq(Byte) /\ wild' \in BOOLEAN
  <2>1. PICK to \in Nat : Load(0, to)
    BY BlockAssumption DEF FirstLoad, Least, TypeOK
  <2> QED
    BY <2>1, LoadType
<1>2. saved' \in Nat \X BOOLEAN /\ pos' \in Nat /\ readReverse' \in BOOLEAN
  <2>1. CASE at = "resync"
    <3>1. saved' = <<pos, readReverse>> /\ pos' = 0 /\ readReverse' = FALSE
      BY <2>1 DEF FirstLoad
    <3> QED
      BY <3>1 DEF TypeOK
  <2>2. CASE at # "resync"
    BY <2>2 DEF FirstLoad, TypeOK
  <2> QED
    BY <2>1, <2>2
<1> QED
  BY <1>1, <1>2 DEF FirstLoad, TypeOK, File, Opening, Scanning, history

LEMMA RowsType ==
  ASSUME TypeOK, NEW b \in Seq(Byte)
  PROVE  Rows(b) \in [of : File \cup {Junk}, size : Nat]
BY LenProperties DEF Rows, TypeOK

LEMMA AskRowsType ==
  ASSUME TypeOK, NEW b \in Seq(Byte), AskRows(b)
  PROVE  rows' \in [of : File \cup {Junk}, size : Nat] /\ early' \in BOOLEAN
BY RowsType DEF AskRows, TypeOK

LEMMA RangeType ==
  ASSUME TypeOK, NEW from \in Nat, NEW to \in Nat, GetRange(from, to) \/ GetLine(from, to)
  PROVE  TypeOK'
<1>1. CASE GetRange(from, to)
  <2>1. buf' \in Seq(Byte) /\ wild' \in BOOLEAN
    BY <1>1, LoadType DEF GetRange
  <2>2. right' \in BOOLEAN /\ stray' \in BOOLEAN
    BY <1>1 DEF GetRange, Answers, Strays, TypeOK
  <2> QED
    BY <1>1, <2>1, <2>2 DEF GetRange, TypeOK, File, Opening, Scanning, reader, Called
<1>2. CASE GetLine(from, to)
  <2> DEFINE end == IF to = Rows(buf).size THEN fileSize ELSE to
  <2>1. end \in Nat
    BY DEF TypeOK
  <2>2. buf' \in Seq(Byte) /\ wild' \in BOOLEAN /\ right' \in BOOLEAN /\ stray' \in BOOLEAN
    <3>1. CASE InFile(from, end)
      <4>1. Load(from, end)
        BY <1>2, <3>1 DEF GetLine
      <4>2. buf' \in Seq(Byte) /\ wild' \in BOOLEAN
        BY <2>1, <4>1, LoadType
      <4> QED
        BY <1>2, <3>1, <4>2 DEF GetLine, Strays, TypeOK
    <3>2. CASE ~InFile(from, end)
      BY <1>2, <3>2 DEF GetLine, Strays, TypeOK
    <3> QED
      BY <3>1, <3>2
  <2>3. rows' \in [of : File \cup {Junk}, size : Nat] /\ early' \in BOOLEAN
    BY <1>2, AskRowsType DEF GetLine, TypeOK
  <2> QED
    BY <1>2, <2>2, <2>3 DEF GetLine, TypeOK, File, Opening, Scanning, Called
<1> QED
  BY <1>1, <1>2

LEMMA BlockType ==
  ASSUME TypeOK, NEW p \in Nat, ReadBlockAt(p) \/ TsRead(p)
  PROVE  TypeOK'
<1>2. CASE ReadBlockAt(p)
  <2> DEFINE to == p + Least(Block, fileSize - p)
  <2>0. to \in Nat
    BY <1>2, BlockAssumption DEF ReadBlockAt, Least, TypeOK
  <2>1. buf' \in Seq(Byte) /\ wild' \in BOOLEAN
    BY <1>2, <2>0, LoadType DEF ReadBlockAt
  <2>2. right' \in BOOLEAN /\ stray' \in BOOLEAN
    BY <1>2 DEF ReadBlockAt, Answers, TypeOK
  <2> QED
    BY <1>2, <2>1, <2>2 DEF ReadBlockAt, TypeOK, File, Opening, Scanning, reader, Called
<1>3. CASE TsRead(p)
  <2> DEFINE to == p + Least(block, fileSize - p)
  <2>0. to \in Nat
    BY <1>3 DEF TsRead, Least, TypeOK
  <2>1. buf' \in Seq(Byte) /\ wild' \in BOOLEAN
    BY <1>3, <2>0, LoadType DEF TsRead, TypeOK
  <2>2. right' \in BOOLEAN /\ stray' \in BOOLEAN /\ bufStart' \in Nat
    BY <1>3 DEF TsRead, Answers, Strays, TypeOK
  <2> QED
    BY <1>3, <2>1, <2>2 DEF TsRead, TypeOK, File, Opening, Scanning, Called
<1> QED
  BY <1>2, <1>3

\* The block at the position is not empty, and stays within what there is.
LEMMA CurrentType ==
  ASSUME TypeOK, pos < FileEnd
  PROVE  Current \in Nat \ {0} /\ pos + Current <= FileEnd /\ FileEnd \in Nat
<1>1. FileEnd \in Nat /\ pos \in Nat /\ Block \in Nat \ {0}
  BY BlockAssumption, LenProperties DEF FileEnd, TypeOK
<1> QED
  BY <1>1 DEF Current, Least

LEMMA PageType ==
  ASSUME TypeOK, NEW n \in Nat, Page(n), stray' \in BOOLEAN
  PROVE  /\ buf' \in Seq(Byte) /\ wild' \in BOOLEAN /\ bufStart' \in Nat
         /\ moved' \in BOOLEAN /\ right' \in BOOLEAN
<1>1. buf' \in Seq(Byte) /\ wild' \in BOOLEAN
  <2>1. CASE pos < bufStart \/ pos + n > Len(buf)
    BY <2>1, LoadType DEF Page, TypeOK
  <2>2. CASE ~(pos < bufStart \/ pos + n > Len(buf))
    BY <2>2 DEF Page, TypeOK
  <2> QED
    BY <2>1, <2>2
<1> QED
  BY <1>1 DEF Page, Answers, TypeOK

LEMMA NextType == TypeOK /\ Next_ => TypeOK'
<1> SUFFICES ASSUME TypeOK, Next_ PROVE TypeOK'
  OBVIOUS
<1>1. Current \in Nat
  BY CurrentType DEF Next_
<1>2. stray' \in BOOLEAN
  BY DEF Next_, TypeOK
<1>3. /\ buf' \in Seq(Byte) /\ wild' \in BOOLEAN /\ bufStart' \in Nat
      /\ moved' \in BOOLEAN /\ right' \in BOOLEAN
  BY <1>1, <1>2, PageType DEF Next_
<1>4. pos' \in Nat
  BY <1>1 DEF Next_, Less, TypeOK
<1>5. given' \in Nat
  BY <1>4 DEF Next_, TypeOK
<1> QED
  BY <1>2, <1>3, <1>4, <1>5 DEF Next_, TypeOK, File, Opening, Scanning, Called

LEMMA PrevType == TypeOK /\ Prev => TypeOK'
<1> SUFFICES ASSUME TypeOK, Prev PROVE TypeOK'
  OBVIOUS
<1> DEFINE n == Least(Block, pos)
<1>1. n \in Nat /\ pos - n \in Nat /\ pos + n \in Nat
  BY BlockAssumption DEF Least, TypeOK
<1>2. stray' \in BOOLEAN
  BY DEF Prev
<1>3. /\ buf' \in Seq(Byte) /\ wild' \in BOOLEAN /\ bufStart' \in Nat
      /\ moved' \in BOOLEAN /\ right' \in BOOLEAN
  BY <1>1, <1>2, PageType DEF Prev
<1>4. pos' \in Nat
  BY <1>1 DEF Prev, TypeOK
<1> QED
  BY <1>2, <1>3, <1>4 DEF Prev, TypeOK, File, Opening, Scanning, Called

LEMMA ScanBlockType ==
  ASSUME TypeOK, NEW match \in BOOLEAN, ScanBlock(match)
  PROVE  TypeOK'
<1>1. Current \in Nat
  BY CurrentType DEF ScanBlock
<1>2. stray' \in BOOLEAN
  BY DEF ScanBlock, TypeOK
<1>3. /\ buf' \in Seq(Byte) /\ wild' \in BOOLEAN /\ bufStart' \in Nat
      /\ moved' \in BOOLEAN /\ right' \in BOOLEAN
  BY <1>1, <1>2, PageType DEF ScanBlock
<1>4. pos' \in Nat
  BY <1>1 DEF ScanBlock, TypeOK
<1>5. (rows' # NoRows => rows' \in [of : File \cup {Junk}, size : Nat]) /\ early' \in BOOLEAN
  BY <1>3, AskRowsType DEF ScanBlock, TypeOK
<1> QED
  BY <1>2, <1>3, <1>4, <1>5 DEF ScanBlock, TypeOK, File, Opening, Scanning

LEMMA ScanType ==
  TypeOK /\ (FindBegins \/ SnapshotBegins \/ FindThrows \/ FindEnds \/ SnapshotEnds) => TypeOK'
<1>1. ASSUME TypeOK, FindBegins \/ SnapshotBegins
      PROVE  TypeOK'
  <2>1. saved' = <<pos, readReverse>> /\ pos' = 0 /\ readReverse' = FALSE /\ at' \in Scanning
    BY <1>1 DEF FindBegins, SnapshotBegins, Scan, Scanning
  <2>2. UNCHANGED <<disk, buf, bufStart, fileSize, snapshotMode, block, rows, history, wild>>
    BY <1>1 DEF FindBegins, SnapshotBegins
  <2> QED
    BY <1>1, <2>1, <2>2 DEF TypeOK, history
<1>2. ASSUME TypeOK, FindThrows
      PROVE  TypeOK'
  <2>1. saved' \in Nat \X BOOLEAN
    BY <1>2 DEF FindThrows
  <2> QED
    BY <1>2, <2>1 DEF FindThrows, TypeOK, File, Opening, Scanning
<1>3. ASSUME TypeOK, FindEnds \/ SnapshotEnds
      PROVE  TypeOK'
  <2>1. saved' \in Nat \X BOOLEAN /\ pos' \in Nat /\ readReverse' \in BOOLEAN
    <3>1. pos' = saved[1] /\ readReverse' = saved[2] /\ saved' = <<0, FALSE>>
      BY <1>3 DEF FindEnds, SnapshotEnds, Restore
    <3> QED
      BY <1>3, <3>1 DEF TypeOK
  <2>2. /\ rows' # NoRows => rows' \in [of : File \cup {Junk}, size : Nat]
        /\ early' \in BOOLEAN /\ stray' \in BOOLEAN
    BY <1>3, AskRowsType DEF FindEnds, SnapshotEnds, TypeOK, history
  <2> QED
    BY <1>3, <2>1, <2>2 DEF FindEnds, SnapshotEnds, TypeOK, File, Opening, Scanning, history
<1> QED
  BY <1>1, <1>2, <1>3

\* The shapes that a step of the reader has.
LEMMA CallCases ==
  ASSUME TypeOK, Next
  PROVE  \/ Write \/ Open \/ Copy \/ Sync \/ Next_ \/ Prev \/ Reset
         \/ \E file \in BOOLEAN : OpenSnapshot(file)
         \/ \E from, to \in Nat : from <= to /\ (GetRange(from, to) \/ GetLine(from, to))
         \/ \E p \in Nat : ReadBlockAt(p) \/ TsRead(p)
         \/ FindBegins \/ SnapshotBegins \/ SnapshotSyncs
         \/ FirstLoad \/ FindThrows \/ FindEnds \/ SnapshotEnds
         \/ \E match \in BOOLEAN : ScanBlock(match)
<1>1. CASE \E r \in Ranges : GetRange(r[1], r[2]) \/ GetLine(r[1], r[2])
  <2>1. PICK r \in Ranges : GetRange(r[1], r[2]) \/ GetLine(r[1], r[2])
    BY <1>1
  <2>2. r[1] \in Nat /\ r[2] \in Nat /\ r[1] <= r[2]
    BY SizesAssumption DEF Ranges
  <2> QED
    BY <2>1, <2>2
<1>2. CASE \E p \in Points : ReadBlockAt(p) \/ TsRead(p)
  BY <1>2, SizesAssumption
<1>3. CASE Get
  BY <1>3, LenProperties DEF Get, TypeOK
<1> QED
  BY <1>1, <1>2, <1>3 DEF Next, Call, Step

LEMMA StepType == TypeOK /\ [Next]_vars => TypeOK'
<1> SUFFICES ASSUME TypeOK, [Next]_vars
             PROVE  TypeOK'
  OBVIOUS
<1>1. CASE UNCHANGED vars
  BY <1>1 DEF vars, reader, history, TypeOK
<1>2. CASE Next
  <2>1. Sync \/ SnapshotSyncs => \E next \in Opening : Resize(next) /\ saved' = saved
    BY DEF Sync, SnapshotSyncs, Opening
  <2>2. Copy => TypeOK'
    BY DEF Copy, TypeOK, Called, history
  <2>3. ASSUME Reset
        PROVE  TypeOK'
    <3>1. /\ pos' \in Nat /\ bufStart' = 0 /\ given' = 0 /\ at' = "idle"
          /\ aimed' = TRUE /\ moved' = FALSE
      BY <2>3 DEF Reset, TypeOK, Called
    <3>2. UNCHANGED <<disk, buf, fileSize, readReverse, snapshotMode, block, rows, saved,
                      right, seen, stray, early, wild>>
      BY <2>3 DEF Reset
    <3> QED
      BY <3>1, <3>2 DEF TypeOK
  <2> QED
    BY <1>2, CallCases, <2>1, <2>2, <2>3, WriteType, OpenType, OpenSnapshotType, FirstLoadType,
       RangeType, BlockType, NextType, PrevType, ScanBlockType, ScanType
<1> QED
  BY <1>1, <1>2

-----------------------------------------------------------------------------
(* Where a reader begins, and where its iteration is *)

LEMMA InitOpen == Init => OpenInv /\ PlaceInv
BY SizesAssumption DEF Init, OpenInv, PlaceInv, Opening, Scanning

LEMMA StepOpen == TypeOK /\ OpenInv /\ [Next]_vars => OpenInv'
<1> SUFFICES ASSUME TypeOK, OpenInv, [Next]_vars
             PROVE  OpenInv'
  OBVIOUS
<1> USE DEF OpenInv, Opening, Scanning
<1>1. CASE UNCHANGED vars
  BY <1>1 DEF vars, reader, history
<1>2. CASE Write
  BY <1>2 DEF Write, TypeOK, File, reader, history
<1>3. CASE Open
  BY <1>3 DEF Open, TypeOK, File
<1>4. CASE Sync \/ SnapshotSyncs
  BY <1>4 DEF Sync, SnapshotSyncs, Resize, TypeOK, File, Idle
<1>5. CASE Copy \/ Reset \/ Next_ \/ Prev
  BY <1>5 DEF Copy, Reset, Next_, Prev, Called, Idle, history
<1>6. CASE \E file \in BOOLEAN : OpenSnapshot(file)
  BY <1>6 DEF OpenSnapshot
<1>7. CASE \E from, to \in Nat : from <= to /\ (GetRange(from, to) \/ GetLine(from, to))
  BY <1>7 DEF GetRange, GetLine, Called, Idle, reader
<1>8. CASE \E p \in Nat : ReadBlockAt(p) \/ TsRead(p)
  BY <1>8 DEF ReadBlockAt, TsRead, Called, Idle, reader
<1>9. CASE FindBegins \/ SnapshotBegins \/ FindThrows \/ FindEnds \/ SnapshotEnds
  BY <1>9 DEF FindBegins, SnapshotBegins, FindThrows, FindEnds, SnapshotEnds, Scan, Restore,
              Idle, history
<1>10. CASE FirstLoad
  BY <1>10 DEF FirstLoad, history
<1>11. CASE \E match \in BOOLEAN : ScanBlock(match)
  BY <1>11 DEF ScanBlock
<1> QED
  BY <1>1, <1>2, <1>3, <1>4, <1>5, <1>6, <1>7, <1>8, <1>9, <1>10, <1>11, CallCases

LEMMA StepPlace == TypeOK /\ OpenInv /\ PlaceInv /\ [Next]_vars => PlaceInv'
<1> SUFFICES ASSUME TypeOK, OpenInv, PlaceInv, [Next]_vars
             PROVE  PlaceInv'
  OBVIOUS
<1> USE DEF PlaceInv, Opening, Scanning
<1>1. CASE UNCHANGED vars
  BY <1>1 DEF vars, reader, history
<1>2. CASE Write
  BY <1>2 DEF Write, reader, history
<1>3. CASE Open
  BY <1>3 DEF Open
<1>4. CASE Sync \/ SnapshotSyncs
  BY <1>4 DEF Sync, SnapshotSyncs, Resize, Idle
<1>5. CASE Copy \/ Reset \/ Next_ \/ Prev
  BY <1>5 DEF Copy, Reset, Next_, Prev, Called, Idle, history
<1>6. CASE \E file \in BOOLEAN : OpenSnapshot(file)
  BY <1>6 DEF OpenSnapshot
<1>7. CASE \E from, to \in Nat : from <= to /\ (GetRange(from, to) \/ GetLine(from, to))
  BY <1>7 DEF GetRange, GetLine, Called, Idle, reader
<1>8. CASE \E p \in Nat : ReadBlockAt(p) \/ TsRead(p)
  BY <1>8 DEF ReadBlockAt, TsRead, Called, Idle, reader
<1>9. CASE FindBegins \/ SnapshotBegins \/ FindThrows \/ FindEnds \/ SnapshotEnds
  <2>1. CASE FindBegins \/ SnapshotBegins
    BY <1>9, <2>1 DEF FindBegins, SnapshotBegins, Scan, Idle, history
  <2>2. CASE FindThrows
    BY <2>2 DEF FindThrows
  <2>3. CASE FindEnds \/ SnapshotEnds
    <3>1. saved[2] \in BOOLEAN
      BY DEF TypeOK
    <3>2. /\ at \in Scanning /\ at' \notin Scanning /\ aimed' = aimed /\ given' = given
          /\ pos' = saved[1] /\ readReverse' = saved[2]
      BY <2>3 DEF FindEnds, SnapshotEnds, Restore, history
    <3> QED
      BY <3>1, <3>2
  <2> QED
    BY <1>9, <2>1, <2>2, <2>3
<1>10. CASE FirstLoad
  BY <1>10 DEF FirstLoad, history, OpenInv
<1>11. CASE \E match \in BOOLEAN : ScanBlock(match)
  BY <1>11 DEF ScanBlock
<1> QED
  BY <1>1, <1>2, <1>3, <1>4, <1>5, <1>6, <1>7, <1>8, <1>9, <1>10, <1>11, CallCases

-----------------------------------------------------------------------------
(* Within the protocol: what a load and a page do to the buffer *)

LEMMA ProperEnd ==
  ASSUME TypeOK, OpenInv, BufferInv, at # "closed"
  PROVE  FileEnd = seen.size /\ seen.size \in Nat
BY DEF TypeOK, OpenInv, BufferInv, Whole, FileEnd, File

\* A range that continues the buffer, or lies in it, keeps the buffer a prefix
\* of the file; it is cut when the range lies before bufStart.
LEMMA LoadLands ==
  ASSUME TypeOK, OpenInv, BufferInv, at # "closed", disk = seen, ~wild,
         NEW from \in Nat, NEW to \in Nat, from < to, to <= seen.size,
         from = Len(buf) \/ to <= Len(buf), Load(from, to)
  PROVE  /\ Prefix(buf', seen) /\ ~wild'
         /\ IF Held(from, to) THEN buf' = buf ELSE Len(buf') = to
         /\ ~Refused(from, to)
<1>1. ~Refused(from, to)
  BY ProperEnd DEF Refused
<1>2. CASE Held(from, to)
  BY <1>1, <1>2 DEF Load, BufferInv
<1>3. CASE ~Held(from, to)
  <2>1. Prefix(buf, disk)
    BY DEF BufferInv
  <2>2. buf' = Filled(from, to) /\ wild' = (from + Len(Lacking(to)) > to)
    BY <1>1, <1>3 DEF Load
  <2> QED
    BY <1>1, <1>3, <2>1, <2>2, FilledPrefix
<1> QED
  BY <1>2, <1>3

\* A block that begins at an edge, of a reader whose buffer ends at one, or any
\* block of a buffer that holds the file, comes as it is in the file.
LEMMA PageLands ==
  ASSUME TypeOK, TypeOK', OpenInv, BufferInv, at # "closed", disk = seen, ~wild,
         pos < FileEnd, Reachable(pos, Len(buf)), Pages, Page(Current)
  PROVE  /\ Current \in Nat \ {0} /\ pos + Current <= seen.size
         /\ ~wild' /\ right'
         /\ Prefix(buf', seen) /\ Edge(Len(buf'), seen) /\ pos + Current <= Len(buf')
         /\ ~moved' => bufStart' = 0
         /\ Whole /\ bufStart = 0 => buf' = buf /\ bufStart' = 0
         /\ Edge(pos, seen) => Edge(pos + Current, seen)
<1>1. FileEnd = seen.size /\ seen.size \in Nat /\ pos \in Nat /\ Len(buf) \in Nat
  BY ProperEnd, LenProperties DEF TypeOK
<1>2. Current = Least(Block, seen.size - pos) /\ Current \in Nat \ {0} /\ pos + Current <= seen.size
  BY <1>1, CurrentType DEF Current
<1>3. /\ Edge(pos, seen) => Edge(pos + Current, seen)
      /\ Edge(Len(buf), seen)
  <2>1. Edge(Len(buf), seen)
    BY <1>1 DEF Pages, BufferInv, Edge
  <2> QED
    BY <1>1, <1>2, <2>1, EdgeNext DEF TypeOK
<1> DEFINE lacks == pos < bufStart \/ pos + Current > Len(buf)
           lands == /\ ~wild' /\ Prefix(buf', seen) /\ Edge(Len(buf'), seen)
                    /\ pos + Current <= Len(buf')
                    /\ ~moved' => bufStart' = 0
                    /\ Whole /\ bufStart = 0 => buf' = buf /\ bufStart' = 0
<1>4. ASSUME Whole, bufStart = 0
      PROVE  lands
  <2>1. ~lacks
    BY <1>1, <1>2, <1>4 DEF Whole
  <2>2. buf' = buf /\ wild' = wild /\ bufStart' = bufStart /\ moved' = moved
    BY <2>1 DEF Page, TypeOK
  <2> QED
    BY <1>1, <1>2, <1>3, <1>4, <2>2 DEF BufferInv, Whole
<1>5. ASSUME ~(Whole /\ bufStart = 0)
      PROVE  lands
  <2>1. pos <= Len(buf) /\ Edge(pos, seen) /\ Edge(Len(buf), seen) /\ Len(buf) <= seen.size
    BY <1>3, <1>5 DEF Reachable, BufferInv, Prefix
  <2>2. pos < Len(buf) => pos + Current <= Len(buf)
    BY <1>1, <1>2, <2>1, EdgesApart DEF TypeOK
  <2>3. CASE lacks
    <3>1. pos = Len(buf) \/ pos + Current <= Len(buf)
      BY <1>1, <2>1, <2>2
    <3>2. Load(pos, pos + Current) /\ bufStart' = pos /\ moved' = (moved \/ pos > 0)
      BY <2>3 DEF Page
    <3>3. ~Held(pos, pos + Current)
      BY <1>1, <1>2, <2>3 DEF Held, TypeOK
    <3>4. Prefix(buf', seen) /\ ~wild' /\ Len(buf') = pos + Current
      BY <1>1, <1>2, <3>1, <3>2, <3>3, LoadLands
    <3>5. Edge(Len(buf'), seen)
      BY <1>3, <2>1, <3>4
    <3>6. ~moved' => bufStart' = 0
      <4>1. pos > 0 => moved'
        BY <3>2
      <4> QED
        BY <1>1, <3>2, <4>1
    <3>7. pos + Current <= Len(buf')
      BY <1>1, <1>2, <3>4
    <3> QED
      BY <1>5, <3>4, <3>5, <3>6, <3>7
  <2>4. CASE ~lacks
    <3>1. buf' = buf /\ wild' = wild /\ bufStart' = bufStart /\ moved' = moved
      BY <2>4 DEF Page, TypeOK
    <3> QED
      BY <1>1, <1>2, <1>3, <1>5, <2>1, <2>4, <3>1 DEF BufferInv
  <2> QED
    BY <2>3, <2>4
<1>6. lands
  BY <1>4, <1>5
<1>7. right'
  <2>1. Bytes(buf', pos, (pos + Current) - pos) = Slice(seen, pos, pos + Current)
    BY <1>1, <1>2, <1>6, BytesOfPrefix DEF TypeOK
  <2>2. (pos + Current) - pos = Current
    BY <1>1, <1>2
  <2> QED
    BY <2>1, <2>2 DEF Page, Answers
<1> QED
  BY <1>2, <1>3, <1>6, <1>7

-----------------------------------------------------------------------------
(* Within the protocol: every call *)

\* What a reader begins with has no byte of the file yet.
LEMMA EmptyBuffer ==
  ASSUME NEW f \in File
  PROVE  Len(<<>>) = 0 /\ Prefix(<<>>, f) /\ Edge(Len(<<>>), f)
<1>1. Len(<<>>) = 0 /\ f.size \in Nat
  BY DEF File
<1>2. Prefix(<<>>, f)
  BY <1>1 DEF Prefix
<1> QED
  BY <1>1, <1>2, EdgeFirst

LEMMA ProperWrite == TypeOK /\ OpenInv /\ Write => ~Proper'
<1> SUFFICES ASSUME TypeOK, OpenInv, Write
             PROVE  disk' # seen'
  BY DEF Proper
<1>1. disk'.version = disk.version + 1 /\ seen' = seen
  BY DEF Write, history
<1> QED
  BY <1>1 DEF TypeOK, OpenInv, File

LEMMA ProperOpen ==
  ASSUME TypeOK', ~wild, Open \/ Sync \/ SnapshotSyncs
  PROVE  ProperInv'
<1>1. /\ buf' = <<>> /\ bufStart' = 0 /\ ~moved' /\ right' /\ wild' = wild
      /\ at' \in Opening \cup {"closed"}
  BY DEF Open, Sync, SnapshotSyncs, Resize, Opening
<1>2. ~snapshotMode'
  BY DEF Open, Sync, SnapshotSyncs, Resize
<1>3. Prefix(buf', seen') /\ Edge(Len(buf'), seen')
  BY <1>1, EmptyBuffer DEF TypeOK
<1>4. BufferInv'
  BY <1>1, <1>2, <1>3 DEF BufferInv, Opening
<1>5. NextInv'
  BY <1>1 DEF NextInv, Opening, Scanning, Idle
<1> QED
  BY <1>1, <1>4, <1>5 DEF ProperInv

LEMMA ProperFirstLoad ==
  ASSUME TypeOK, TypeOK', OpenInv, ProperInv, ~wild, FirstLoad
  PROVE  ProperInv'
<1> SUFFICES ASSUME Proper'
             PROVE  ~wild' /\ right' /\ BufferInv' /\ NextInv'
  BY DEF ProperInv
<1>1. /\ at \in Opening /\ at' \in {"idle", "snapshot"} /\ (at' = "snapshot" <=> at = "resync")
      /\ UNCHANGED <<disk, bufStart, fileSize, snapshotMode, block, right, seen, aimed, moved, stray>>
  BY DEF FirstLoad, Opening, history
<1>2. /\ buf = <<>> /\ bufStart = 0 /\ ~moved /\ ~snapshotMode /\ (at = "open" => ~aimed)
      /\ fileSize = seen.size /\ fileSize \in Nat
  BY <1>1 DEF OpenInv, TypeOK, Opening
<1>3. Proper /\ disk = seen /\ right /\ BufferInv /\ seen \in File
  BY <1>1 DEF Proper, ProperInv, Opening, TypeOK
<1> DEFINE to == IF at = "open" THEN Least(block, fileSize) ELSE fileSize
<1>4. to \in Nat /\ to <= seen.size /\ (to = 0 <=> seen.size = 0) /\ (at # "open" => to = seen.size)
  BY <1>2 DEF Least, TypeOK
<1>5. ASSUME Even PROVE Edge(to, seen)
  <2>1. CASE at = "open" /\ 0 < seen.size
    <3>1. PICK k \in 1..block : block = k * Block
      BY <1>5 DEF Even
    <3>2. CASE block < fileSize
      <4>1. to = k * Block /\ k \in 0..to
        BY <2>1, <3>1, <3>2 DEF Least, TypeOK
      <4> QED
        BY <4>1 DEF Edge
    <3>3. CASE ~(block < fileSize)
      BY <1>2, <2>1, <3>3 DEF Edge, Least
    <3> QED
      BY <3>2, <3>3
  <2>2. CASE ~(at = "open" /\ 0 < seen.size)
    BY <1>2, <1>4, <2>2 DEF Edge, TypeOK, File
  <2> QED
    BY <2>1, <2>2
<1>6. Prefix(buf', seen) /\ Len(buf') = to /\ ~wild'
  <2>1. Load(0, to)
    BY DEF FirstLoad
  <2>2. CASE to = 0
    <3>1. Refused(0, to)
      BY <2>2 DEF Refused
    <3> QED
      BY <1>2, <1>3, <2>1, <2>2, <3>1, EmptyBuffer DEF Load
  <2>3. CASE to # 0
    <3>1. Len(buf) = 0
      BY <1>2
    <3>2. ~Held(0, to)
      BY <1>4, <2>3, <3>1 DEF Held
    <3> HIDE DEF to
    <3> QED
      BY <1>1, <1>3, <1>4, <2>1, <2>3, <3>1, <3>2, LoadLands DEF Opening
  <2> QED
    BY <2>2, <2>3
<1>7. BufferInv'
  <2>1. Even' => Edge(Len(buf'), seen')
    BY <1>1, <1>5, <1>6 DEF Even
  <2> QED
    BY <1>1, <1>2, <1>6, <2>1 DEF BufferInv
<1>8. NextInv'
  <2>1. CASE at = "open"
    BY <1>1, <1>2, <2>1 DEF NextInv, Scanning
  <2>2. CASE at # "open"
    <3>1. Whole' /\ bufStart' = 0
      BY <1>1, <1>2, <1>4, <1>6, <2>2 DEF Whole
    <3>2. at' = "snapshot" => pos' = 0
      BY <1>1 DEF FirstLoad
    <3>3. Edge(0, seen') /\ 0 <= Len(buf')
      BY <1>1, <1>3, <1>4, <1>6, EdgeFirst
    <3> QED
      BY <1>1, <3>1, <3>2, <3>3 DEF NextInv, Scanning, Reachable
  <2> QED
    BY <2>1, <2>2
<1> QED
  BY <1>1, <1>3, <1>6, <1>7, <1>8

LEMMA ProperReset ==
  ASSUME TypeOK, TypeOK', ProperInv, ~wild, Reset \/ Copy
  PROVE  ProperInv'
<1> SUFFICES ASSUME Proper'
             PROVE  ~wild' /\ right' /\ BufferInv' /\ NextInv'
  BY DEF ProperInv
<1>1. /\ Idle /\ at' = "idle"
      /\ UNCHANGED <<disk, buf, fileSize, readReverse, snapshotMode, block, right, seen, stray, wild>>
  BY DEF Reset, Copy, Called, history
<1>2. right /\ BufferInv /\ NextInv
  <2>1. Proper
    BY <1>1 DEF Proper
  <2>2. at # "closed"
    BY <1>1 DEF Idle
  <2> QED
    BY <2>1, <2>2 DEF ProperInv
<1>3. BufferInv'
  BY <1>1, <1>2 DEF BufferInv, Whole, Even, Reset, Copy
<1>4. NextInv'
  <2>1. CASE Reset
    <3>1. ~readReverse' => pos' = 0
      BY <2>1 DEF Reset
    <3>2. Edge(0, seen') /\ 0 <= Len(buf')
      BY EdgeFirst, LenProperties DEF TypeOK
    <3> QED
      BY <1>1, <3>1, <3>2 DEF NextInv, Scanning, Reachable
  <2>2. CASE Copy
    BY <1>1, <1>2, <2>2 DEF NextInv, Scanning, Reachable, Whole, Copy, Idle
  <2> QED
    BY <2>1, <2>2
<1> QED
  BY <1>1, <1>2, <1>3, <1>4

LEMMA ProperNext ==
  ASSUME TypeOK, TypeOK', OpenInv, ProperInv, ~wild, Next_
  PROVE  ProperInv'
<1> SUFFICES ASSUME Proper'
             PROVE  ~wild' /\ right' /\ BufferInv' /\ NextInv'
  BY DEF ProperInv
<1>1. /\ Idle /\ at' = "idle" /\ pos < FileEnd /\ Page(Current)
      /\ ~stray /\ ~readReverse /\ aimed /\ Pages
      /\ pos' = pos + Current
      /\ UNCHANGED <<disk, fileSize, readReverse, snapshotMode, block, seen, aimed>>
  BY DEF Next_, Called, Proper
<1>2. disk = seen /\ at # "closed" /\ BufferInv /\ Reachable(pos, Len(buf))
  BY <1>1 DEF Proper, ProperInv, Idle, NextInv
<1>3. /\ ~wild' /\ right'
      /\ Prefix(buf', seen) /\ Edge(Len(buf'), seen) /\ pos + Current <= Len(buf')
      /\ ~moved' => bufStart' = 0
      /\ Whole /\ bufStart = 0 => buf' = buf /\ bufStart' = 0
      /\ Edge(pos, seen) => Edge(pos + Current, seen)
  BY <1>1, <1>2, PageLands
<1>4. BufferInv'
  BY <1>1, <1>2, <1>3 DEF BufferInv, Whole
<1>5. NextInv'
  BY <1>1, <1>2, <1>3 DEF NextInv, Scanning, Reachable, Whole
<1> QED
  BY <1>3, <1>4, <1>5

LEMMA ProperScanBlock ==
  ASSUME TypeOK, TypeOK', OpenInv, ProperInv, ~wild, NEW match \in BOOLEAN, ScanBlock(match)
  PROVE  ProperInv'
<1> SUFFICES ASSUME Proper'
             PROVE  ~wild' /\ right' /\ BufferInv' /\ NextInv'
  BY DEF ProperInv
<1>1. /\ at \in Scanning /\ at' = at /\ pos < FileEnd /\ Page(Current)
      /\ pos' = pos + Current
      /\ ~stray /\ Pages
      /\ UNCHANGED <<disk, fileSize, readReverse, snapshotMode, block, seen, aimed, saved>>
  BY DEF ScanBlock, Scanning, Proper
<1>2. disk = seen /\ at # "closed" /\ BufferInv /\ NextInv
  BY <1>1 DEF Proper, ProperInv, Scanning
<1>3. Edge(pos, seen) /\ Reachable(pos, Len(buf))
  BY <1>1, <1>2 DEF NextInv, Reachable
<1>4. /\ ~wild' /\ right'
      /\ Prefix(buf', seen) /\ Edge(Len(buf'), seen) /\ pos + Current <= Len(buf')
      /\ ~moved' => bufStart' = 0
      /\ Whole /\ bufStart = 0 => buf' = buf /\ bufStart' = 0
      /\ Edge(pos + Current, seen)
  BY <1>1, <1>2, <1>3, PageLands
<1>5. BufferInv'
  BY <1>1, <1>2, <1>4 DEF BufferInv, Whole, Scanning
<1>6. NextInv'
  BY <1>1, <1>2, <1>4 DEF NextInv, Scanning, Reachable, Whole, Idle
<1> QED
  BY <1>4, <1>5, <1>6

\* A snapshot's text is the whole file, and so is the buffer of its reader.
LEMMA ProperOpenSnapshot ==
  ASSUME TypeOK, TypeOK', ProperInv, ~wild, NEW file \in BOOLEAN, OpenSnapshot(file)
  PROVE  ProperInv'
<1> SUFFICES ASSUME Proper'
             PROVE  ~wild' /\ right' /\ BufferInv' /\ NextInv'
  BY DEF ProperInv
<1>1. /\ at = "taken" /\ at' = "idle" /\ bufStart' = 0 /\ snapshotMode' /\ ~aimed' /\ ~moved'
      /\ UNCHANGED <<disk, buf, right, seen, stray, wild>>
  BY DEF OpenSnapshot
<1>2. disk = seen /\ right /\ BufferInv
  BY <1>1 DEF Proper, ProperInv
<1>3. fileSize' \in {0, seen.size}
  BY <1>2 DEF OpenSnapshot
<1>4. BufferInv' /\ NextInv'
  <2>1. Edge(Len(buf), seen) /\ Whole
    BY <1>1, <1>2 DEF BufferInv, Whole, Edge
  <2> QED
    BY <1>1, <1>2, <1>3, <2>1 DEF BufferInv, NextInv, Whole, Scanning
<1> QED
  BY <1>1, <1>2, <1>4

\* A range that was read comes from the buffer, which stays as it is.
LEMMA RangeLands ==
  ASSUME TypeOK, OpenInv, BufferInv, at # "closed", disk = seen, ~moved,
         NEW from \in Nat, NEW to \in Nat, from <= to, to <= Len(buf), Load(from, to)
  PROVE  /\ UNCHANGED <<buf, wild>>
         /\ Loaded(from, to) = Slice(disk, from, to)
         /\ InFile(from, to)
<1>1. FileEnd = seen.size /\ seen.size \in Nat /\ Len(buf) \in Nat /\ Len(buf) <= seen.size
  BY ProperEnd, LenProperties DEF TypeOK, BufferInv, Prefix
<1>2. bufStart = 0 /\ Prefix(buf, disk)
  BY DEF BufferInv
<1>3. Bytes(buf, from, to - from) = Slice(disk, from, to)
  BY <1>2, BytesOfPrefix DEF TypeOK
<1>4. Held(from, to)
  BY <1>2 DEF Held
<1>5. Loaded(from, to) = Slice(disk, from, to)
  <2>1. CASE to = 0
    <3>1. from = 0 /\ Refused(from, to)
      BY <2>1 DEF Refused
    <3>2. Slice(disk, from, to) = <<>>
      BY <1>1, <2>1, <3>1 DEF Slice, Least
    <3> QED
      BY <3>1, <3>2 DEF Loaded
  <2>2. CASE to # 0
    <3>1. ~Refused(from, to)
      BY <1>1, <2>2 DEF Refused
    <3>2. from - bufStart = from
      BY <1>2
    <3> QED
      BY <1>3, <1>4, <3>1, <3>2 DEF Loaded
  <2> QED
    BY <2>1, <2>2
<1>6. InFile(from, to)
  BY <1>1 DEF InFile, OpenInv, BufferInv, TypeOK
<1> QED
  BY <1>4, <1>5, <1>6 DEF Load

\* A call that leaves the buffer and the position alone
LEMMA ProperQuiet ==
  ASSUME TypeOK, ProperInv, Proper', ~wild, Idle, at' = "idle",
         UNCHANGED <<disk, buf, bufStart, fileSize, pos, readReverse, snapshotMode, block, saved,
                     seen, given, aimed, moved, wild>>,
         ~stray, right'
  PROVE  ProperInv'
<1>1. BufferInv /\ NextInv
  <2>1. Proper
    BY DEF Proper
  <2>2. at # "closed"
    BY DEF Idle
  <2> QED
    BY <2>1, <2>2 DEF ProperInv
<1>2. BufferInv'
  BY <1>1 DEF BufferInv, Whole, Even
<1>3. NextInv'
  BY <1>1 DEF NextInv, Reachable, Whole, Idle, Scanning
<1> QED
  BY <1>2, <1>3 DEF ProperInv

LEMMA ProperGetRange ==
  ASSUME TypeOK, TypeOK', OpenInv, ProperInv, ~wild,
         NEW from \in Nat, NEW to \in Nat, from <= to, GetRange(from, to)
  PROVE  ProperInv'
<1> SUFFICES ASSUME Proper'
             PROVE  ProperInv'
  BY DEF ProperInv
<1>1. /\ Idle /\ at' = "idle" /\ ~stray /\ ~stray' /\ ~Strays(to) /\ Load(from, to)
      /\ right' = (stray' \/ disk # seen \/ Loaded(from, to) = Slice(disk, from, to))
      /\ UNCHANGED <<disk, bufStart, fileSize, pos, readReverse, snapshotMode, block, saved,
                     seen, given, aimed, moved>>
  BY DEF GetRange, Called, Proper, reader, Answers
<1>2. disk = seen /\ BufferInv /\ at # "closed"
  BY <1>1 DEF Proper, ProperInv, Idle
<1>3. UNCHANGED <<buf, wild>> /\ Loaded(from, to) = Slice(disk, from, to)
  <2>1. ~moved /\ to <= Len(buf)
    BY <1>1, LenProperties DEF Strays, TypeOK
  <2> QED
    BY <1>1, <1>2, <2>1, RangeLands
<1> QED
  BY <1>1, <1>3, ProperQuiet

\* A row that was read, of rows that are the file's
LEMMA ProperGetLine ==
  ASSUME TypeOK, TypeOK', OpenInv, ProperInv, ~wild,
         NEW from \in Nat, NEW to \in Nat, from <= to, GetLine(from, to)
  PROVE  ProperInv'
<1> SUFFICES ASSUME Proper'
             PROVE  ProperInv'
  BY DEF ProperInv
<1> DEFINE end == IF to = Rows(buf).size THEN fileSize ELSE to
<1>1. /\ Idle /\ at' = "idle" /\ ~stray /\ ~stray' /\ ~Strays(to) /\ end = to
      /\ UNCHANGED <<disk, bufStart, fileSize, pos, readReverse, snapshotMode, block, saved,
                     seen, given, aimed, moved>>
  BY DEF GetLine, Called, Proper
<1>2. disk = seen /\ BufferInv /\ at # "closed"
  BY <1>1 DEF Proper, ProperInv, Idle
<1>3. ~moved /\ to <= Len(buf)
  BY <1>1, LenProperties DEF Strays, TypeOK
<1>4. InFile(from, to)
  <2>1. Len(buf) <= seen.size /\ seen.size \in Nat /\ Len(buf) \in Nat
    BY <1>2, LenProperties DEF BufferInv, Prefix, TypeOK, File
  <2> QED
    BY <1>2, <1>3, <2>1 DEF InFile, OpenInv, BufferInv
<1>5. Load(from, to) /\ right' = (stray' \/ disk # seen \/ Loaded(from, to) = Slice(disk, from, to))
  BY <1>1, <1>4 DEF GetLine
<1>6. UNCHANGED <<buf, wild>> /\ right'
  BY <1>2, <1>3, <1>5, RangeLands
<1> QED
  BY <1>1, <1>6, ProperQuiet

\* A chunk of tree-sitter's that was read
LEMMA ProperTsRead ==
  ASSUME TypeOK, TypeOK', OpenInv, ProperInv, ~wild, NEW p \in Nat, TsRead(p)
  PROVE  ProperInv'
<1> SUFFICES ASSUME Proper'
             PROVE  ProperInv'
  BY DEF ProperInv
<1> DEFINE to == p + Least(block, fileSize - p)
           lacks == buf = <<>> \/ p < bufStart \/ to > bufStart + Len(buf)
           start == IF lacks THEN p ELSE bufStart
<1>1. /\ Idle /\ at' = "idle" /\ ~stray /\ ~stray' /\ ~Strays(to) /\ p < fileSize
      /\ IF lacks THEN Load(p, to) ELSE UNCHANGED <<buf, wild>>
      /\ bufStart' = start
      /\ right' = (stray' \/ disk # seen \/ Bytes(buf', p - start, to - p) = Slice(disk, p, to))
      /\ UNCHANGED <<disk, fileSize, pos, readReverse, snapshotMode, block, saved,
                     seen, given, aimed, moved>>
  BY DEF TsRead, Called, Proper, Answers
<1>2. disk = seen /\ BufferInv /\ at # "closed"
  BY <1>1 DEF Proper, ProperInv, Idle
<1>3. to \in Nat /\ p < to
  BY <1>1 DEF Least, TypeOK
<1>4. ~moved /\ to <= Len(buf) /\ Len(buf) \in Nat
  BY <1>1, <1>3, LenProperties DEF Strays, TypeOK
<1>5. bufStart = 0 /\ Prefix(buf, disk)
  BY <1>2, <1>4 DEF BufferInv
<1>6. ~lacks
  <2>1. buf # <<>>
    BY <1>3, <1>4
  <2> QED
    BY <1>3, <1>4, <1>5, <2>1
<1>7. UNCHANGED <<buf, wild, bufStart>> /\ p - start = p
  BY <1>1, <1>5, <1>6
<1>8. right'
  <2> HIDE DEF to, start
  <2>1. Bytes(buf, p, to - p) = Slice(disk, p, to)
    BY <1>3, <1>4, <1>5, BytesOfPrefix DEF TypeOK
  <2> QED
    BY <1>1, <1>7, <2>1
<1> QED
  BY <1>1, <1>7, <1>8, ProperQuiet

\* A block of the iterators that was read, or continues what was
LEMMA ProperReadBlock ==
  ASSUME TypeOK, TypeOK', OpenInv, ProperInv, ~wild, NEW p \in Nat, ReadBlockAt(p)
  PROVE  ProperInv'
<1> SUFFICES ASSUME Proper'
             PROVE  ~wild' /\ right' /\ BufferInv' /\ NextInv'
  BY DEF ProperInv
<1> DEFINE to == p + Least(Block, fileSize - p)
<1>1. /\ Idle /\ at' = "idle" /\ ~moved /\ ~(to > Len(buf) /\ p # Len(buf)) /\ p < fileSize
      /\ Load(p, to)
      /\ right' = (stray' \/ disk # seen \/ Loaded(p, to) = Slice(disk, p, to))
      /\ UNCHANGED <<disk, bufStart, fileSize, pos, readReverse, snapshotMode, block, saved,
                     seen, given, aimed, moved, rows>>
  BY DEF ReadBlockAt, Called, Proper, Answers, reader
<1>2. disk = seen /\ BufferInv /\ NextInv /\ at # "closed"
  <2>1. Proper
    BY <1>1 DEF Proper, ReadBlockAt
  <2> QED
    BY <1>1, <2>1 DEF Proper, ProperInv, Idle
<1>3. /\ to \in Nat /\ p < to /\ to <= seen.size /\ Len(buf) \in Nat
      /\ to = p + Least(Block, seen.size - p) /\ seen.size \in Nat
  <2>1. fileSize = seen.size
    BY <1>1, <1>2 DEF OpenInv, BufferInv, TypeOK
  <2> QED
    BY <1>1, <2>1, BlockAssumption, LenProperties DEF Least, TypeOK
<1>4. to <= Len(buf) \/ p = Len(buf)
  BY <1>1, <1>3
<1> HIDE DEF to
<1>5. /\ Prefix(buf', seen) /\ ~wild' /\ ~Refused(p, to)
      /\ IF Held(p, to) THEN buf' = buf ELSE Len(buf') = to
  BY <1>1, <1>2, <1>3, <1>4, LoadLands
<1>6. bufStart = 0 /\ bufStart' = 0
  BY <1>1, <1>2 DEF BufferInv
<1>7. Held(p, to) <=> to <= Len(buf)
  BY <1>3, <1>6 DEF Held
<1>8. /\ (Even => Edge(Len(buf'), seen)) /\ to <= Len(buf') /\ Len(buf) <= Len(buf')
      /\ (Whole => buf' = buf)
  <2>1. CASE Held(p, to)
    BY <1>2, <1>3, <1>5, <1>7, <2>1 DEF BufferInv
  <2>2. CASE ~Held(p, to)
    <3>1. p = Len(buf) /\ Len(buf') = to /\ (Even => Edge(p, seen)) /\ p < seen.size
      BY <1>2, <1>3, <1>4, <1>5, <1>7, <2>2 DEF BufferInv
    <3>2. Even => Edge(to, seen)
      BY <1>3, <3>1, EdgeNext DEF TypeOK
    <3> QED
      BY <1>3, <3>1, <3>2 DEF Whole
  <2> QED
    BY <2>1, <2>2
<1>9. right'
  <2>1. Bytes(buf', p, to - p) = Slice(seen, p, to)
    BY <1>3, <1>5, <1>8, BytesOfPrefix DEF TypeOK
  <2>2. CASE Held(p, to)
    <3>1. Loaded(p, to) = Bytes(buf, p - bufStart, to - p) /\ p - bufStart = p /\ buf' = buf
      BY <1>5, <1>6, <2>2 DEF Loaded
    <3> QED
      BY <1>1, <1>2, <2>1, <3>1
  <2>3. CASE ~Held(p, to)
    <3>1. Lacking(to) # <<>>
      <4>1. p = Len(buf) /\ p < to /\ to <= disk.size
        BY <1>2, <1>3, <1>4, <1>7, <2>3
      <4>2. 1 \in 1..(Least(to, disk.size) - Least(Len(buf), disk.size))
        BY <1>2, <1>3, <4>1 DEF Least
      <4>3. 1 \in DOMAIN Lacking(to)
        BY <4>2 DEF Lacking, Slice
      <4> QED
        BY <4>3
    <3>2. Loaded(p, to) = Bytes(buf', p, to - p)
      BY <1>5, <2>3, <3>1 DEF Loaded
    <3> QED
      BY <1>1, <1>2, <2>1, <3>2
  <2> QED
    BY <2>2, <2>3
<1>10. BufferInv'
  BY <1>1, <1>2, <1>5, <1>6, <1>8 DEF BufferInv, Whole, Even
<1>11. NextInv'
  <2>1. Len(buf') \in Nat
    BY LenProperties DEF TypeOK
  <2> QED
    BY <1>1, <1>2, <1>3, <1>6, <1>8, <2>1 DEF NextInv, Scanning, Reachable, Whole, Idle, TypeOK
<1> QED
  BY <1>5, <1>9, <1>10, <1>11

\* A scan begins at the file's first byte, and keeps the position it left.
LEMMA ProperScanBegins ==
  ASSUME TypeOK, TypeOK', ProperInv, ~wild, FindBegins \/ SnapshotBegins
  PROVE  ProperInv'
<1> SUFFICES ASSUME Proper'
             PROVE  ~wild' /\ right' /\ BufferInv' /\ NextInv'
  BY DEF ProperInv
<1>1. /\ Idle /\ at' \in Scanning /\ saved' = <<pos, readReverse>> /\ pos' = 0
      /\ UNCHANGED <<disk, buf, bufStart, fileSize, snapshotMode, block, right, seen, given, aimed,
                     moved, stray, wild>>
  BY DEF FindBegins, SnapshotBegins, Scan, Scanning, history
<1>2. disk = seen /\ right /\ BufferInv /\ NextInv
  BY <1>1 DEF Proper, ProperInv, Idle
<1>3. BufferInv'
  BY <1>1, <1>2 DEF BufferInv, Whole, Even, Scanning
<1>4. Edge(0, seen') /\ Len(buf) \in Nat /\ Len(buf) <= seen.size /\ seen.size \in Nat
  BY <1>2, EdgeFirst, LenProperties DEF TypeOK, File, BufferInv, Prefix
<1>5. NextInv'
  <2>1. saved'[1] = pos /\ saved'[2] = readReverse
    BY <1>1
  <2>2. aimed /\ ~readReverse => Reachable(pos, seen.size)
    BY <1>1, <1>2, <1>4 DEF NextInv, Reachable, TypeOK
  <2> QED
    BY <1>1, <1>4, <2>1, <2>2 DEF NextInv, Scanning, Reachable, Whole, Idle
<1> QED
  BY <1>1, <1>2, <1>3, <1>5

\* A scan that came to the end has read the whole file.
LEMMA ProperScanEnds ==
  ASSUME TypeOK, TypeOK', OpenInv, ProperInv, ~wild, FindEnds \/ SnapshotEnds
  PROVE  ProperInv'
<1> SUFFICES ASSUME Proper'
             PROVE  ~wild' /\ right' /\ BufferInv' /\ NextInv'
  BY DEF ProperInv
<1>1. /\ at \in Scanning /\ at' \in {"idle", "taken"} /\ pos >= FileEnd
      /\ pos' = saved[1] /\ readReverse' = saved[2]
      /\ UNCHANGED <<disk, buf, bufStart, fileSize, snapshotMode, block, right, seen, given, aimed,
                     moved, stray, wild>>
  BY DEF FindEnds, SnapshotEnds, Restore, Scanning, history
<1>2. disk = seen /\ right /\ BufferInv /\ NextInv /\ at # "closed"
  BY <1>1 DEF Proper, ProperInv, Scanning
<1>3. Whole
  <2>1. FileEnd = seen.size /\ seen.size \in Nat /\ Len(buf) \in Nat /\ pos \in Nat
    BY <1>2, ProperEnd, LenProperties DEF TypeOK
  <2> QED
    BY <1>1, <1>2, <2>1 DEF Whole, NextInv, BufferInv, Prefix
<1>4. BufferInv'
  BY <1>1, <1>2, <1>3 DEF BufferInv, Whole, Even
<1>5. NextInv'
  <2>1. saved[2] \in BOOLEAN
    BY DEF TypeOK
  <2>2. aimed /\ ~saved[2] => Reachable(saved[1], Len(buf))
    BY <1>1, <1>2, <1>3 DEF NextInv, Reachable, Whole
  <2> QED
    BY <1>1, <2>1, <2>2 DEF NextInv, Scanning, Reachable, Whole
<1> QED
  BY <1>1, <1>2, <1>4, <1>5

LEMMA ProperFindThrows ==
  ASSUME ProperInv, FindThrows
  PROVE  ProperInv'
<1>1. /\ at # "closed" /\ at' = "idle" /\ ~aimed'
      /\ UNCHANGED <<disk, buf, bufStart, fileSize, snapshotMode, block, right, seen, moved, stray, wild>>
  BY DEF FindThrows
<1> QED
  BY <1>1 DEF ProperInv, Proper, BufferInv, NextInv, Whole, Even, Scanning

LEMMA StepProper ==
  ASSUME TypeOK, TypeOK', OpenInv, ProperInv, [Next]_vars
  PROVE  ProperInv'
<1>1. CASE UNCHANGED vars
  BY <1>1 DEF vars, reader, history, ProperInv, Proper, BufferInv, NextInv, Whole, Even, Reachable, Idle
<1>2. CASE Next
  <2>1. ~wild
    BY <1>2 DEF Next
  <2>2. Write => ProperInv'
    BY ProperWrite DEF ProperInv
  <2>3. Prev => ProperInv'
    BY DEF Prev, ProperInv, Proper
  <2> QED
    BY <1>2, CallCases, <2>1, <2>2, <2>3, ProperOpen, ProperFirstLoad, ProperReset, ProperNext,
       ProperScanBlock, ProperOpenSnapshot, ProperGetRange, ProperGetLine, ProperTsRead,
       ProperReadBlock, ProperScanBegins, ProperScanEnds, ProperFindThrows
<1> QED
  BY <1>1, <1>2

-----------------------------------------------------------------------------
(* Row offsets *)

\* Who asks for rows within the protocol, when the whole file is in the buffer,
\* gets those of the file.
LEMMA RowsInTime ==
  ASSUME TypeOK, OpenInv, BufferInv, at # "closed", RowsInv,
         NEW b \in Seq(Byte), Prefix(b, seen), disk = seen, ~stray', AskRows(b), ~early'
  PROVE  rows' = [of |-> seen, size |-> seen.size]
<1>1. FileEnd = seen.size /\ seen.size \in Nat /\ seen.version \in Nat /\ Len(b) \in Nat
  BY ProperEnd, LenProperties DEF TypeOK, File
<1>2. CASE rows # NoRows
  BY <1>2 DEF AskRows, Rows, RowsInv
<1>3. CASE rows = NoRows
  <2>1. Len(b) = seen.size
    <3>1. early' = (early \/ (stray' \/ disk # seen \/ Len(b) < FileEnd))
      BY <1>3 DEF AskRows
    <3>2. ~(Len(b) < seen.size)
      BY <1>1, <3>1
    <3>3. Len(b) <= seen.size
      BY DEF Prefix
    <3> QED
      BY <1>1, <3>2, <3>3
  <2>2. Slice(seen, 0, Len(b)) = [i \in 1..Len(b) |-> <<seen.version, i - 1>>]
    <3>1. Least(Len(b), seen.size) - Least(0, seen.size) = Len(b)
      BY <1>1, <2>1 DEF Least
    <3> QED
      BY <1>1, <3>1 DEF Slice
  <2>3. b = Slice(seen, 0, Len(b))
    <3>1. b = [i \in 1..Len(b) |-> b[i]]
      BY LenProperties
    <3> QED
      BY <2>2, <3>1 DEF Prefix
  <2> QED
    BY <1>3, <2>1, <2>3 DEF AskRows, Rows
<1> QED
  BY <1>2, <1>3

LEMMA StepRows ==
  ASSUME TypeOK, TypeOK', OpenInv, OpenInv', ProperInv, ProperInv', RowsInv, [Next]_vars
  PROVE  RowsInv'
<1> SUFFICES ASSUME rows' # NoRows \/ at' = "taken", ~early'
             PROVE  rows' = [of |-> seen', size |-> seen'.size]
  BY DEF RowsInv
<1>1. CASE UNCHANGED <<rows, seen, early>> /\ (at' = "taken" => at = "taken")
  BY <1>1 DEF RowsInv
<1>2. CASE Open \/ Copy
  BY <1>2 DEF Open, Copy, Called
<1>3. CASE Sync \/ SnapshotSyncs
  BY <1>3 DEF Sync, SnapshotSyncs, Resize, RowsInv
<1>4. CASE \E file \in BOOLEAN : OpenSnapshot(file)
  BY <1>4 DEF OpenSnapshot, RowsInv
<1>5. ASSUME NEW from \in Nat, NEW to \in Nat, GetLine(from, to)
      PROVE  rows' = [of |-> seen', size |-> seen'.size]
  <2>1. AskRows(buf) /\ disk' = disk /\ seen' = seen /\ at # "closed" /\ (~stray' => ~stray)
    BY <1>5 DEF GetLine, Called, Idle
  <2>2. CASE stray' \/ disk # seen
    BY <2>1, <2>2 DEF AskRows, Rows, RowsInv
  <2>3. CASE ~stray' /\ disk = seen
    <3>1. BufferInv
      BY <2>1, <2>3 DEF ProperInv, Proper
    <3>2. Prefix(buf, seen) /\ buf \in Seq(Byte)
      BY <3>1 DEF BufferInv, TypeOK
    <3> QED
      BY <2>1, <2>3, <3>1, <3>2, RowsInTime
  <2> QED
    BY <2>2, <2>3
<1>6. ASSUME ScanBlock(TRUE)
      PROVE  rows' = [of |-> seen', size |-> seen'.size]
  <2>1. /\ AskRows(buf') /\ disk' = disk /\ seen' = seen /\ at # "closed" /\ at' # "closed"
        /\ (~stray' => ~stray)
    BY <1>6 DEF ScanBlock
  <2>2. CASE stray' \/ disk # seen
    BY <2>1, <2>2 DEF AskRows, Rows, RowsInv
  <2>3. CASE ~stray' /\ disk = seen
    <3>1. BufferInv /\ BufferInv'
      BY <2>1, <2>3 DEF ProperInv, Proper
    <3>2. Prefix(buf', seen) /\ buf' \in Seq(Byte)
      BY <2>1, <3>1 DEF BufferInv, TypeOK
    <3> QED
      BY <2>1, <2>3, <3>1, <3>2, RowsInTime
  <2> QED
    BY <2>2, <2>3
<1>7. ASSUME SnapshotEnds
      PROVE  rows' = [of |-> seen', size |-> seen'.size]
  <2>1. /\ AskRows(buf) /\ disk' = disk /\ seen' = seen /\ at # "closed" /\ stray' = stray
    BY <1>7 DEF SnapshotEnds
  <2>2. CASE stray' \/ disk # seen
    BY <2>1, <2>2 DEF AskRows, Rows, RowsInv
  <2>3. CASE ~stray' /\ disk = seen
    <3>1. BufferInv
      BY <2>1, <2>3 DEF ProperInv, Proper
    <3>2. Prefix(buf, seen) /\ buf \in Seq(Byte)
      BY <3>1 DEF BufferInv, TypeOK
    <3> QED
      BY <2>1, <2>3, <3>1, <3>2, RowsInTime
  <2> QED
    BY <2>2, <2>3
<1>8. CASE UNCHANGED vars
  BY <1>1, <1>8 DEF vars, reader, history
<1>9. CASE Next
  <2>1. CASE Write \/ Next_ \/ Prev \/ Reset \/ FindBegins \/ SnapshotBegins \/ FirstLoad
             \/ FindThrows \/ FindEnds
    BY <1>1, <2>1 DEF Write, Next_, Prev, Reset, FindBegins, SnapshotBegins, FirstLoad, FindThrows,
                      FindEnds, reader, history, Called, Scan
  <2>2. CASE \E from, to \in Nat : from <= to /\ (GetRange(from, to) \/ GetLine(from, to))
    BY <1>1, <1>5, <2>2 DEF GetRange, reader, Called
  <2>3. CASE \E p \in Nat : ReadBlockAt(p) \/ TsRead(p)
    BY <1>1, <2>3 DEF ReadBlockAt, TsRead, reader, Called
  <2>4. CASE \E match \in BOOLEAN : ScanBlock(match)
    <3>1. ScanBlock(FALSE) => UNCHANGED <<rows, seen, early, at>>
      BY DEF ScanBlock
    <3> QED
      BY <1>1, <1>6, <2>4, <3>1
  <2> QED
    BY <1>2, <1>3, <1>4, <1>7, <1>9, <2>1, <2>2, <2>3, <2>4, CallCases
<1> QED
  BY <1>8, <1>9

-----------------------------------------------------------------------------
(* The theorems *)

\* The inductive invariant holds in every reachable state: of the buffer and of
\* the position, for any sizes of blocks and of files and any order of calls.
THEOREM Invariance == Spec => []IInv
<1>1. Init => IInv
  <2>1. Init => ProperInv
    BY DEF Init, ProperInv
  <2>2. Init => RowsInv
    BY DEF Init, RowsInv
  <2> QED
    BY <2>1, <2>2, InitType, InitOpen DEF IInv
<1>2. IInv /\ [Next]_vars => IInv'
  BY StepType, StepOpen, StepPlace, StepProper, StepRows DEF IInv
<1> QED
  BY <1>1, <1>2, PTL DEF Spec

\* FileReader::load: nothing is ever written beyond the buffer, and no range,
\* line, block or chunk differs from the file, while the caller stays within
\* the pager's protocol and the file does not change.
THEOREM AnswersAreExact == Spec => []AnswersExact
<1>1. IInv => AnswersExact
  BY DEF IInv, ProperInv, AnswersExact
<1> QED
  BY <1>1, Invariance, PTL

\* FileReader::snapshot: what is taken is the whole file, from whatever block
\* the reader had moved on to.
THEOREM SnapshotsAreWhole == Spec => []SnapshotWhole
<1>1. IInv => SnapshotWhole
  <2> SUFFICES ASSUME IInv, at = "taken", Proper
               PROVE  buf = Text(disk) /\ (early \/ rows = [of |-> disk, size |-> disk.size])
    BY DEF SnapshotWhole
  <2>1. Prefix(buf, disk) /\ Len(buf) = disk.size /\ disk = seen
    BY DEF IInv, ProperInv, BufferInv, Whole, Proper
  <2>2. disk.size \in Nat /\ buf \in [1..disk.size -> Byte]
    BY <2>1, LenProperties DEF IInv, TypeOK, File
  <2>3. Text(disk) = [i \in 1..disk.size |-> <<disk.version, i - 1>>]
    <3>1. Least(disk.size, disk.size) - Least(0, disk.size) = disk.size
      BY <2>2 DEF Least
    <3> QED
      BY <2>2, <3>1 DEF Text, Slice
  <2>4. buf = Text(disk)
    BY <2>1, <2>2, <2>3 DEF Prefix
  <2>5. early \/ rows = [of |-> disk, size |-> disk.size]
    BY <2>1 DEF IInv, RowsInv
  <2> QED
    BY <2>4, <2>5
<1> QED
  BY <1>1, Invariance, PTL

\* STORE_ITER_INFO and RESTORE_ITER_INFO: the position of a caller that
\* iterates from a reset is where its last block ended.
THEOREM IterationIsKept == Spec => []IterationKept
<1>1. IInv => IterationKept
  BY DEF IInv, PlaceInv, IterationKept, Idle, Scanning
<1> QED
  BY <1>1, Invariance, PTL
=============================================================================
