-------------------------------- MODULE Reader --------------------------------
(* FileReader (src/FileReaderWriter.cpp): a buffer that is filled block by   *)
(* block from a file that may change meanwhile, under a position of its own, *)
(* and the calls that read through it: ranges and lines, blocks, find,       *)
(* snapshot, and tree-sitter.                                                *)
(*                                                                           *)
(* A byte is <<version of the file, offset>>.  buf.size() and bufSize are    *)
(* always equal.  The pager is right for some sequences of calls only: stray *)
(* says that the caller has left them, and the properties say that whoever   *)
(* stays within them reads the file.  A range has from <= to.                *)
(*                                                                           *)
(* There are two block sizes: the constructor's argument, which the first    *)
(* load and tree-sitter's chunks have, and defaultBlockSize, by which the    *)
(* iterators, next, prev and all that is built on them step.                 *)
EXTENDS Naturals, Sequences

CONSTANTS Block,       \* defaultBlockSize
          Blocks,      \* what callers give the constructors as blockSize
          Sizes,       \* what the file's size may be
          Points,      \* bound: the offsets that callers name, and garbage
          MaxVersion,  \* bound: changes of the file
          Junk,        \* a byte of resize, out of its place, or from outside the buffer
          NoRows       \* rowOffsetsValid is false

ASSUME BlockAssumption == Block \in Nat \ {0} /\ Blocks \subseteq Nat \ {0}
ASSUME SizesAssumption == Sizes \subseteq Nat /\ Points \subseteq Nat

VARIABLES
  disk,    \* the file: its version and its size
  buf, bufStart, fileSize, pos, readReverse, snapshotMode,
  block,   \* blockSize
  rows,    \* the text that rowOffsets are of: the file it begins, if any, and its length
  at,      \* the call in progress, between two of its steps
  saved,   \* STORE_ITER_INFO
  right,   \* history: the last range asked for, within the protocol, came as in the file
  seen,    \* history: the file as it was when opened or synced
  given,   \* history: next() has been right up to here since reset()
  aimed,   \* history: reset() has given pos a value
  moved,   \* history: a later block than the first was read since
  stray,   \* history: the caller has left the pager's protocol
  early,   \* history: rowOffsets were asked for before they were the file's
  wild     \* a write beyond the buffer: the behaviour is undefined from here

reader == <<bufStart, fileSize, pos, readReverse, snapshotMode, block, rows, saved>>
history == <<right, seen, given, aimed, moved, stray, early>>
vars == <<disk, buf, reader, at, history, wild>>

Idle == at \in {"idle", "taken"}
Called == Idle /\ at' = "idle"
Least(a, b) == IF a < b THEN a ELSE b

\* The bytes of the file d from offset a to offset b
Slice(d, a, b) == [i \in 1..Least(b, d.size) - Least(a, d.size) |-> <<d.version, a + i - 1>>]
Text(d) == Slice(d, 0, d.size)

Init ==
  /\ \E s \in Sizes : disk = [version |-> 0, size |-> s]
  /\ buf = <<>> /\ bufStart = 0 /\ fileSize = 0 /\ block = Block /\ rows = NoRows
  /\ pos = 0 /\ readReverse = FALSE /\ snapshotMode = FALSE
  /\ at = "closed" /\ saved = <<0, FALSE>>
  /\ right = TRUE /\ seen = disk
  /\ given = 0 /\ aimed = FALSE /\ moved = FALSE /\ stray = FALSE /\ early = FALSE /\ wild = FALSE

Write ==
  /\ disk.version < MaxVersion
  /\ \E s \in Sizes : disk' = [version |-> disk.version + 1, size |-> s]
  /\ UNCHANGED <<buf, reader, at, history, wild>>

-----------------------------------------------------------------------------
(* load *)

FileEnd == IF snapshotMode THEN Len(buf) ELSE fileSize

Refused(from, to) == from > FileEnd \/ to > FileEnd \/ to = 0
Held(from, to) == from >= bufStart /\ to <= Len(buf)

\* What is read is what the buffer lacks: the file from the buffer's end on.
Lacking(to) == Slice(disk, Len(buf), to)

\* buf.resize(to), and the read puts it at from.
Filled(from, to) ==
  [i \in 1..to |->
     IF i > from /\ i - from <= Len(Lacking(to))
     THEN IF from = Len(buf) THEN Lacking(to)[i - from] ELSE Junk
     ELSE IF i <= Len(buf) THEN buf[i] ELSE Junk]

Load(from, to) ==
  IF Refused(from, to) \/ Held(from, to)
  THEN UNCHANGED <<buf, wild>>
  ELSE buf' = Filled(from, to) /\ wild' = (from + Len(Lacking(to)) > to)

\* n bytes of b from offset a
Bytes(b, a, n) == [i \in 1..n |-> IF a + i <= Len(b) THEN b[a + i] ELSE Junk]

\* load answers with nothing when it refuses, or read nothing.
Loaded(from, to) ==
  IF Refused(from, to) THEN <<>>
  ELSE IF Held(from, to) THEN Bytes(buf, from - bufStart, to - from)
  ELSE IF Lacking(to) = <<>> THEN <<>> ELSE Bytes(buf', from, to - from)

Answers(from, to, bytes) == right' = (stray' \/ disk # seen \/ bytes = Slice(disk, from, to))

-----------------------------------------------------------------------------
(* Opening, and sync *)

\* FileReader(path, block): the size is taken first; pos and readReverse have none.
Open ==
  /\ at = "closed" \/ Idle
  /\ fileSize' = disk.size
  /\ at' = IF disk.size = 0 THEN "closed" ELSE "open"
  /\ seen' = disk
  /\ buf' = <<>> /\ bufStart' = 0 /\ rows' = NoRows /\ snapshotMode' = FALSE
  /\ block' \in Blocks /\ pos' \in Points /\ readReverse' \in BOOLEAN
  /\ right' = TRUE
  /\ given' = 0 /\ aimed' = FALSE /\ moved' = FALSE /\ stray' = FALSE /\ early' = FALSE
  /\ UNCHANGED <<disk, saved, wild>>

\* FileReader(snap), of a snapshot just taken with its file and rows, or of its
\* text alone
OpenSnapshot(file) ==
  /\ at = "taken"
  /\ at' = "idle"
  /\ bufStart' = 0 /\ snapshotMode' = TRUE
  /\ rows' = IF file THEN rows ELSE NoRows
  /\ early' = (file /\ early)
  /\ IF file THEN fileSize' \in (IF disk = seen THEN {disk.size} ELSE Sizes) ELSE fileSize' = 0
  /\ block' \in Blocks /\ pos' \in Points /\ readReverse' \in BOOLEAN
  /\ given' = 0 /\ aimed' = FALSE /\ moved' = FALSE
  /\ UNCHANGED <<disk, buf, saved, right, seen, stray, wild>>

\* The copy constructor leaves rowOffsetsValid at false.
Copy ==
  /\ Called
  /\ rows' = NoRows /\ early' = FALSE
  /\ UNCHANGED <<disk, buf, bufStart, fileSize, pos, readReverse, snapshotMode, block, saved,
                 right, seen, given, aimed, moved, stray, wild>>

\* file.sync(), and the buffer is emptied; next is what follows.
Resize(next) ==
  /\ fileSize' = disk.size
  /\ seen' = disk
  /\ buf' = <<>> /\ bufStart' = 0
  /\ at' = next
  /\ right' = TRUE /\ moved' = FALSE /\ stray' = FALSE
  /\ early' = (early \/ (rows # NoRows /\ disk # seen))
  /\ UNCHANGED <<disk, pos, readReverse, snapshotMode, block, rows, given, aimed, wild>>

Sync == Idle /\ ~snapshotMode /\ Resize("sync") /\ saved' = saved

\* The first load: the constructor's block when opened, everything when synced
FirstLoad ==
  /\ at \in {"open", "sync", "resync"}
  /\ Load(0, IF at = "open" THEN Least(block, fileSize) ELSE fileSize)
  /\ at' = IF at = "resync" THEN "snapshot" ELSE "idle"
  /\ IF at = "resync" THEN saved' = <<pos, readReverse>> /\ pos' = 0 /\ readReverse' = FALSE
                      ELSE UNCHANGED <<saved, pos, readReverse>>
  /\ UNCHANGED <<disk, bufStart, fileSize, snapshotMode, block, rows, history>>

-----------------------------------------------------------------------------
(* Ranges, lines, and tree-sitter *)

\* A range that was not read yet is put in the wrong place, or beyond the
\* buffer; after a second block what load finds is off by bufStart.
Strays(to) == moved \/ to > Len(buf)

\* get asks the file, if there is one, whether the range is in it.
InFile(from, to) == (snapshotMode /\ fileSize = 0) \/ (from <= fileSize /\ to <= fileSize)

\* get(from, to)
GetRange(from, to) ==
  /\ Called
  /\ stray' = (stray \/ Strays(to))
  /\ InFile(from, to)
  /\ Load(from, to)
  /\ Answers(from, to, Loaded(from, to))
  /\ UNCHANGED <<disk, reader, seen, given, aimed, moved, early>>

\* get(): what the buffer holds from bufStart on, which Lua is given as get
Get == bufStart <= Len(buf) /\ GetRange(bufStart, Len(buf))

\* UPDATE_ROW_OFFSETS, of the text b: once they are valid they stay.
Rows(b) ==
  IF rows # NoRows THEN rows
  ELSE [of |-> IF b = Slice(seen, 0, Len(b)) THEN seen ELSE Junk, size |-> Len(b)]

AskRows(b) ==
  /\ rows' = Rows(b)
  /\ early' = (early \/ (rows = NoRows /\ (stray' \/ disk # seen \/ Len(b) < FileEnd)))

\* getLine, getIndent and getRowStart: a row ends where the next begins, and
\* the last one at file.size.  rowOffsets stay when the buffer changes, and the
\* reader of a text has no file.
GetLine(from, to) ==
  LET known == Rows(buf)
      end == IF to = known.size THEN fileSize ELSE to
  IN
  /\ Called /\ to <= known.size
  /\ stray' = (stray \/ Strays(end) \/ known.of # seen \/ end # to)
  /\ AskRows(buf)
  /\ IF InFile(from, end)
     THEN Load(from, end) /\ right' = (stray' \/ disk # seen \/ Loaded(from, end) = Slice(disk, from, to))
     ELSE right' = stray' /\ UNCHANGED <<buf, wild>>
  /\ UNCHANGED <<disk, bufStart, fileSize, pos, readReverse, snapshotMode, block, saved,
                 seen, given, aimed, moved>>

\* readBlockAt(p), which is what the iterators step through
ReadBlockAt(p) ==
  LET to == p + Least(Block, fileSize - p) IN
  /\ Called /\ p < fileSize
  /\ stray' = (stray \/ moved \/ (to > Len(buf) /\ p # Len(buf)))
  /\ Load(p, to)
  /\ Answers(p, to, Loaded(p, to))
  /\ UNCHANGED <<disk, reader, seen, given, aimed, moved, early>>

\* tsRead: the buffer is taken to begin at byte p, where load has put it at 0.
TsRead(p) ==
  LET to == p + Least(block, fileSize - p)
      lacks == buf = <<>> \/ p < bufStart \/ to > bufStart + Len(buf)
      start == IF lacks THEN p ELSE bufStart
  IN
  /\ Called /\ p < fileSize
  /\ stray' = (stray \/ Strays(to))
  /\ IF lacks THEN Load(p, to) ELSE UNCHANGED <<buf, wild>>
  /\ bufStart' = start
  /\ Answers(p, to, Bytes(buf', p - start, to - p))
  /\ UNCHANGED <<disk, fileSize, pos, readReverse, snapshotMode, block, rows, saved,
                 seen, given, aimed, moved, early>>

-----------------------------------------------------------------------------
(* Blocks in order *)

Current == Least(Block, FileEnd - pos)

\* The block at pos is made present, n bytes of it are answered.
Page(n) ==
  LET lacks == pos < bufStart \/ pos + n > Len(buf) IN
  /\ IF lacks THEN Load(pos, pos + n) ELSE UNCHANGED <<buf, wild>>
  /\ bufStart' = IF lacks THEN pos ELSE bufStart
  /\ moved' = (moved \/ (lacks /\ pos > 0))
  /\ Answers(pos, pos + n, Bytes(buf', pos, n))

\* Paging is for readers whose first block ends where a block of next does, or
\* that hold the whole file, as after sync: of another one next, find and
\* snapshot read the file from blockSize on to the beginning of the buffer.
Even == \E k \in 1..block : block = k * Block
Pages == Even \/ Len(buf) = FileEnd

Less(n) == IF pos < n THEN 0 ELSE pos - n

\* next() of a caller that iterates
Next_ ==
  /\ Called /\ pos < FileEnd
  /\ stray' = (stray \/ readReverse \/ ~aimed \/ ~Pages)
  /\ Page(Current)
  /\ pos' = IF readReverse THEN Less(Current) ELSE pos + Current
  /\ given' = IF given = pos THEN pos' ELSE given
  /\ UNCHANGED <<disk, fileSize, readReverse, snapshotMode, block, rows, saved, seen, aimed, early>>

\* prev() answers with what comes after pos, beyond the end at the end.
Prev ==
  LET n == Least(Block, pos) IN
  /\ Called /\ pos > 0 /\ FileEnd > 0
  /\ stray' = TRUE
  /\ Page(n)
  /\ pos' = IF readReverse THEN (IF pos + 1 < FileEnd THEN pos + n ELSE pos) ELSE pos - n
  /\ aimed' = FALSE /\ given' = 0
  /\ UNCHANGED <<disk, fileSize, readReverse, snapshotMode, block, rows, saved, seen, early>>

\* Mutant: bufStart keeps its value.
Bug_Reset ==
  /\ Called
  /\ pos' = IF readReverse THEN fileSize ELSE 0
  /\ given' = 0 /\ aimed' = TRUE /\ moved' = FALSE
  /\ UNCHANGED <<disk, buf, bufStart, fileSize, readReverse, snapshotMode, block, rows, saved,
                 right, seen, stray, early, wild>>

Reset ==
  /\ Called
  /\ bufStart' = 0
  /\ pos' = IF readReverse THEN fileSize ELSE 0
  /\ given' = 0 /\ aimed' = TRUE /\ moved' = FALSE
  /\ UNCHANGED <<disk, buf, fileSize, readReverse, snapshotMode, block, rows, saved,
                 right, seen, stray, early, wild>>

-----------------------------------------------------------------------------
(* find and snapshot read all the blocks *)

\* STORE_ITER_INFO
Scan(call) ==
  /\ at' = call
  /\ saved' = <<pos, readReverse>>
  /\ pos' = 0 /\ readReverse' = FALSE

FindBegins ==
  /\ Idle
  /\ Scan("find")
  /\ UNCHANGED <<disk, buf, bufStart, fileSize, snapshotMode, block, rows, history, wild>>

\* snapshot reads the file's time; where the library remembers the time of the
\* reader's own entry and the file is newer, it syncs first.
SnapshotBegins ==
  /\ Idle
  /\ Scan("snapshot")
  /\ UNCHANGED <<disk, buf, bufStart, fileSize, snapshotMode, block, rows, history, wild>>

SnapshotSyncs == Idle /\ ~snapshotMode /\ disk # seen /\ Resize("resync") /\ saved' = saved

\* One block; a match of a regular expression asks for the rows of the buffer.
ScanBlock(match) ==
  /\ at \in {"find", "snapshot"} /\ pos < FileEnd
  /\ stray' = (stray \/ ~Pages)
  /\ Page(Current)
  /\ pos' = pos + Current
  /\ match => at = "find"
  /\ IF match THEN AskRows(buf') ELSE UNCHANGED <<rows, early>>
  /\ UNCHANGED <<disk, fileSize, readReverse, snapshotMode, block, saved, at,
                 seen, given, aimed>>

\* findWith throws between two blocks, and leaves the position where it is.
FindThrows ==
  /\ at = "find" /\ pos > 0
  /\ at' = "idle"
  /\ aimed' = FALSE /\ given' = 0 /\ saved' = <<0, FALSE>>
  /\ UNCHANGED <<disk, buf, bufStart, fileSize, pos, readReverse, snapshotMode, block, rows,
                 right, seen, moved, stray, early, wild>>

\* Mutant: the position is not put back.
Bug_Restore == pos' = pos /\ readReverse' = saved[2] /\ saved' = <<0, FALSE>>

\* RESTORE_ITER_INFO
Restore == pos' = saved[1] /\ readReverse' = saved[2] /\ saved' = <<0, FALSE>>

FindEnds ==
  /\ at = "find" /\ pos >= FileEnd
  /\ Restore
  /\ at' = "idle"
  /\ UNCHANGED <<disk, buf, bufStart, fileSize, snapshotMode, block, rows, history, wild>>

\* Mutant: one block is read, and no more.
Bug_SnapshotEnds ==
  /\ at = "snapshot" /\ pos > 0
  /\ Restore
  /\ at' = "taken"
  /\ stray' = stray
  /\ AskRows(buf)
  /\ UNCHANGED <<disk, buf, bufStart, fileSize, snapshotMode, block, right, seen, given, aimed,
                 moved, wild>>

SnapshotEnds ==
  /\ at = "snapshot" /\ pos >= FileEnd
  /\ Restore
  /\ at' = "taken"
  /\ stray' = stray
  /\ AskRows(buf)
  /\ UNCHANGED <<disk, buf, bufStart, fileSize, snapshotMode, block, right, seen, given, aimed,
                 moved, wild>>

-----------------------------------------------------------------------------
Ranges == {r \in Points \X Points : r[1] <= r[2]}

Call == \/ Open \/ Copy \/ Sync \/ Get \/ Next_ \/ Prev \/ Reset
        \/ \E file \in BOOLEAN : OpenSnapshot(file)
        \/ \E r \in Ranges : GetRange(r[1], r[2]) \/ GetLine(r[1], r[2])
        \/ \E p \in Points : ReadBlockAt(p) \/ TsRead(p)
        \/ FindBegins \/ SnapshotBegins \/ SnapshotSyncs

Step == \/ FirstLoad \/ FindThrows \/ FindEnds \/ SnapshotEnds
        \/ \E match \in BOOLEAN : ScanBlock(match)

Next == ~wild /\ (Call \/ Step \/ Write)

Spec == Init /\ [][Next]_vars

-----------------------------------------------------------------------------
(* Properties *)

\* The file has not changed since it was opened or synced, and the caller asks
\* for ranges that were read, in a reader that did not move on; pages through
\* readers of an even block size, or that were synced; and iterates forward
\* from a reset.
Proper == disk = seen /\ ~stray

\* Nothing is written beyond the buffer, and every range, line, block and chunk
\* is that of the file, whatever scans and iterations came between.
AnswersExact ==
  Proper => ~wild /\ right

\* A snapshot that met no change of the file is the whole file, after any
\* sequence of scans, iterations and ranges, on a file of any number of blocks.
\* Its row offsets are that text's, except in a reader that was asked for rows
\* before: of a part of the file, of what the file was before a sync, or by a
\* caller outside the protocol.
SnapshotWhole ==
  at = "taken" /\ Proper =>
    /\ buf = Text(disk)
    /\ early \/ rows = [of |-> disk, size |-> disk.size]

\* A caller that iterates and calls find or snapshot between two blocks gets
\* each byte once and in order; only a find that throws loses its place.
IterationKept ==
  Idle /\ Proper /\ aimed /\ ~readReverse => pos = given

-----------------------------------------------------------------------------
(* Why they hold: an inductive invariant *)

Opening == {"open", "sync", "resync"}
Scanning == {"find", "snapshot"}

File == [version : Nat, size : Nat]
Byte == (Nat \X Nat) \cup {Junk}

TypeOK ==
  /\ disk \in File /\ seen \in File
  /\ buf \in Seq(Byte)
  /\ bufStart \in Nat /\ fileSize \in Nat /\ block \in Nat \ {0} /\ pos \in Nat /\ given \in Nat
  /\ readReverse \in BOOLEAN /\ snapshotMode \in BOOLEAN /\ saved \in Nat \X BOOLEAN
  /\ rows # NoRows => rows \in [of : File \cup {Junk}, size : Nat]
  /\ at \in {"closed", "idle", "taken"} \cup Opening \cup Scanning
  /\ right \in BOOLEAN /\ aimed \in BOOLEAN /\ moved \in BOOLEAN
  /\ stray \in BOOLEAN /\ early \in BOOLEAN /\ wild \in BOOLEAN

\* What a reader of the file has when it is opened or synced, and that a file
\* never returns to an earlier version
OpenInv ==
  /\ seen.version <= disk.version
  /\ at \in Opening \cup {"closed"} => buf = <<>> /\ bufStart = 0 /\ ~moved /\ ~snapshotMode
  /\ at = "open" => ~aimed
  /\ at # "closed" /\ ~snapshotMode => fileSize = seen.size

\* The position is where the iteration left it, or will be put back there.
PlaceInv ==
  /\ ~(at \in Scanning) /\ aimed /\ ~readReverse => pos = given
  /\ at \in Scanning /\ aimed /\ ~saved[2] => saved[1] = given

\* The bytes of b are those that the file f begins with.
Prefix(b, f) == Len(b) <= f.size /\ \A i \in 1..Len(b) : b[i] = <<f.version, i - 1>>

\* A multiple of the block size, or the end of the file f
Edge(n, f) == n = f.size \/ \E k \in 0..n : n = k * Block

Whole == Len(buf) = seen.size

\* The buffer holds the file up to some byte, the end of one of its blocks if
\* the reader's block size is even.
BufferInv ==
  /\ Prefix(buf, seen) /\ (Even => Edge(Len(buf), seen))
  /\ ~moved => bufStart = 0
  /\ at = "taken" => Whole
  /\ snapshotMode => Whole /\ bufStart = 0 /\ fileSize \in {0, seen.size}

\* A position that is read on from is where a block begins that the buffer
\* holds or lacks as a whole, unless the buffer holds the file.
Reachable(p, limit) == \/ Whole /\ bufStart = 0
                       \/ p <= limit /\ Edge(p, seen)

NextInv ==
  /\ Idle /\ aimed /\ ~readReverse => Reachable(pos, Len(buf))
  /\ at \in Scanning => pos <= Len(buf) /\ Edge(pos, seen)
  /\ at \in Scanning /\ aimed /\ ~saved[2] => Reachable(saved[1], seen.size)

\* What holds of whoever stays within the protocol
ProperInv ==
  Proper => /\ ~wild /\ right
            /\ at # "closed" => BufferInv /\ NextInv

\* Row offsets that were asked for in time are the file's, those of a snapshot
\* included.
RowsInv ==
  ~early /\ (rows # NoRows \/ at = "taken") => rows = [of |-> seen, size |-> seen.size]

IInv == TypeOK /\ OpenInv /\ PlaceInv /\ ProperInv /\ RowsInv
=============================================================================
