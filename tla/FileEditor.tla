------------------------------ MODULE FileEditor ------------------------------
(* FileEditor (include/FileEditor.hpp, src/FileEditor.cpp) with the writer   *)
(* and the syntax tree it is applied to: edits with byte ranges are queued,  *)
(* checked for conflicts, sorted by kind and range, and executed one by one  *)
(* on the writer's text; the tree is re-parsed after each, and some kinds    *)
(* check the tree, back the text up, or save it.                             *)
(*                                                                           *)
(* Asserts are off, as in the default Release build.  tree-sitter and the    *)
(* file system are modelled by how this code uses them.                      *)
EXTENDS TextBuffer

CONSTANTS Text,       \* the file when the session begins
          Candidates, \* edits the caller may queue
          Finals,     \* kinds that the apply... calls add: applyAndSave and so on
          Bad,        \* a character that makes the syntax tree erroneous
          MaxOps,     \* bound: edits in one queue
          MaxSteps,   \* bound: steps asked for in one batch
          MaxCalls,   \* bound: calls of queue
          MaxBatches, \* bound: resets of the editor
          Tag,        \* what a mark's rows end with, and a mark of an error says
          NoText      \* a file that was truncated and not written

VARIABLES ops,      \* operations
          currStep,
          nextId,   \* edditIdCounter
          errors,
          cont,     \* FileWriter::snap.cont
          dirty,    \* FileWriter::snap.dirty
          exact,    \* the tree is what a fresh parse of cont would give
          disk,     \* the file
          backups,  \* texts in backup files
          base,     \* the text that the queued ranges refer to
          pc,
          left,     \* iterations of apply's loop that are left
          trouble,  \* what went wrong in this batch, or was not apply's doing
          kept,     \* where applySaveAndMarkErrors is, and what it will put back
          freed,    \* patterns that PcreCache maps to code that was freed
          batches,
          calls

editor == <<ops, currStep, nextId, errors>>
writer == <<cont, dirty, exact, freed>>
files == <<disk, backups>>
bounds == <<batches, calls>>
vars == <<editor, writer, files, base, pc, left, trouble, kept, bounds>>

\* FOREACH_OP: "order based on increasing precedence"
OpOrder == <<"WRITE_TO", "SAVE", "SAVE_VALID_ONLY", "PRINT_PATH", "PRINT_ERRORS",
             "VALIDATE_CST", "PRINT_CHANGE_AFTER", "MARK", "WRITE", "INSERT",
             "INSERT_ROW_BEFORE", "INSERT_ROW_AFTER", "REPLACE", "DELETE",
             "PRINT_CHANGE_BEFORE", "BACKUP">>

\* Mutant: the backup has the rank of the writes, below the insertions.
Bug_Rank(op) ==
  CHOOSE i \in DOMAIN OpOrder : OpOrder[i] = IF op = "BACKUP" THEN "WRITE" ELSE op

Rank(op) == CHOOSE i \in DOMAIN OpOrder : OpOrder[i] = op

Prints == {"PRINT_CHANGE_BEFORE", "PRINT_CHANGE_AFTER", "PRINT_PATH", "PRINT_ERRORS"}
Splices == {"WRITE", "INSERT", "DELETE"}
RowOps == {"INSERT_ROW_BEFORE", "INSERT_ROW_AFTER", "MARK"}
TextOps == Splices \cup RowOps \cup {"REPLACE"}

\* NOT_CONFLICTING_OP
NotConflicting(op) == op \in Prints

\* A text is a sequence of its characters.
ASSUME TextAssumption ==
  /\ Text \in Seq(Range(Text))
  /\ \A c \in Candidates : c.change \in Seq(Range(c.change)) /\ c.context \in Seq(Range(c.context))

\* An edit that a caller may queue has a kind and a range.
ASSUME EditsAssumption ==
  /\ \A c \in Candidates : /\ DOMAIN c = {"op", "s", "e", "change", "context"}
                           /\ c.op \in Range(OpOrder)
                           /\ c.s \in Nat /\ c.e \in Nat /\ c.s <= c.e
  /\ Finals \subseteq {"none", "SAVE", "SAVE_VALID_ONLY", "MARK"}

ASSUME BoundsAssumption ==
  /\ MaxOps \in Nat /\ MaxSteps \in Nat /\ MaxOps <= MaxSteps
  /\ MaxCalls \in Nat /\ MaxBatches \in Nat \ {0}

Valid(text) == \A i \in DOMAIN text : text[i] # Bad

Plain(op) == [op |-> op, s |-> 0, e |-> 0, change |-> <<>>, context |-> <<>>]
WithId(edit, id) == [f \in DOMAIN edit \cup {"id"} |-> IF f = "id" THEN id ELSE edit[f]]

TypeOK ==
  /\ Len(ops) <= MaxSteps /\ currStep \in 0..MaxSteps /\ nextId \in Nat
  /\ \A i \in DOMAIN ops : ops[i].op \in Range(OpOrder) /\ ops[i].s <= ops[i].e
  /\ \A err \in errors : err.e \in {"CONFLICT", "CST_ERROR"}
  /\ dirty \in BOOLEAN /\ exact \in BOOLEAN /\ trouble \subseteq {"throw", "backup", "save", "step", "marks"}
  /\ pc \in {"idle", "applying", "saving", "applied", "undefined"}
  /\ left \in 0..MaxSteps /\ batches \in 1..MaxBatches /\ calls \in 0..MaxCalls

\* Outside of applySaveAndMarkErrors, and while it applies the caller's edits
Outside == [during |-> "none"]
First == [during |-> "edits"]

Init ==
  /\ ops = <<>> /\ currStep = 0 /\ nextId = 0 /\ errors = {}
  /\ cont = Text /\ dirty = FALSE /\ exact = TRUE /\ freed = {}
  /\ disk = Text /\ backups = {}
  /\ base = Text /\ pc = "idle" /\ left = 0 /\ trouble = {} /\ kept = Outside /\ batches = 1 /\ calls = 0

MayCall == pc \in {"idle", "applied"}

-----------------------------------------------------------------------------
(* Calls *)

\* queue(e): an edit without an id gets one.
Queue(edit) ==
  /\ MayCall
  /\ Len(ops) < MaxOps /\ calls < MaxCalls
  /\ calls' = calls + 1
  /\ edit.e <= Len(cont)
  /\ ops' = Append(ops, WithId(edit, nextId + 1))
  /\ nextId' = nextId + 1
  /\ pc' = "idle"
  /\ UNCHANGED <<currStep, errors, writer, files, base, left, trouble, kept, batches>>

\* delEdit(id) of a queued edit.  (Of an unknown id, it erases end().)
DelEdit(id) ==
  /\ MayCall
  /\ \E i \in DOMAIN ops : ops[i].id = id /\ ops' = RemoveAt(ops, i)
  /\ pc' = "idle"
  /\ UNCHANGED <<currStep, nextId, errors, writer, files, base, left, trouble, kept, bounds>>

\* reset(); the caller parses the text anew before it queues again.
Reset ==
  /\ MayCall
  /\ batches < MaxBatches
  /\ batches' = batches + 1
  /\ ops' = <<>> /\ currStep' = 0 /\ nextId' = 0 /\ errors' = {}
  /\ exact' = TRUE
  /\ base' = cont
  /\ pc' = "idle"
  /\ trouble' = {}
  /\ UNCHANGED <<cont, dirty, freed, files, left, kept, calls>>

\* Mutant: a pair is compared only while the next edit starts inside the first.
Bug_Reported(q, i, k) ==
  /\ i + 1 = k /\ q[k].s < q[i].e
  /\ ~NotConflicting(q[i].op) /\ ~NotConflicting(q[k].op)

\* The pairs that the two loops report on edits sorted by range: the inner one
\* breaks at the first edit that starts at or after the end of the outer's.
Reported(q, i, k) ==
  /\ i < k
  /\ \A m \in i + 1..k : q[m].s < q[i].e
  /\ ~NotConflicting(q[i].op) /\ ~NotConflicting(q[k].op)

Conflicts(q) == {p \in (DOMAIN q) \X (DOMAIN q) : Reported(q, p[1], p[2])}

\* std::sort leaves edits that compare equal in any order.
SortedBy(seq, Before(_, _)) ==
  {q \in {[i \in DOMAIN seq |-> seq[p[i]]] : p \in Injection(DOMAIN seq, DOMAIN seq)} :
     \A i, k \in DOMAIN q : i < k => ~Before(q[k], q[i])}

ByRange(x, y) == x.s < y.s \/ (x.s = y.s /\ x.e < y.e)

ConflictErrors(seq) ==
  {{[e |-> "CONFLICT", edit |-> q[p[1]], other |-> q[p[2]]] : p \in Conflicts(q)} :
     q \in SortedBy(seq, ByRange)}

\* getConflictErrors() adds to the errors that are there.
GetConflicts ==
  /\ MayCall
  /\ \E found \in ConflictErrors(ops) : errors' = errors \cup found
  /\ pc' = "idle"
  /\ UNCHANGED <<ops, currStep, nextId, writer, files, base, left, trouble, kept, bounds>>

\* Mutant: edits of a kind are executed top to bottom.
Bug_Earlier(x, y) == \/ Rank(x.op) > Rank(y.op)
                     \/ x.op = y.op /\ (x.s < y.s \/ (x.s = y.s /\ x.e < y.e))

\* sortOperations: the kind of higher precedence, then the higher start, then
\* the higher end first.
Earlier(x, y) == \/ Rank(x.op) > Rank(y.op)
                 \/ x.op = y.op /\ (x.s > y.s \/ (x.s = y.s /\ x.e > y.e))

\* Mutant: apply's loop runs to i <= operations.size().
Bug_Iterations(queued) == Len(queued) + 1

Iterations(queued) == Len(queued)

\* getConflictErrors and sortOperations, then the loop over a queue
Start(queued) ==
  /\ \E q \in SortedBy(queued, Earlier) : ops' = q
  /\ left' = Iterations(queued)
  /\ pc' = "applying"

\* The kinds that a call adds before it applies
Added(final) ==
  CASE final = "none" -> <<>>
    [] final = "MARK" -> <<Plain("SAVE"), Plain("VALIDATE_CST")>>
    [] final \in {"SAVE", "SAVE_VALID_ONLY"} -> <<Plain(final)>>

\* apply(), the calls that queue a saving edit before it, and the first half of
\* applySaveAndMarkErrors
Apply(final) ==
  /\ MayCall
  /\ LET added == Added(final)
         queued == ops \o [i \in DOMAIN added |-> WithId(added[i], nextId + i)]
     IN /\ queued # <<>> /\ currStep + Len(queued) <= MaxSteps
        /\ nextId' = nextId + Len(added)
        /\ \E found \in ConflictErrors(queued) : errors' = errors \cup found
        /\ Start(queued)
  /\ kept' = IF final = "MARK" THEN First ELSE Outside
  /\ UNCHANGED <<currStep, writer, files, base, trouble, bounds>>

\* step(): one edit, neither sorted nor compared with the others
StepCalled ==
  /\ MayCall
  /\ currStep < MaxSteps /\ batches = MaxBatches  \* bound: in the last batch only
  /\ pc' = "applying"
  /\ left' = 1
  /\ trouble' = trouble \cup {"step"}
  /\ UNCHANGED <<editor, writer, files, base, kept, bounds>>

-----------------------------------------------------------------------------
(* step: one iteration of apply's loop *)

Edit == ops[currStep + 1]

Iterating(kinds) ==
  /\ pc = "applying"
  /\ left > 0
  /\ currStep < Len(ops)
  /\ Edit.op \in kinds
  /\ currStep' = currStep + 1
  /\ left' = left - 1
  /\ UNCHANGED <<ops, nextId, base, bounds>>

Stepping(kinds) == Iterating(kinds) /\ kept' = kept

\* An exception leaves apply, and applySaveAndMarkErrors.
Throwing(kinds) == Iterating(kinds) /\ kept' = Outside /\ pc' = "idle"

\* operations[currStep++] past the end: apply was called again without reset.
StepPastEnd ==
  /\ pc = "applying"
  /\ left > 0
  /\ currStep >= Len(ops)
  /\ pc' = "undefined"
  /\ UNCHANGED <<editor, writer, files, base, left, trouble, kept, bounds>>

Spliced(text, edit) ==
  CASE edit.op = "INSERT" -> PutAt(text, edit.s, edit.change)
    [] edit.op = "DELETE" -> Erase(text, edit.s, edit.e)
    [] edit.op = "WRITE"  -> PutAt(Erase(text, edit.s, edit.e), edit.s, edit.change)

(* OP_DELETE leaves new_end_byte at the end of the deleted range, and a      *)
(* range past the end is cut: what tree-sitter is told is not what happened, *)
(* and what it makes of the old tree is anyone's guess.                      *)
StepSplice ==
  /\ Stepping(Splices)
  /\ InRange(cont, Edit.s)
  /\ cont' = Spliced(cont, Edit)
  /\ exact' = (exact /\ Edit.op # "DELETE" /\ InRange(cont, Edit.e))
  /\ dirty' = TRUE
  /\ UNCHANGED <<errors, files, pc, trouble, freed>>

\* std::out_of_range
StepThrows ==
  /\ Throwing(Splices)
  /\ ~InRange(cont, Edit.s)
  /\ trouble' = trouble \cup {"throw"}
  /\ UNCHANGED <<errors, writer, files>>

\* The mark of an error has the rows of the error.
StartRow == IF "rows" \in DOMAIN Edit THEN Edit.rows[1] ELSE RowOf(base, Edit.s)
EndRow == IF "rows" \in DOMAIN Edit THEN Edit.rows[2] ELSE RowOf(base, Edit.e)

\* A mark's rows get a tag; an empty one is left out.
Mark(row, s) == IF s = <<>> THEN <<>> ELSE <<[row |-> row, s |-> Append(s, Tag)]>>

\* The rows, counted in the text as it is now, that an edit puts rows before
RowTargets ==
  CASE Edit.op = "INSERT_ROW_BEFORE" -> <<[row |-> StartRow, s |-> Edit.change]>>
    [] Edit.op = "INSERT_ROW_AFTER"  -> <<[row |-> EndRow + 1, s |-> Edit.change]>>
    [] Edit.op = "MARK" -> Mark(EndRow + 1, Edit.change)
                             \o Mark(StartRow, Edit.context) \o Mark(StartRow, Edit.change)

AfterRow(texts, target) == UNION {RowInserted(each, target.row, target.s) : each \in texts}

AfterRows(text, targets) ==
  LET after[n \in 0..Len(targets)] ==
        IF n = 0 THEN {text} ELSE AfterRow(after[n - 1], targets[n])
  IN after[Len(targets)]

\* An empty row, or a row past the last one, reads outside of a string or of
\* rowOffsets.
RowsExist == \A i \in DOMAIN RowTargets :
               RowTargets[i].s # <<>> /\ RowTargets[i].row < RowCount(cont)

StepRowsOutside ==
  /\ Stepping(RowOps)
  /\ ~RowsExist
  /\ pc' = "undefined"
  /\ UNCHANGED <<errors, writer, files, trouble>>

\* The length told to tree-sitter leaves out the indent, except for a mark.
StepRows ==
  /\ Stepping(RowOps)
  /\ RowsExist
  /\ cont' \in AfterRows(cont, RowTargets)
  /\ exact' = (exact /\ (Edit.op = "MARK" \/ Len(Indent(cont, RowTargets[1].row)) = 0))
  /\ dirty' = TRUE
  /\ UNCHANGED <<errors, files, pc, trouble, freed>>

(* writer.replaceAll(change, context): a pattern, here one character, and    *)
(* its replacement.  The output has to fit twice the length of the text with *)
(* a zero at its end: if it does not, the length asked for next is           *)
(* PCRE2_UNSET, and resize throws.                                           *)
Replaced(text, edit) ==
  FlattenSeq([i \in DOMAIN text |->
    IF <<text[i]>> = edit.change THEN edit.context ELSE <<text[i]>>])

ReplaceThrows == cont # <<>> /\ Len(Replaced(cont, Edit)) + 1 > 2 * Len(cont)

\* The code is freed after the first use and stays in PcreCache; the next use
\* of the pattern reads it.
StepReplaceFreed ==
  /\ Stepping({"REPLACE"})
  /\ Edit.change \in freed
  /\ pc' = "undefined"
  /\ UNCHANGED <<errors, writer, files, trouble>>

StepReplaceThrows ==
  /\ Throwing({"REPLACE"})
  /\ Edit.change \notin freed
  /\ ReplaceThrows
  /\ trouble' = trouble \cup {"throw"}
  /\ UNCHANGED <<errors, writer, files>>

\* and then tree.sync(), on a view of a text that is gone
StepReplace ==
  /\ Stepping({"REPLACE"})
  /\ Edit.change \notin freed
  /\ ~ReplaceThrows
  /\ cont' = Replaced(cont, Edit)
  /\ IF cont = <<>> THEN UNCHANGED <<dirty, freed>>
                    ELSE dirty' = TRUE /\ freed' = freed \cup {Edit.change}
  /\ exact' = FALSE
  /\ UNCHANGED <<errors, files, pc, trouble>>

\* tree.getErrors(), each with an edit it is blamed on
StepValidate ==
  /\ Stepping({"VALIDATE_CST"})
  /\ \E bad \in IF exact THEN {~Valid(cont)} ELSE BOOLEAN :
       errors' = IF bad THEN errors \cup {[e |-> "CST_ERROR"]} ELSE errors
  /\ UNCHANGED <<writer, files, pc, trouble>>

\* What is printed is left out, and so is the file that WRITE_TO makes.  The
\* change is looked up by rows that may be gone.
StepPrint ==
  /\ Stepping(Prints \cup {"WRITE_TO"})
  /\ pc' \in IF Edit.op \in {"PRINT_CHANGE_BEFORE", "PRINT_CHANGE_AFTER"}
                  /\ EndRow >= RowCount(cont)
               THEN {pc, "undefined"} ELSE {pc}
  /\ UNCHANGED <<errors, writer, files, trouble>>

\* backup(): the text goes to a file of its own, and counts as saved.
StepBackup ==
  /\ Stepping({"BACKUP"})
  /\ \/ backups' = backups \cup {cont} /\ dirty' = FALSE /\ UNCHANGED trouble
     \/ trouble' = trouble \cup {"backup"} /\ UNCHANGED <<backups, dirty>>
  /\ UNCHANGED <<errors, cont, exact, freed, disk, pc>>

\* Mutant: a save that should wait for a valid tree does not ask for errors.
Bug_Saves == dirty

Saves == dirty /\ (Edit.op = "SAVE_VALID_ONLY" => errors = {})

\* save() first truncates the file
StepSave ==
  /\ Stepping({"SAVE", "SAVE_VALID_ONLY"})
  /\ IF Saves THEN pc' = "saving" /\ disk' = NoText ELSE UNCHANGED <<pc, disk>>
  /\ UNCHANGED <<errors, writer, backups, trouble>>

\* and then writes it, which may fail.
SaveWrites ==
  /\ pc = "saving"
  /\ pc' = "applying"
  /\ \/ disk' = cont /\ dirty' = FALSE /\ UNCHANGED trouble
     \/ trouble' = trouble \cup {"save"} /\ UNCHANGED <<disk, dirty>>
  /\ UNCHANGED <<editor, cont, exact, freed, backups, base, left, kept, bounds>>

ApplyReturns ==
  /\ pc = "applying" /\ left = 0
  /\ kept = Outside \/ (kept = First /\ errors = {})
  /\ pc' = "applied" /\ kept' = Outside
  /\ UNCHANGED <<editor, writer, files, base, left, trouble, bounds>>

-----------------------------------------------------------------------------
(* The second half of applySaveAndMarkErrors *)

\* What a mark of an error may refer to.  Where the parser sees an error is its
\* affair.  The rows of a conflict are not initialised, so they are anything.
ErrorRanges(err) ==
  IF err.e = "CST_ERROR"
  THEN {[s |-> o, e |-> o, rows |-> <<RowOf(cont, o), RowOf(cont, o)>>] : o \in RowOffsets(cont)}
  ELSE {[s |-> err.other.s,
         e |-> IF err.edit.e < err.other.e THEN err.edit.e ELSE err.other.e,
         rows |-> <<r, q>>] : r, q \in {0, RowCount(cont)}}

ErrorMark(range) == [op |-> "MARK", s |-> range.s, e |-> range.e, rows |-> range.rows,
                     change |-> <<Tag>>, context |-> <<Tag>>]

\* A conflict is in the errors twice, once for each of its edits.
Reports == errors \X {1} \cup {err \in errors : err.e = "CONFLICT"} \X {2}

\* The editor is emptied; a mark for each error and a save are queued and applied.
MarkErrors ==
  /\ pc = "applying" /\ left = 0 /\ kept = First /\ errors # {}
  /\ kept' = [during |-> "marks", ops |-> ops, currStep |-> currStep, nextId |-> nextId, errors |-> errors]
  /\ Cardinality(Reports) < MaxSteps
  /\ \E found \in {f \in [errors -> UNION {ErrorRanges(err) : err \in errors}] :
                     \A err \in errors : f[err] \in ErrorRanges(err)} :
       LET each == SetToSeq(Reports)
           marks == [i \in DOMAIN each |-> ErrorMark(found[each[i][1]])]
           all == Append(marks, Plain("SAVE"))
           queued == [i \in DOMAIN all |-> WithId(all[i], i)]
       IN /\ nextId' = Len(queued)
          /\ errors' \in ConflictErrors(queued)
          /\ Start(queued)
  /\ currStep' = 0
  /\ trouble' = trouble \cup {"marks"}
  /\ UNCHANGED <<writer, files, base, bounds>>

\* What it kept is put back; it returns what went wrong with the marks.
MarkErrorsReturns ==
  /\ pc = "applying" /\ left = 0 /\ kept.during = "marks"
  /\ ops' = kept.ops /\ currStep' = kept.currStep
  /\ nextId' = kept.nextId /\ errors' = kept.errors
  /\ pc' = "applied" /\ kept' = Outside
  /\ UNCHANGED <<writer, files, base, left, trouble, bounds>>

Step == \/ StepPastEnd \/ StepSplice \/ StepThrows \/ StepRows \/ StepRowsOutside
        \/ StepReplace \/ StepReplaceFreed \/ StepReplaceThrows \/ StepValidate \/ StepPrint \/ StepBackup \/ StepSave \/ SaveWrites
        \/ ApplyReturns \/ MarkErrors \/ MarkErrorsReturns

Call == \/ \E edit \in Candidates : Queue(edit)
        \/ \E id \in 1..nextId : DelEdit(id)
        \/ Reset \/ GetConflicts
        \/ \E final \in Finals : Apply(final)
        \/ StepCalled

\* The program may stop, or be stopped, in any state.
Next == Call \/ Step

Spec == Init /\ [][Next]_vars

-----------------------------------------------------------------------------
(* Properties *)

InBatch(op) == \E i \in DOMAIN ops : ops[i].op = op

\* Two edits touch the same text: a common byte, or a point inside the other.
Overlap(x, y) == \/ \E b \in x.s..x.e - 1 : b \in y.s..y.e - 1
                 \/ x.s = x.e /\ y.s < x.s /\ x.s < y.e
                 \/ y.s = y.e /\ x.s < y.s /\ y.s < x.e

\* The overlapping pairs of the queue q are among the errors.
Named(q, errs) ==
  \A i, k \in DOMAIN q :
    i # k /\ ~NotConflicting(q[i].op) /\ ~NotConflicting(q[k].op) /\ Overlap(q[i], q[k])
      => \E err \in errs : err.e = "CONFLICT" /\ {err.edit, err.other} = {q[i], q[k]}

\* The report names exactly the overlapping pairs: the sort by start and the
\* early break lose none and invent none.
ConflictsExact ==
  pc \in {"applying", "saving", "applied"} /\ "step" \notin trouble =>
    /\ Named(ops, errors)
    /\ \A err \in errors : err.e = "CONFLICT" => Overlap(err.edit, err.other)

(* What a set of edits should make of a text, all at once: at each offset    *)
(* the text the edits put there, then the character unless it was removed.   *)
Edits == {ops[i] : i \in {k \in DOMAIN ops : ops[k].op \in TextOps}}

PutThere(edits, o) == {x \in edits : x.s = o}
Removed(edits, o) == \E x \in edits : x.op # "INSERT" /\ o \in x.s..x.e - 1

Piece(text, edits, n) ==
  (IF PutThere(edits, n - 1) = {} THEN <<>>
   ELSE (CHOOSE x \in PutThere(edits, n - 1) : TRUE).change)
    \o (IF n > Len(text) \/ Removed(edits, n - 1) THEN <<>> ELSE <<text[n]>>)

AllAtOnce(text, edits) == FlattenSeq([n \in 1..Len(text) + 1 |-> Piece(text, edits, n)])

\* The batch consists of splices at different places that do not overlap.
Apart == /\ \A x \in Edits : x.op \in Splices /\ (x.op = "DELETE" => x.change = <<>>)
                             /\ (x.op = "INSERT" => x.s = x.e)
         /\ \A i, k \in DOMAIN ops : i # k /\ {ops[i], ops[k]} \subseteq Edits
              => ops[i].s # ops[k].s /\ ~Overlap(ops[i], ops[k])

OneKind == \A x, y \in Edits : x.op = y.op

Complete == pc = "applied" /\ trouble = {}

\* Edits of one kind that do not overlap do what each of them was queued to do,
\* on the text they were queued for: none moves the text under another.
SameKindLands ==
  Complete /\ Apart /\ OneKind => cont = AllAtOnce(base, Edits)

\* "sorts the operation to have proper edits from bottom to top": edits that do
\* not overlap do what each was queued to do, whatever their kinds.
EditsLand == Complete /\ Apart => cont = AllAtOnce(base, Edits)

\* A batch that changes the text and saves leaves the new text on disk, though
\* a backup in the same batch claims that the text is saved, and with the marks
\* of errors, though the text without them was saved already.
SaveTakesEffect ==
  pc = "applied" /\ trouble \subseteq {"marks"} /\ InBatch("SAVE") /\ cont # base
    => disk = cont /\ ~dirty

\* The queue is applied for the first time since it was reset.
FirstPass == /\ pc \in {"applying", "saving"} /\ left = Len(ops) - currStep
             /\ "step" \notin trouble

\* When a save has torn the file, so that a crash or a failing write would lose
\* the text, a batch with a BACKUP has left the text it began with in a backup.
BackupRecovers ==
  pc = "saving" /\ FirstPass /\ InBatch("BACKUP") /\ "backup" \notin trouble
    => base \in backups

\* SAVE_VALID_ONLY in a batch that validates never writes an erroneous text,
\* in whatever order the two were queued (while the tree is exact).
ValidOnlyWritesValid ==
  [][FirstPass /\ pc = "applying" /\ pc' = "saving" /\ Edit.op = "SAVE_VALID_ONLY"
       /\ InBatch("VALIDATE_CST") /\ exact => Valid(cont)]_vars

-----------------------------------------------------------------------------
(* Why they hold: an inductive invariant *)

IsEdit(x) == x.op \in Range(OpOrder) /\ x.s \in Nat /\ x.e \in Nat /\ x.s <= x.e

IsQueue(q) == q \in Seq(Range(q)) /\ Len(q) <= MaxSteps /\ \A i \in DOMAIN q : IsEdit(q[i])

\* The edit of a conflict is the one that begins first.
IsError(err) ==
  \/ err.e = "CST_ERROR"
  \/ /\ err.e = "CONFLICT"
     /\ IsEdit(err.edit) /\ IsEdit(err.other)
     /\ err.other.s < err.edit.e /\ Overlap(err.edit, err.other)

AreErrors(errs) == IsFiniteSet(errs) /\ \A err \in errs : IsError(err)

Marking == kept.during = "marks"

QueueInv ==
  /\ IsQueue(ops) /\ AreErrors(errors)
  /\ Marking => /\ IsQueue(kept.ops) /\ AreErrors(kept.errors)
                /\ kept.currStep \in 1..MaxSteps /\ kept.nextId \in Nat

\* Where applySaveAndMarkErrors is: the queue of marks has no other kinds.
MarksInv ==
  /\ MayCall => kept = Outside
  /\ kept \in {Outside, First} \/ Marking
  /\ kept = First => left > 0 \/ currStep > 0
  /\ Marking => /\ \A i \in DOMAIN ops : ops[i].op \in {"MARK", "SAVE"}
                /\ InBatch("SAVE")

\* The queue is sorted, and a pass that does not begin with the first edit
\* never ends.
Passing == pc \in {"applying", "saving"} /\ "step" \notin trouble
PassInv ==
  Passing => /\ \A i, k \in DOMAIN ops : i < k => ~Earlier(ops[k], ops[i])
             /\ left + currStep >= Len(ops)
             /\ left = 0 => FirstPass

ConflictInv ==
  "step" \notin trouble =>
    /\ pc \in {"applying", "saving", "applied"} => Named(ops, errors)
    /\ Marking => Named(kept.ops, kept.errors)

Done(op) == \E i \in 1..currStep : i <= Len(ops) /\ ops[i].op = op

\* Backups come first, while the text is still what the batch began with.
BackupInv ==
  /\ currStep = 0 /\ ~Marking => cont = base
  /\ pc = "saving" => currStep > 0
  /\ FirstPass /\ ~Marking =>
       /\ (\A i \in 1..currStep : ops[i].op = "BACKUP") => cont = base
       /\ InBatch("BACKUP") /\ "backup" \notin trouble /\ currStep > 0 => base \in backups

\* Saves come last: what has changed is unsaved until then, and saved from then.
SaveInv ==
  /\ FirstPass /\ trouble \subseteq {"marks"} =>
       /\ cont # base /\ ~dirty => disk = cont
       /\ pc = "applying" /\ Done("SAVE") => ~dirty
       /\ pc = "saving" => dirty
  /\ SaveTakesEffect

\* Nothing changes the text once it was found valid.
ValidInv ==
  FirstPass /\ Done("VALIDATE_CST") /\ exact /\ errors = {} => Valid(cont)

IInv == /\ TypeOK /\ QueueInv /\ MarksInv /\ PassInv
        /\ ConflictInv /\ BackupInv /\ SaveInv /\ ValidInv

(* What edits make of the text, on top of that                               *)

Chars == Range(Text) \cup {Newline, Tag}
           \cup UNION {Range(c.change) \cup Range(c.context) : c \in Candidates}

HasText(x) ==
  /\ x.change \in Seq(Chars) /\ x.context \in Seq(Chars)
  /\ "rows" \in DOMAIN x => x.rows[1] \in Nat /\ x.rows[2] \in Nat

TextInv ==
  /\ cont \in Seq(Chars) /\ base \in Seq(Chars)
  /\ \A i \in DOMAIN ops : HasText(ops[i])
  /\ Marking => "marks" \in trouble /\ \A i \in DOMAIN kept.ops : HasText(kept.ops[i])

\* The ranges lie in the text that they refer to.
PlacesInv ==
  (currStep = 0 \/ FirstPass) /\ ~Marking => \A i \in DOMAIN ops : ops[i].e <= Len(base)

\* A pass over edits of one kind has done what those behind it ask for.
DoneEdits == {ops[i] : i \in {k \in 1..currStep : ops[k].op \in TextOps}}

LandInv ==
  FirstPass /\ ~Marking /\ trouble = {} /\ Apart /\ OneKind => cont = AllAtOnce(base, DoneEdits)

LandsInv == TextInv /\ PlacesInv /\ LandInv /\ SameKindLands
=============================================================================
