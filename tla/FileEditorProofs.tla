--------------------------- MODULE FileEditorProofs ---------------------------
(* Proofs about FileEditor: what the sort by kind and range guarantees of    *)
(* backups, saves and checks, and that the conflicts are reported exactly,   *)
(* for every file, every set of edits and every number of them.              *)
EXTENDS FileEditor, FiniteSetTheorems, SequenceTheorems, WellFoundedInduction, TLAPS

-----------------------------------------------------------------------------
(* The kinds of edits *)

LEMMA Kinds ==
  Range(OpOrder) = {"WRITE_TO", "SAVE", "SAVE_VALID_ONLY", "PRINT_PATH", "PRINT_ERRORS",
                    "VALIDATE_CST", "PRINT_CHANGE_AFTER", "MARK", "WRITE", "INSERT",
                    "INSERT_ROW_BEFORE", "INSERT_ROW_AFTER", "REPLACE", "DELETE",
                    "PRINT_CHANGE_BEFORE", "BACKUP"}
<1>1. DOMAIN OpOrder = 1..16
  BY DEF OpOrder
<1> QED
  BY <1>1 DEF Range, OpOrder

\* Backups have the highest rank; whatever changes the text has a higher rank
\* than the check of the tree, and that than any save.
LEMMA RankOrder ==
  /\ \A op \in Range(OpOrder) : Rank(op) \in 1..16
  /\ \A op \in Range(OpOrder) \ {"BACKUP"} : Rank(op) < Rank("BACKUP")
  /\ \A op \in TextOps : op \in Range(OpOrder) /\ Rank(op) > Rank("VALIDATE_CST")
  /\ Rank("VALIDATE_CST") > Rank("SAVE_VALID_ONLY")
  /\ Rank("VALIDATE_CST") < Rank("BACKUP")
  /\ \A op \in Range(OpOrder) : Rank(op) <= Rank("SAVE") => op \in {"SAVE", "WRITE_TO"}
<1>1. \A i \in 1..16 : Rank(OpOrder[i]) = i
  BY DEF Rank, OpOrder
<1>2. /\ Rank("WRITE_TO") = 1 /\ Rank("SAVE") = 2 /\ Rank("SAVE_VALID_ONLY") = 3
      /\ Rank("PRINT_PATH") = 4 /\ Rank("PRINT_ERRORS") = 5 /\ Rank("VALIDATE_CST") = 6
      /\ Rank("PRINT_CHANGE_AFTER") = 7 /\ Rank("MARK") = 8 /\ Rank("WRITE") = 9
      /\ Rank("INSERT") = 10 /\ Rank("INSERT_ROW_BEFORE") = 11 /\ Rank("INSERT_ROW_AFTER") = 12
      /\ Rank("REPLACE") = 13 /\ Rank("DELETE") = 14 /\ Rank("PRINT_CHANGE_BEFORE") = 15
      /\ Rank("BACKUP") = 16
  BY <1>1 DEF OpOrder
<1> QED
  BY <1>2, Kinds DEF TextOps, Splices, RowOps

-----------------------------------------------------------------------------
(* Queues *)

\* A function on 1..n is a sequence of length n.
LEMMA IsSequence ==
  ASSUME NEW S, NEW n \in Nat, NEW f \in [1..n -> S]
  PROVE  f \in Seq(S) /\ Len(f) = n
<1>1. f \in Seq(S)
  BY IsASeq, SeqDef
<1> QED
  BY <1>1, LenProperties

\* A sequence is one of its own elements.
LEMMA OfItsRange ==
  ASSUME NEW S, NEW q \in Seq(S)
  PROVE  q \in Seq(Range(q)) /\ DOMAIN q = 1..Len(q) /\ Len(q) \in Nat
<1>1. Len(q) \in Nat /\ q \in [1..Len(q) -> S]
  BY LenProperties
<1>2. q \in [1..Len(q) -> Range(q)]
  BY <1>1 DEF Range
<1> QED
  BY <1>1, <1>2, IsSequence

LEMMA QueueType ==
  ASSUME NEW q, IsQueue(q)
  PROVE  /\ Len(q) \in Nat /\ DOMAIN q = 1..Len(q)
         /\ \A i \in 1..Len(q) : IsEdit(q[i])
BY OfItsRange DEF IsQueue

\* An edit of a kind and a range, given an id, remains what it is.
LEMMA WithIdEdit ==
  ASSUME NEW edit, NEW id, {"op", "s", "e"} \subseteq DOMAIN edit
  PROVE  /\ WithId(edit, id).op = edit.op
         /\ WithId(edit, id).s = edit.s
         /\ WithId(edit, id).e = edit.e
BY DEF WithId

LEMMA PlainEdit ==
  ASSUME NEW op \in Range(OpOrder), NEW id
  PROVE  IsEdit(WithId(Plain(op), id)) /\ WithId(Plain(op), id).op = op
<1>1. DOMAIN Plain(op) = {"op", "s", "e", "change", "context"}
  BY DEF Plain
<1>2. Plain(op).op = op /\ Plain(op).s = 0 /\ Plain(op).e = 0
  BY DEF Plain
<1> QED
  BY <1>1, <1>2, WithIdEdit DEF IsEdit

LEMMA CandidateEdit ==
  ASSUME NEW c \in Candidates, NEW id
  PROVE  IsEdit(WithId(c, id))
BY EditsAssumption, WithIdEdit DEF IsEdit

\* What a renumbering of a queue has: the same edits, each once.
LEMMA Renumbered ==
  ASSUME NEW seq, IsQueue(seq),
         NEW p \in Injection(DOMAIN seq, DOMAIN seq), NEW q,
         q = [i \in DOMAIN seq |-> seq[p[i]]]
  PROVE  /\ IsQueue(q) /\ Len(q) = Len(seq)
         /\ \A i \in 1..Len(seq) : p[i] \in 1..Len(seq) /\ q[i] = seq[p[i]]
         /\ \A i, k \in 1..Len(seq) : i # k => p[i] # p[k]
         /\ \A i \in 1..Len(seq) : \E k \in 1..Len(seq) : p[k] = i
<1>1. DOMAIN seq = 1..Len(seq) /\ Len(seq) \in Nat /\ \A i \in 1..Len(seq) : IsEdit(seq[i])
  BY QueueType
<1>2. p \in [1..Len(seq) -> 1..Len(seq)]
  BY <1>1 DEF Injection
<1>3. \A i, k \in 1..Len(seq) : i # k => p[i] # p[k]
  BY <1>1, <1>2 DEF Injection, IsInjective
<1>4. \A i \in 1..Len(seq) : \E k \in 1..Len(seq) : p[k] = i
  <2>1. IsFiniteSet(1..Len(seq))
    BY <1>1, FS_Interval
  <2>2. p \in Surjection(1..Len(seq), 1..Len(seq))
    BY <1>1, <2>1, FS_Injection
  <2> QED
    BY <2>2 DEF Surjection
<1>5. IsQueue(q) /\ Len(q) = Len(seq)
  <2>1. q \in [1..Len(seq) -> Range(seq)]
    BY <1>1, <1>2 DEF Range
  <2>2. q \in Seq(Range(seq)) /\ Len(q) = Len(seq)
    BY <1>1, <2>1, IsSequence
  <2>3. q \in Seq(Range(q)) /\ DOMAIN q = 1..Len(seq)
    BY <2>2, OfItsRange
  <2>4. \A i \in DOMAIN q : IsEdit(q[i])
    BY <1>1, <1>2, <2>3
  <2> QED
    BY <2>2, <2>3, <2>4 DEF IsQueue
<1> QED
  BY <1>1, <1>2, <1>3, <1>4, <1>5

\* sortOperations: what it leaves is sorted, and holds what was queued.
LEMMA SortedQueue ==
  ASSUME NEW seq, IsQueue(seq), NEW q \in SortedBy(seq, Earlier)
  PROVE  /\ IsQueue(q) /\ Len(q) = Len(seq) /\ DOMAIN q = 1..Len(seq)
         /\ \A i, k \in DOMAIN q : i < k => ~Earlier(q[k], q[i])
         /\ \A i \in 1..Len(seq) : \E k \in 1..Len(seq) : q[k] = seq[i]
         /\ \A i \in 1..Len(seq) : \E k \in 1..Len(seq) : q[i] = seq[k]
         /\ \A errs : Named(seq, errs) => Named(q, errs)
<1>1. PICK p \in Injection(DOMAIN seq, DOMAIN seq) : q = [i \in DOMAIN seq |-> seq[p[i]]]
  BY DEF SortedBy
<1>2. \A i, k \in DOMAIN q : i < k => ~Earlier(q[k], q[i])
  BY DEF SortedBy
<1>3. /\ IsQueue(q) /\ Len(q) = Len(seq)
      /\ \A i \in 1..Len(seq) : p[i] \in 1..Len(seq) /\ q[i] = seq[p[i]]
      /\ \A i, k \in 1..Len(seq) : i # k => p[i] # p[k]
      /\ \A i \in 1..Len(seq) : \E k \in 1..Len(seq) : p[k] = i
  BY <1>1, Renumbered
<1>4. DOMAIN q = 1..Len(seq) /\ DOMAIN seq = 1..Len(seq)
  BY <1>3, QueueType
<1>5. ASSUME NEW errs, Named(seq, errs)
      PROVE  Named(q, errs)
  <2> SUFFICES ASSUME NEW i \in 1..Len(seq), NEW k \in 1..Len(seq), i # k,
                      ~NotConflicting(q[i].op), ~NotConflicting(q[k].op), Overlap(q[i], q[k])
               PROVE  \E err \in errs : err.e = "CONFLICT" /\ {err.edit, err.other} = {q[i], q[k]}
    BY <1>4 DEF Named
  <2>1. /\ p[i] \in DOMAIN seq /\ p[k] \in DOMAIN seq /\ p[i] # p[k]
        /\ q[i] = seq[p[i]] /\ q[k] = seq[p[k]]
    BY <1>3, <1>4
  <2> QED
    BY <1>5, <2>1 DEF Named
<1>6. ASSUME NEW i \in 1..Len(seq)
      PROVE  \E k \in 1..Len(seq) : q[k] = seq[i]
  <2>1. PICK k \in 1..Len(seq) : p[k] = i
    BY <1>3
  <2> QED
    BY <1>3, <2>1
<1>7. ASSUME NEW i \in 1..Len(seq)
      PROVE  \E k \in 1..Len(seq) : q[i] = seq[k]
  BY <1>3
<1> QED
  BY <1>2, <1>3, <1>4, <1>5, <1>6, <1>7

-----------------------------------------------------------------------------
(* Conflicts *)

\* Of two edits in the order of their ranges, the first ends after the second
\* begins exactly when they overlap.
LEMMA OverlapInOrder ==
  ASSUME NEW x, NEW y, IsEdit(x), IsEdit(y), ~ByRange(y, x)
  PROVE  /\ y.s < x.e <=> Overlap(x, y)
         /\ Overlap(x, y) <=> Overlap(y, x)
<1>1. /\ x.s \in Nat /\ x.e \in Nat /\ x.s <= x.e /\ y.s \in Nat /\ y.e \in Nat /\ y.s <= y.e
      /\ x.s <= y.s /\ (x.s = y.s => x.e <= y.e)
  BY DEF IsEdit, ByRange
<1>2. Overlap(x, y) => y.s < x.e
  BY <1>1 DEF Overlap
<1>3. ASSUME y.s < x.e
      PROVE  Overlap(x, y)
  <2>1. CASE y.s < y.e
    <3>1. y.s \in x.s..x.e - 1 /\ y.s \in y.s..y.e - 1
      BY <1>1, <1>3, <2>1
    <3> QED
      BY <3>1 DEF Overlap
  <2>2. CASE ~(y.s < y.e)
    BY <1>1, <1>3, <2>2 DEF Overlap
  <2> QED
    BY <2>1, <2>2
<1> QED
  BY <1>2, <1>3 DEF Overlap

\* getConflictErrors: the two loops with the early break report the overlapping
\* pairs of the queue, and no others.
LEMMA ConflictsFound ==
  ASSUME NEW seq, IsQueue(seq), NEW found \in ConflictErrors(seq)
  PROVE  AreErrors(found) /\ Named(seq, found)
<1>1. PICK q \in SortedBy(seq, ByRange) :
        found = {[e |-> "CONFLICT", edit |-> q[p[1]], other |-> q[p[2]]] : p \in Conflicts(q)}
  BY DEF ConflictErrors
<1>2. PICK p \in Injection(DOMAIN seq, DOMAIN seq) : q = [i \in DOMAIN seq |-> seq[p[i]]]
  BY DEF SortedBy
<1>3. /\ IsQueue(q) /\ Len(q) = Len(seq)
      /\ \A i \in 1..Len(seq) : p[i] \in 1..Len(seq) /\ q[i] = seq[p[i]]
      /\ \A i \in 1..Len(seq) : \E k \in 1..Len(seq) : p[k] = i
  BY <1>2, Renumbered
<1>4. /\ DOMAIN q = 1..Len(seq) /\ DOMAIN seq = 1..Len(seq) /\ Len(seq) \in Nat
      /\ \A i \in 1..Len(seq) : IsEdit(q[i])
  BY <1>3, QueueType
<1>5. \A i, k \in 1..Len(seq) : i < k => ~ByRange(q[k], q[i])
  BY <1>4 DEF SortedBy
<1>6. ASSUME NEW i \in 1..Len(seq), NEW k \in 1..Len(seq), i < k
      PROVE  (\A m \in i + 1..k : q[m].s < q[i].e) <=> Overlap(q[i], q[k])
  <2>1. q[k].s < q[i].e <=> Overlap(q[i], q[k])
    BY <1>4, <1>5, <1>6, OverlapInOrder
  <2>2. (\A m \in i + 1..k : q[m].s < q[i].e) => q[k].s < q[i].e
    BY <1>4, <1>6
  <2>3. ASSUME q[k].s < q[i].e, NEW m \in i + 1..k
        PROVE  q[m].s < q[i].e
    <3>1. m \in 1..Len(seq) /\ (m = k \/ m < k)
      BY <1>4
    <3>2. q[m].s <= q[k].s
      <4>1. q[m].s \in Nat /\ q[k].s \in Nat
        BY <1>4, <3>1 DEF IsEdit
      <4>2. m < k => ~(q[k].s < q[m].s)
        BY <1>5, <3>1 DEF ByRange
      <4> QED
        BY <3>1, <4>1, <4>2
    <3>3. q[m].s \in Nat /\ q[k].s \in Nat /\ q[i].e \in Nat
      BY <1>4, <3>1 DEF IsEdit
    <3> QED
      BY <2>3, <3>2, <3>3
  <2> QED
    BY <2>1, <2>2, <2>3
<1>7. AreErrors(found)
  <2>1. IsFiniteSet((DOMAIN q) \X (DOMAIN q))
    <3>1. IsFiniteSet(DOMAIN q)
      BY <1>4, FS_Interval
    <3> QED
      BY <3>1, FS_Product
  <2>2. IsFiniteSet(Conflicts(q))
    BY <2>1, FS_Subset DEF Conflicts
  <2>3. IsFiniteSet(found)
    <3> DEFINE error == [pr \in Conflicts(q) |-> [e |-> "CONFLICT", edit |-> q[pr[1]], other |-> q[pr[2]]]]
    <3>1. error \in Surjection(Conflicts(q), found)
      BY <1>1 DEF Surjection
    <3> QED
      BY <2>2, <3>1, FS_Surjection
  <2>4. ASSUME NEW err \in found
        PROVE  IsError(err)
    <3>1. PICK pr \in Conflicts(q) : err = [e |-> "CONFLICT", edit |-> q[pr[1]], other |-> q[pr[2]]]
      BY <1>1
    <3> DEFINE i == pr[1]
               k == pr[2]
    <3>2. i \in 1..Len(seq) /\ k \in 1..Len(seq) /\ Reported(q, i, k)
      BY <1>4 DEF Conflicts
    <3> HIDE DEF i, k
    <3>3. i < k /\ Overlap(q[i], q[k])
      BY <1>6, <3>2 DEF Reported
    <3>4. q[k].s < q[i].e
      BY <1>4, <1>5, <3>2, <3>3, OverlapInOrder
    <3>5. err.e = "CONFLICT" /\ err.edit = q[i] /\ err.other = q[k]
      BY <3>1 DEF i, k
    <3> QED
      BY <1>4, <3>2, <3>3, <3>4, <3>5 DEF IsError
  <2> QED
    BY <2>3, <2>4 DEF AreErrors
<1>8. \A i, k \in 1..Len(seq) :
        i < k /\ ~NotConflicting(q[i].op) /\ ~NotConflicting(q[k].op) /\ Overlap(q[i], q[k])
          => \E err \in found : err.e = "CONFLICT" /\ err.edit = q[i] /\ err.other = q[k]
  <2> SUFFICES ASSUME NEW i \in 1..Len(seq), NEW k \in 1..Len(seq), i < k,
                      ~NotConflicting(q[i].op), ~NotConflicting(q[k].op), Overlap(q[i], q[k])
               PROVE  \E err \in found : err.e = "CONFLICT" /\ err.edit = q[i] /\ err.other = q[k]
    OBVIOUS
  <2>1. Reported(q, i, k)
    BY <1>6 DEF Reported
  <2>2. <<i, k>> \in Conflicts(q)
    BY <1>4, <2>1 DEF Conflicts
  <2> DEFINE err == [e |-> "CONFLICT", edit |-> q[i], other |-> q[k]]
  <2>3. err \in found
    BY <1>1, <2>2
  <2> QED
    BY <2>3
<1>9. Named(seq, found)
  <2> SUFFICES ASSUME NEW i \in DOMAIN seq, NEW k \in DOMAIN seq, i # k,
                      ~NotConflicting(seq[i].op), ~NotConflicting(seq[k].op),
                      Overlap(seq[i], seq[k])
               PROVE  \E err \in found :
                        err.e = "CONFLICT" /\ {err.edit, err.other} = {seq[i], seq[k]}
    BY DEF Named
  <2>1. PICK a \in 1..Len(seq) : p[a] = i
    BY <1>3, <1>4
  <2>2. PICK b \in 1..Len(seq) : p[b] = k
    BY <1>3, <1>4
  <2>3. q[a] = seq[i] /\ q[b] = seq[k] /\ a # b
    BY <1>3, <2>1, <2>2
  <2>4. CASE a < b
    BY <1>8, <2>3, <2>4
  <2>5. CASE b < a
    <3>1. Overlap(q[b], q[a])
      BY <2>3 DEF Overlap
    <3> QED
      BY <1>8, <2>3, <2>5, <3>1
  <2> QED
    <3>1. a < b \/ b < a
      BY <1>4, <2>3
    <3> QED
      BY <2>4, <2>5, <3>1
<1> QED
  BY <1>7, <1>9

\* Errors that are added lose no report.
LEMMA NamedGrows ==
  ASSUME NEW q, NEW errs, NEW more, Named(q, errs) \/ Named(q, more)
  PROVE  Named(q, errs \cup more)
BY DEF Named

LEMMA ErrorsGrow ==
  ASSUME NEW errs, NEW more, AreErrors(errs), AreErrors(more)
  PROVE  AreErrors(errs \cup more)
BY FS_Union DEF AreErrors

-----------------------------------------------------------------------------
(* What calls do to the queue *)

\* A sequence of edits within the bound is a queue.
LEMMA QueueOf ==
  ASSUME NEW S, NEW q \in Seq(S), Len(q) <= MaxSteps, \A i \in 1..Len(q) : IsEdit(q[i])
  PROVE  IsQueue(q)
BY OfItsRange DEF IsQueue

LEMMA AppendQueue ==
  ASSUME NEW q, IsQueue(q), NEW edit, IsEdit(edit), Len(q) < MaxSteps
  PROVE  IsQueue(Append(q, edit))
<1> DEFINE S == Range(q) \cup {edit}
<1>1. Len(q) \in Nat /\ DOMAIN q = 1..Len(q) /\ \A i \in 1..Len(q) : IsEdit(q[i])
  BY QueueType
<1>2. q \in Seq(S) /\ edit \in S
  BY SeqMonotonic DEF IsQueue
<1>3. /\ Append(q, edit) \in Seq(S) /\ Len(Append(q, edit)) = Len(q) + 1
      /\ \A i \in 1..Len(q) : Append(q, edit)[i] = q[i]
      /\ Append(q, edit)[Len(q) + 1] = edit
  <2> HIDE DEF S
  <2> QED
    BY <1>2, AppendProperties
<1> HIDE DEF S
<1>4. \A i \in 1..Len(q) + 1 : IsEdit(Append(q, edit)[i])
  BY <1>1, <1>3
<1>5. Len(q) + 1 <= MaxSteps
  BY <1>1, BoundsAssumption
<1> QED
  BY <1>3, <1>4, <1>5, QueueOf

LEMMA ConcatQueue ==
  ASSUME NEW q, IsQueue(q), NEW n \in Nat, NEW more,
         DOMAIN more = 1..n, \A i \in 1..n : IsEdit(more[i]),
         more = [i \in 1..n |-> more[i]], Len(q \o more) <= MaxSteps
  PROVE  /\ IsQueue(q \o more) /\ Len(q \o more) = Len(q) + n
<1> DEFINE S == Range(q) \cup {more[i] : i \in 1..n}
<1>1. Len(q) \in Nat /\ DOMAIN q = 1..Len(q) /\ \A i \in 1..Len(q) : IsEdit(q[i])
  BY QueueType
<1>2. q \in Seq(S)
  BY SeqMonotonic DEF IsQueue
<1>3. more \in Seq(S) /\ Len(more) = n
  <2>1. more \in [1..n -> S]
    OBVIOUS
  <2> HIDE DEF S
  <2> QED
    BY <2>1, IsSequence
<1> HIDE DEF S
<1>4. /\ q \o more \in Seq(S) /\ Len(q \o more) = Len(q) + n
      /\ \A i \in 1..Len(q) + n :
           (q \o more)[i] = IF i <= Len(q) THEN q[i] ELSE more[i - Len(q)]
  BY <1>2, <1>3, ConcatProperties
<1>5. ASSUME NEW i \in 1..Len(q) + n
      PROVE  IsEdit((q \o more)[i])
  <2>1. CASE i <= Len(q)
    BY <1>1, <1>4, <2>1
  <2>2. CASE ~(i <= Len(q))
    <3>1. i - Len(q) \in 1..n
      BY <1>1, <2>2
    <3> QED
      BY <1>4, <2>2, <3>1
  <2> QED
    BY <2>1, <2>2
<1> QED
  BY <1>4, <1>5, QueueOf

LEMMA RemoveQueue ==
  ASSUME NEW q, IsQueue(q), NEW n \in DOMAIN q
  PROVE  IsQueue(RemoveAt(q, n)) /\ RemoveAt(q, n) \in Seq(Range(q))
<1> DEFINE a == SubSeq(q, 1, n - 1)
           b == SubSeq(q, n + 1, Len(q))
<1>1. /\ Len(q) \in Nat /\ DOMAIN q = 1..Len(q) /\ n \in 1..Len(q)
      /\ \A i \in 1..Len(q) : IsEdit(q[i]) /\ q[i] \in Range(q)
  <2>1. Len(q) \in Nat /\ DOMAIN q = 1..Len(q) /\ \A i \in 1..Len(q) : IsEdit(q[i])
    BY QueueType
  <2> QED
    BY <2>1 DEF Range
<1>2. /\ a \in Seq(Range(q)) /\ Len(a) = n - 1
      /\ \A i \in 1..n - 1 : a[i] = q[i]
  <2>1. \A i \in 1..n - 1 : q[i] \in Range(q)
    BY <1>1
  <2>2. /\ a \in Seq(Range(q)) /\ Len(a) = (IF 1 <= n - 1 THEN n - 1 - 1 + 1 ELSE 0)
        /\ \A i \in 1..n - 1 - 1 + 1 : a[i] = q[1 + i - 1]
    BY <1>1, <2>1, SubSeqProperties
  <2> HIDE DEF a
  <2> QED
    BY <1>1, <2>2
<1>3. /\ b \in Seq(Range(q)) /\ Len(b) = Len(q) - n
      /\ \A i \in 1..Len(q) - n : b[i] = q[n + i]
  <2>1. \A i \in n + 1..Len(q) : q[i] \in Range(q)
    BY <1>1
  <2>2. /\ b \in Seq(Range(q))
        /\ Len(b) = (IF n + 1 <= Len(q) THEN Len(q) - (n + 1) + 1 ELSE 0)
        /\ \A i \in 1..Len(q) - (n + 1) + 1 : b[i] = q[n + 1 + i - 1]
    BY <1>1, <2>1, SubSeqProperties
  <2> HIDE DEF b
  <2>3. Len(b) = Len(q) - n
    BY <1>1, <2>2
  <2>4. ASSUME NEW i \in 1..Len(q) - n
        PROVE  b[i] = q[n + i]
    <3>1. i \in 1..Len(q) - (n + 1) + 1 /\ n + 1 + i - 1 = n + i
      BY <1>1
    <3> QED
      BY <2>2, <3>1
  <2> QED
    BY <2>2, <2>3, <2>4
<1>4. RemoveAt(q, n) = a \o b
  BY DEF RemoveAt
<1> HIDE DEF a, b
<1>5. /\ a \o b \in Seq(Range(q)) /\ Len(a \o b) = Len(q) - 1
      /\ \A i \in 1..Len(q) - 1 : (a \o b)[i] = IF i <= n - 1 THEN a[i] ELSE b[i - (n - 1)]
  <2>1. Len(a) + Len(b) = Len(q) - 1
    BY <1>1, <1>2, <1>3
  <2>2. /\ a \o b \in Seq(Range(q)) /\ Len(a \o b) = Len(a) + Len(b)
        /\ \A i \in 1..Len(a) + Len(b) : (a \o b)[i] = IF i <= Len(a) THEN a[i] ELSE b[i - Len(a)]
    BY <1>2, <1>3, ConcatProperties
  <2> QED
    BY <1>2, <2>1, <2>2
<1>6. ASSUME NEW i \in 1..Len(q) - 1
      PROVE  IsEdit((a \o b)[i])
  <2>1. CASE i <= n - 1
    BY <1>1, <1>2, <1>5, <2>1
  <2>2. CASE ~(i <= n - 1)
    <3>1. i - (n - 1) \in 1..Len(q) - n /\ n + (i - (n - 1)) \in 1..Len(q)
      BY <1>1, <2>2
    <3> QED
      BY <1>1, <1>3, <1>5, <2>2, <3>1
  <2> QED
    BY <2>1, <2>2
<1>7. Len(a \o b) <= MaxSteps
  <2>1. Len(q) <= MaxSteps
    BY DEF IsQueue
  <2> QED
    BY <1>1, <1>5, <2>1, BoundsAssumption
<1> QED
  BY <1>4, <1>5, <1>6, <1>7, QueueOf

IsPlain(x) == \E op, id : x = WithId(Plain(op), id)

\* The kinds that a call adds are edits.
LEMMA AddedEdits ==
  ASSUME NEW final \in Finals, NEW id, NEW more,
         more = [i \in DOMAIN Added(final) |-> WithId(Added(final)[i], id[i])]
  PROVE  \E n \in 0..2 : /\ DOMAIN more = 1..n /\ Len(Added(final)) = n
                         /\ more = [i \in 1..n |-> more[i]]
                         /\ \A i \in 1..n : IsEdit(more[i]) /\ IsPlain(more[i])
<1>1. {"SAVE", "SAVE_VALID_ONLY", "VALIDATE_CST"} \subseteq Range(OpOrder)
  BY Kinds
<1>2. final \in {"none", "SAVE", "SAVE_VALID_ONLY", "MARK"}
  BY EditsAssumption
<1>3. CASE final = "none"
  <2>1. Added(final) = <<>>
    BY <1>3 DEF Added
  <2>2. Len(Added(final)) = 0 /\ DOMAIN Added(final) = 1..0
    BY <2>1
  <2>3. DOMAIN more = 1..0
    BY <2>2
  <2> QED
    BY <2>2, <2>3
<1>4. CASE final = "MARK"
  <2>1. Added(final) = <<Plain("SAVE"), Plain("VALIDATE_CST")>>
    BY <1>4 DEF Added
  <2>2. /\ Len(Added(final)) = 2 /\ DOMAIN Added(final) = 1..2
        /\ Added(final)[1] = Plain("SAVE") /\ Added(final)[2] = Plain("VALIDATE_CST")
    BY <2>1
  <2>3. DOMAIN more = 1..2
    BY <2>2
  <2>4. IsEdit(more[1]) /\ IsPlain(more[1]) /\ IsEdit(more[2]) /\ IsPlain(more[2])
    BY <1>1, <2>2, PlainEdit DEF IsPlain
  <2>5. more = [i \in 1..2 |-> more[i]] /\ \A i \in 1..2 : IsEdit(more[i]) /\ IsPlain(more[i])
    BY <2>2, <2>4
  <2> QED
    BY <2>2, <2>3, <2>5
<1>5. CASE final \in {"SAVE", "SAVE_VALID_ONLY"}
  <2>1. Added(final) = <<Plain(final)>>
    BY <1>5 DEF Added
  <2>2. Len(Added(final)) = 1 /\ DOMAIN Added(final) = 1..1 /\ Added(final)[1] = Plain(final)
    BY <2>1
  <2>3. DOMAIN more = 1..1
    BY <2>2
  <2>4. IsEdit(more[1]) /\ IsPlain(more[1])
    BY <1>1, <1>5, <2>2, PlainEdit DEF IsPlain
  <2>5. more = [i \in 1..1 |-> more[i]] /\ \A i \in 1..1 : IsEdit(more[i]) /\ IsPlain(more[i])
    BY <2>2, <2>4
  <2> QED
    BY <2>2, <2>3, <2>5
<1> QED
  BY <1>2, <1>3, <1>4, <1>5

\* Start leaves the sorted queue, and a loop over all of it.
LEMMA Started ==
  ASSUME NEW queued, IsQueue(queued), Start(queued)
  PROVE  /\ IsQueue(ops') /\ Len(ops') = Len(queued)
         /\ left' = Len(ops') /\ pc' = "applying"
         /\ \A i, k \in DOMAIN ops' : i < k => ~Earlier(ops'[k], ops'[i])
         /\ \A i \in 1..Len(queued) : \E k \in 1..Len(queued) : ops'[k] = queued[i]
         /\ \A i \in 1..Len(queued) : \E k \in 1..Len(queued) : ops'[i] = queued[k]
         /\ \A errs : Named(queued, errs) => Named(ops', errs)
<1>1. PICK q \in SortedBy(queued, Earlier) : ops' = q
  BY DEF Start
<1>2. left' = Len(queued) /\ pc' = "applying"
  BY DEF Start, Iterations
<1>3. /\ IsQueue(q) /\ Len(q) = Len(queued)
      /\ \A i, k \in DOMAIN q : i < k => ~Earlier(q[k], q[i])
      /\ \A i \in 1..Len(queued) : \E k \in 1..Len(queued) : q[k] = queued[i]
      /\ \A i \in 1..Len(queued) : \E k \in 1..Len(queued) : q[i] = queued[k]
      /\ \A errs : Named(queued, errs) => Named(q, errs)
  BY SortedQueue
<1> QED
  BY <1>1, <1>2, <1>3

LEMMA ApplyShape ==
  ASSUME TypeOK, QueueInv, NEW final \in Finals, Apply(final)
  PROVE  /\ IsQueue(ops') /\ Len(ops') \in 1..MaxSteps
         /\ left' = Len(ops') /\ pc' = "applying" /\ nextId' \in Nat
         /\ \A i, k \in DOMAIN ops' : i < k => ~Earlier(ops'[k], ops'[i])
         /\ AreErrors(errors') /\ Named(ops', errors')
         /\ \A i \in 1..Len(ops') : IsPlain(ops'[i]) \/ \E k \in 1..Len(ops) : ops'[i] = ops[k]
<1> DEFINE added == Added(final)
           more == [i \in DOMAIN added |-> WithId(added[i], nextId + i)]
           queued == ops \o more
<1>1. /\ queued # <<>> /\ currStep + Len(queued) <= MaxSteps
      /\ nextId' = nextId + Len(added)
      /\ \E found \in ConflictErrors(queued) : errors' = errors \cup found
      /\ Start(queued)
  BY DEF Apply
<1>2. /\ currStep \in Nat /\ nextId \in Nat /\ MaxSteps \in Nat
      /\ IsQueue(ops) /\ AreErrors(errors)
  BY BoundsAssumption DEF TypeOK, QueueInv
<1>3. PICK n \in 0..2 : /\ DOMAIN more = 1..n /\ Len(added) = n
                        /\ more = [i \in 1..n |-> more[i]]
                        /\ \A i \in 1..n : IsEdit(more[i]) /\ IsPlain(more[i])
  <2> DEFINE id == [i \in DOMAIN added |-> nextId + i]
  <2>1. more = [i \in DOMAIN Added(final) |-> WithId(Added(final)[i], id[i])]
    OBVIOUS
  <2> HIDE DEF more, id
  <2> QED
    BY <2>1, AddedEdits
<1>4. queued \in Seq(Range(ops) \cup {more[i] : i \in 1..n}) /\ Len(queued) = Len(ops) + n
  <2> DEFINE S == Range(ops) \cup {more[i] : i \in 1..n}
  <2>1. ops \in Seq(S)
    BY <1>2, SeqMonotonic DEF IsQueue
  <2>2. more \in [1..n -> S]
    BY <1>3
  <2> HIDE DEF more, S
  <2>3. more \in Seq(S) /\ Len(more) = n
    BY <2>2, IsSequence
  <2>4. queued \in Seq(S) /\ Len(queued) = Len(ops) + n
    BY <2>1, <2>3, ConcatProperties
  <2> QED
    BY <2>4 DEF S
<1>14. \A i \in 1..Len(queued) : IsPlain(queued[i]) \/ \E k \in 1..Len(ops) : queued[i] = ops[k]
  <2> DEFINE S == Range(ops) \cup {more[i] : i \in 1..n}
  <2>1. queued \in Seq(S)
    BY <1>4
  <2>2. DOMAIN ops = 1..Len(ops)
    BY <1>2, QueueType
  <2> HIDE DEF queued, more
  <2>3. \A i \in 1..Len(queued) : queued[i] \in S
    BY <2>1, LenProperties
  <2> QED
    BY <1>3, <2>2, <2>3 DEF Range
<1>5. Len(queued) \in Nat /\ Len(queued) > 0 /\ Len(queued) <= MaxSteps
  <2> HIDE DEF queued
  <2>1. Len(queued) \in Nat /\ (Len(queued) = 0 => queued = <<>>)
    BY <1>4, EmptySeq, LenProperties
  <2> QED
    BY <1>1, <1>2, <2>1
<1>6. IsQueue(queued)
  <2> HIDE DEF more
  <2> QED
    BY <1>2, <1>3, <1>5, ConcatQueue
<1> HIDE DEF queued, more, added
<1>7. PICK found \in ConflictErrors(queued) : errors' = errors \cup found
  BY <1>1
<1>8. AreErrors(found) /\ Named(queued, found)
  BY <1>6, ConflictsFound
<1>9. /\ IsQueue(ops') /\ Len(ops') = Len(queued)
      /\ left' = Len(ops') /\ pc' = "applying"
      /\ \A i, k \in DOMAIN ops' : i < k => ~Earlier(ops'[k], ops'[i])
      /\ \A i \in 1..Len(queued) : \E k \in 1..Len(queued) : ops'[i] = queued[k]
      /\ \A errs : Named(queued, errs) => Named(ops', errs)
  BY <1>1, <1>6, Started
<1>10. AreErrors(errors')
  BY <1>2, <1>7, <1>8, ErrorsGrow
<1>11. Named(ops', errors')
  <2>1. Named(ops', found)
    BY <1>8, <1>9
  <2> QED
    BY <1>7, <2>1, NamedGrows
<1>12. nextId' \in Nat
  BY <1>1, <1>2, <1>3
<1>13. Len(ops') \in 1..MaxSteps
  BY <1>2, <1>5, <1>9
<1>15. \A i \in 1..Len(ops') : IsPlain(ops'[i]) \/ \E k \in 1..Len(ops) : ops'[i] = ops[k]
  BY <1>9, <1>14
<1> QED
  BY <1>9, <1>10, <1>11, <1>12, <1>13, <1>15

-----------------------------------------------------------------------------
(* The marks of errors *)

\* A finite set is the range of the sequence that SetToSeq makes of it.
LEMMA EachOf ==
  ASSUME NEW S, IsFiniteSet(S)
  PROVE  Cardinality(S) \in Nat /\ SetToSeq(S) \in [1..Cardinality(S) -> S]
<1>1. Cardinality(S) \in Nat /\ ExistsBijection(1..Cardinality(S), S)
  BY FS_CardinalityType
<1>2. PICK f \in Bijection(1..Cardinality(S), S) : TRUE
  BY <1>1 DEF ExistsBijection
<1>3. f \in [1..Cardinality(S) -> S] /\ IsInjective(f)
  BY <1>2 DEF Bijection, Injection
<1> QED
  BY <1>1, <1>3 DEF SetToSeq

LEMMA FiniteReports ==
  ASSUME AreErrors(errors)
  PROVE  IsFiniteSet(Reports)
<1>1. IsFiniteSet(errors) /\ IsFiniteSet({err \in errors : err.e = "CONFLICT"})
  BY FS_Subset DEF AreErrors
<1>2. IsFiniteSet({1}) /\ IsFiniteSet({2})
  BY FS_Singleton
<1>3. IsFiniteSet(errors \X {1}) /\ IsFiniteSet({err \in errors : err.e = "CONFLICT"} \X {2})
  BY <1>1, <1>2, FS_Product
<1> QED
  BY <1>3, FS_Union DEF Reports

\* What a mark refers to is a range.
LEMMA MarkEdit ==
  ASSUME NEW err, IsError(err), NEW range \in ErrorRanges(err), NEW id
  PROVE  IsEdit(WithId(ErrorMark(range), id)) /\ WithId(ErrorMark(range), id).op = "MARK"
<1>1. range.s \in Nat /\ range.e \in Nat /\ range.s <= range.e
  <2>1. CASE err.e = "CST_ERROR"
    <3>1. PICK o \in RowOffsets(cont) :
            range = [s |-> o, e |-> o, rows |-> <<RowOf(cont, o), RowOf(cont, o)>>]
      BY <2>1 DEF ErrorRanges
    <3>2. o \in Nat
      BY DEF RowOffsets
    <3> QED
      BY <3>1, <3>2
  <2>2. CASE err.e # "CST_ERROR"
    <3>1. /\ err.edit.e \in Nat /\ err.other.e \in Nat /\ err.other.s \in Nat
          /\ err.other.s <= err.other.e /\ err.other.s < err.edit.e
      BY <2>2 DEF IsError, IsEdit
    <3>2. range.s = err.other.s
          /\ range.e = IF err.edit.e < err.other.e THEN err.edit.e ELSE err.other.e
      BY <2>2 DEF ErrorRanges
    <3> QED
      BY <3>1, <3>2
  <2> QED
    BY <2>1, <2>2
<1>2. DOMAIN ErrorMark(range) = {"op", "s", "e", "rows", "change", "context"}
  BY DEF ErrorMark
<1>3. /\ ErrorMark(range).op = "MARK" /\ ErrorMark(range).s = range.s
      /\ ErrorMark(range).e = range.e
  BY DEF ErrorMark
<1>4. /\ WithId(ErrorMark(range), id).op = "MARK"
      /\ WithId(ErrorMark(range), id).s = range.s
      /\ WithId(ErrorMark(range), id).e = range.e
  BY <1>2, <1>3, WithIdEdit
<1> QED
  BY <1>1, <1>4, Kinds DEF IsEdit

IsMark(x) ==
  \E err \in errors : \E range \in ErrorRanges(err) : \E id : x = WithId(ErrorMark(range), id)

\* The queue of marks: an edit for each report, and a save.
LEMMA MarkErrorsShape ==
  ASSUME TypeOK, QueueInv, MarkErrors
  PROVE  /\ IsQueue(ops') /\ Len(ops') \in 1..MaxSteps
         /\ left' = Len(ops') /\ pc' = "applying" /\ nextId' \in Nat
         /\ \A i, k \in DOMAIN ops' : i < k => ~Earlier(ops'[k], ops'[i])
         /\ AreErrors(errors') /\ Named(ops', errors')
         /\ \A i \in DOMAIN ops' : ops'[i].op \in {"MARK", "SAVE"}
         /\ \E i \in DOMAIN ops' : ops'[i].op = "SAVE"
         /\ \A i \in 1..Len(ops') : IsPlain(ops'[i]) \/ IsMark(ops'[i])
<1> DEFINE each == SetToSeq(Reports)
           n == Cardinality(Reports)
           ranges == UNION {ErrorRanges(err) : err \in errors}
           marks(found) == [i \in DOMAIN each |-> ErrorMark(found[each[i][1]])]
           all(found) == Append(marks(found), Plain("SAVE"))
           queue(found) == [i \in DOMAIN all(found) |-> WithId(all(found)[i], i)]
<1>1. AreErrors(errors) /\ MaxSteps \in Nat
  BY BoundsAssumption DEF QueueInv
<1>2. n \in Nat /\ n < MaxSteps /\ each \in [1..n -> Reports]
  <2>1. n < MaxSteps
    BY DEF MarkErrors
  <2> QED
    BY <1>1, <2>1, FiniteReports, EachOf
<1>3. PICK found \in [errors -> ranges] :
        /\ \A err \in errors : found[err] \in ErrorRanges(err)
        /\ nextId' = Len(queue(found))
        /\ errors' \in ConflictErrors(queue(found))
        /\ Start(queue(found))
  BY DEF MarkErrors
<1>4. ASSUME NEW i \in 1..n
      PROVE  /\ marks(found)[i] = ErrorMark(found[each[i][1]])
             /\ each[i][1] \in errors
  <2>1. each[i] \in Reports
    BY <1>2
  <2>2. each[i][1] \in errors
    <3> HIDE DEF each
    <3> QED
      BY <2>1 DEF Reports
  <2> HIDE DEF each
  <2> QED
    BY <1>2, <2>2
<1>5. /\ DOMAIN all(found) = 1..n + 1
      /\ \A i \in 1..n : all(found)[i] = ErrorMark(found[each[i][1]])
      /\ all(found)[n + 1] = Plain("SAVE")
  <2> DEFINE m == marks(found)
             S == {m[i] : i \in 1..n} \cup {Plain("SAVE")}
  <2>1. m \in [1..n -> S]
    <3> HIDE DEF each
    <3> QED
      BY <1>2
  <2>2. m \in Seq(S) /\ Len(m) = n /\ Plain("SAVE") \in S
    <3>1. Plain("SAVE") \in S
      OBVIOUS
    <3> HIDE DEF m, S
    <3> QED
      BY <1>2, <2>1, <3>1, IsSequence
  <2>3. /\ Append(m, Plain("SAVE")) \in Seq(S) /\ Len(Append(m, Plain("SAVE"))) = n + 1
        /\ \A i \in 1..n : Append(m, Plain("SAVE"))[i] = m[i]
        /\ Append(m, Plain("SAVE"))[n + 1] = Plain("SAVE")
    <3> HIDE DEF m, S
    <3> QED
      BY <2>2, AppendProperties
  <2>4. DOMAIN Append(m, Plain("SAVE")) = 1..n + 1
    <3> HIDE DEF m, S
    <3> QED
      BY <2>3, LenProperties
  <2>5. \A i \in 1..n : Append(m, Plain("SAVE"))[i] = ErrorMark(found[each[i][1]])
    BY <1>4, <2>3
  <2> QED
    BY <2>3, <2>4, <2>5
<1> HIDE DEF all, marks
<1> DEFINE queued == queue(found)
<1>6. /\ \A i \in 1..n : IsEdit(queued[i]) /\ queued[i].op = "MARK" /\ IsMark(queued[i])
      /\ IsEdit(queued[n + 1]) /\ queued[n + 1].op = "SAVE" /\ IsPlain(queued[n + 1])
  <2>1. ASSUME NEW i \in 1..n
        PROVE  IsEdit(queued[i]) /\ queued[i].op = "MARK" /\ IsMark(queued[i])
    <3>1. i \in 1..n + 1
      BY <1>2
    <3>2. queued[i] = WithId(ErrorMark(found[each[i][1]]), i)
      BY <1>5, <3>1
    <3>3. IsError(each[i][1]) /\ found[each[i][1]] \in ErrorRanges(each[i][1])
      BY <1>1, <1>3, <1>4 DEF AreErrors
    <3>4. each[i][1] \in errors
      BY <1>4
    <3> HIDE DEF queued, each
    <3>5. IsMark(queued[i])
      BY <3>2, <3>3, <3>4 DEF IsMark
    <3> QED
      BY <3>2, <3>3, <3>5, MarkEdit
  <2>2. IsEdit(queued[n + 1]) /\ queued[n + 1].op = "SAVE" /\ IsPlain(queued[n + 1])
    <3>1. n + 1 \in 1..n + 1
      BY <1>2
    <3>2. queued[n + 1] = WithId(Plain("SAVE"), n + 1)
      BY <1>5, <3>1
    <3> HIDE DEF queued
    <3>3. IsPlain(queued[n + 1])
      BY <3>2 DEF IsPlain
    <3> QED
      BY <3>2, <3>3, Kinds, PlainEdit
  <2> QED
    BY <2>1, <2>2
<1>7. queued \in [1..n + 1 -> {queued[i] : i \in 1..n + 1}]
  BY <1>5
<1>8. errors' \in ConflictErrors(queued) /\ Start(queued) /\ nextId' = Len(queued)
  BY <1>3
<1> HIDE DEF queued, queue, each, n
<1>9. queued \in Seq({queued[i] : i \in 1..n + 1}) /\ Len(queued) = n + 1
  BY <1>2, <1>7, IsSequence
<1>10. \A i \in 1..n + 1 : IsEdit(queued[i]) /\ queued[i].op \in {"MARK", "SAVE"}
  <2>1. \A i \in 1..n + 1 : i \in 1..n \/ i = n + 1
    BY <1>2
  <2> QED
    BY <1>6, <2>1
<1>11. IsQueue(queued)
  <2>1. n + 1 <= MaxSteps
    BY <1>1, <1>2
  <2> QED
    BY <1>9, <1>10, <2>1, QueueOf
<1>12. /\ IsQueue(ops') /\ Len(ops') = n + 1
       /\ left' = Len(ops') /\ pc' = "applying"
       /\ \A i, k \in DOMAIN ops' : i < k => ~Earlier(ops'[k], ops'[i])
       /\ \A i \in 1..n + 1 : \E k \in 1..n + 1 : ops'[k] = queued[i]
       /\ \A i \in 1..n + 1 : \E k \in 1..n + 1 : ops'[i] = queued[k]
       /\ \A errs : Named(queued, errs) => Named(ops', errs)
  <2>1. /\ IsQueue(ops') /\ Len(ops') = Len(queued)
        /\ left' = Len(ops') /\ pc' = "applying"
        /\ \A i, k \in DOMAIN ops' : i < k => ~Earlier(ops'[k], ops'[i])
        /\ \A i \in 1..Len(queued) : \E k \in 1..Len(queued) : ops'[k] = queued[i]
        /\ \A i \in 1..Len(queued) : \E k \in 1..Len(queued) : ops'[i] = queued[k]
        /\ \A errs : Named(queued, errs) => Named(ops', errs)
    BY <1>8, <1>11, Started
  <2> QED
    BY <1>9, <2>1
<1>13. AreErrors(errors') /\ Named(ops', errors')
  BY <1>8, <1>11, <1>12, ConflictsFound
<1>14. DOMAIN ops' = 1..n + 1
  BY <1>12, QueueType
<1>15. Len(ops') \in 1..MaxSteps /\ nextId' \in Nat
  BY <1>1, <1>2, <1>8, <1>9, <1>12
<1>16. \A i \in DOMAIN ops' : ops'[i].op \in {"MARK", "SAVE"}
  BY <1>10, <1>12, <1>14
<1>17. \E i \in DOMAIN ops' : ops'[i].op = "SAVE"
  <2>1. n + 1 \in 1..n + 1
    BY <1>2
  <2>2. PICK k \in 1..n + 1 : ops'[k] = queued[n + 1]
    BY <1>12, <2>1
  <2> QED
    BY <1>6, <1>14, <2>2
<1>18. \A i \in 1..Len(ops') : IsPlain(ops'[i]) \/ IsMark(ops'[i])
  <2>1. \A i \in 1..n + 1 : i \in 1..n \/ i = n + 1
    BY <1>2
  <2>2. \A i \in 1..n + 1 : IsPlain(queued[i]) \/ IsMark(queued[i])
    BY <1>6, <2>1
  <2> QED
    BY <1>12, <2>2
<1> QED
  BY <1>12, <1>13, <1>15, <1>16, <1>17, <1>18

-----------------------------------------------------------------------------
(* The steps of apply's loop *)

\* An edit of the text is executed: the text is dirty, if it changed at all.
TextStep ==
  /\ Stepping(TextOps)
  /\ dirty' = TRUE \/ (cont' = cont /\ dirty' = dirty)
  /\ exact' \in BOOLEAN
  /\ UNCHANGED <<errors, files, pc, trouble>>

\* An edit of the text throws, or what it does is undefined.
StopStep ==
  /\ Iterating(TextOps)
  /\ (pc' = "idle" /\ kept' = Outside) \/ (pc' = "undefined" /\ kept' = kept)
  /\ trouble' \in {trouble, trouble \cup {"throw"}}
  /\ UNCHANGED <<errors, writer, files>>

Iteration == TextStep \/ StopStep \/ StepValidate \/ StepPrint \/ StepBackup \/ StepSave

Other == StepPastEnd \/ SaveWrites \/ ApplyReturns \/ MarkErrors \/ MarkErrorsReturns

LEMMA IteratingMore ==
  ASSUME NEW kinds, NEW more, kinds \subseteq more, Iterating(kinds)
  PROVE  Iterating(more)
BY DEF Iterating

\* Each step is of one of these forms.
LEMMA StepForms ==
  ASSUME TypeOK, Step
  PROVE  Iteration \/ Other
<1>1. Splices \subseteq TextOps /\ RowOps \subseteq TextOps /\ {"REPLACE"} \subseteq TextOps
  BY DEF TextOps
<1>2. dirty \in BOOLEAN /\ exact \in BOOLEAN
  BY DEF TypeOK
<1>3. CASE StepSplice
  <2>1. Stepping(TextOps)
    BY <1>1, <1>3, IteratingMore DEF StepSplice, Stepping
  <2>2. dirty' = TRUE /\ exact' \in BOOLEAN /\ UNCHANGED <<errors, files, pc, trouble>>
    BY <1>3 DEF StepSplice
  <2> QED
    BY <2>1, <2>2 DEF TextStep, Iteration
<1>4. CASE StepRows
  <2>1. Stepping(TextOps)
    BY <1>1, <1>4, IteratingMore DEF StepRows, Stepping
  <2>2. dirty' = TRUE /\ exact' \in BOOLEAN /\ UNCHANGED <<errors, files, pc, trouble>>
    BY <1>4 DEF StepRows
  <2> QED
    BY <2>1, <2>2 DEF TextStep, Iteration
<1>5. CASE StepReplace
  <2>1. Stepping(TextOps)
    BY <1>1, <1>5, IteratingMore DEF StepReplace, Stepping
  <2>2. exact' \in BOOLEAN /\ UNCHANGED <<errors, files, pc, trouble>>
    BY <1>5 DEF StepReplace
  <2>3. dirty' = TRUE \/ (cont = <<>> /\ dirty' = dirty)
    BY <1>5 DEF StepReplace
  <2>4. cont = <<>> => cont' = cont
    <3>1. SUFFICES ASSUME cont = <<>> PROVE  Replaced(cont, Edit) = <<>>
      BY <1>5 DEF StepReplace
    <3>3. [i \in DOMAIN cont |-> IF <<cont[i]>> = Edit.change THEN Edit.context ELSE <<cont[i]>>]
             = <<>>
      BY <3>1
    <3>4. FlattenSeq(<<>>) = <<>>
      BY EmptySeq DEF FlattenSeq
    <3> QED
      BY <3>3, <3>4 DEF Replaced
  <2> QED
    BY <2>1, <2>2, <2>3, <2>4 DEF TextStep, Iteration
<1>6. CASE StepThrows
  <2>1. Iterating(TextOps)
    BY <1>1, <1>6, IteratingMore DEF StepThrows, Throwing
  <2> QED
    BY <1>6, <2>1 DEF StepThrows, Throwing, StopStep, Iteration
<1>7. CASE StepRowsOutside
  <2>1. Iterating(TextOps)
    BY <1>1, <1>7, IteratingMore DEF StepRowsOutside, Stepping
  <2> QED
    BY <1>7, <2>1 DEF StepRowsOutside, Stepping, StopStep, Iteration
<1>8. CASE StepReplaceFreed
  <2>1. Iterating(TextOps)
    BY <1>1, <1>8, IteratingMore DEF StepReplaceFreed, Stepping
  <2> QED
    BY <1>8, <2>1 DEF StepReplaceFreed, Stepping, StopStep, Iteration
<1>9. CASE StepReplaceThrows
  <2>1. Iterating(TextOps)
    BY <1>1, <1>9, IteratingMore DEF StepReplaceThrows, Throwing
  <2> QED
    BY <1>9, <2>1 DEF StepReplaceThrows, Throwing, StopStep, Iteration
<1> QED
  BY <1>3, <1>4, <1>5, <1>6, <1>7, <1>8, <1>9 DEF Step, Iteration, Other

\* What all of them do, and leave alone.
LEMMA Iterated ==
  ASSUME TypeOK, QueueInv, Iteration
  PROVE  /\ pc = "applying" /\ left \in 1..MaxSteps /\ Len(ops) \in 0..MaxSteps
         /\ currStep \in 0..Len(ops) - 1 /\ currStep + 1 \in DOMAIN ops
         /\ DOMAIN ops = 1..Len(ops)
         /\ currStep' = currStep + 1 /\ left' = left - 1
         /\ ops' = ops /\ nextId' = nextId /\ base' = base
         /\ batches' = batches /\ calls' = calls
         /\ \/ kept' = kept /\ pc' \in {"applying", "saving", "undefined"}
            \/ kept' = Outside /\ pc' = "idle"
         /\ trouble \subseteq trouble' /\ trouble' \subseteq trouble \cup {"throw", "backup"}
         /\ AreErrors(errors')
         /\ errors' = errors \/ errors' = errors \cup {[e |-> "CST_ERROR"]}
<1>1. /\ Len(ops) \in Nat /\ DOMAIN ops = 1..Len(ops) /\ AreErrors(errors)
      /\ MaxSteps \in Nat /\ Len(ops) <= MaxSteps /\ currStep \in Nat /\ left \in 0..MaxSteps
  BY QueueType, BoundsAssumption DEF QueueInv, TypeOK
<1>2. PICK kinds : Iterating(kinds)
  BY DEF Iteration, TextStep, StopStep, StepValidate, StepPrint, StepBackup, StepSave, Stepping
<1>3. /\ pc = "applying" /\ left > 0 /\ currStep < Len(ops)
      /\ currStep' = currStep + 1 /\ left' = left - 1
      /\ ops' = ops /\ nextId' = nextId /\ base' = base
      /\ batches' = batches /\ calls' = calls
  BY <1>2 DEF Iterating, bounds
<1>4. \/ kept' = kept /\ pc' \in {"applying", "saving", "undefined"}
      \/ kept' = Outside /\ pc' = "idle"
  BY <1>3 DEF Iteration, TextStep, StopStep, StepValidate, StepPrint, StepBackup, StepSave,
              Stepping
<1>5. trouble \subseteq trouble' /\ trouble' \subseteq trouble \cup {"throw", "backup"}
  BY DEF Iteration, TextStep, StopStep, StepValidate, StepPrint, StepBackup, StepSave
<1>6. errors' = errors \/ errors' = errors \cup {[e |-> "CST_ERROR"]}
  BY DEF Iteration, TextStep, StopStep, StepValidate, StepPrint, StepBackup, StepSave
<1>7. AreErrors(errors')
  <2>1. IsError([e |-> "CST_ERROR"])
    BY DEF IsError
  <2>2. AreErrors({[e |-> "CST_ERROR"]})
    BY <2>1, FS_Singleton DEF AreErrors
  <2> QED
    BY <1>1, <1>6, <2>2, ErrorsGrow
<1> QED
  BY <1>1, <1>3, <1>4, <1>5, <1>6, <1>7

-----------------------------------------------------------------------------
(* Types *)

\* What TypeOK says besides what QueueInv does
Scalars ==
  /\ currStep \in 0..MaxSteps /\ nextId \in Nat
  /\ dirty \in BOOLEAN /\ exact \in BOOLEAN /\ trouble \subseteq {"throw", "backup", "save", "step", "marks"}
  /\ pc \in {"idle", "applying", "saving", "applied", "undefined"}
  /\ left \in 0..MaxSteps /\ batches \in 1..MaxBatches /\ calls \in 0..MaxCalls

LEMMA Types ==
  ASSUME QueueInv', Scalars'
  PROVE  TypeOK'
<1>1. /\ Len(ops') <= MaxSteps
      /\ \A i \in DOMAIN ops' : ops'[i].op \in Range(OpOrder) /\ ops'[i].s <= ops'[i].e
  BY DEF QueueInv, IsQueue, IsEdit
<1>2. \A err \in errors' : err.e \in {"CONFLICT", "CST_ERROR"}
  BY DEF QueueInv, AreErrors, IsError
<1> QED
  BY <1>1, <1>2 DEF TypeOK, Scalars

\* A call or a step preserves the queue and the errors, those kept included.
LEMMA QueueStep ==
  ASSUME TypeOK, QueueInv, MarksInv, Next
  PROVE  QueueInv'
<1>1. /\ IsQueue(ops) /\ AreErrors(errors) /\ MaxSteps \in Nat /\ MaxOps \in Nat
      /\ MaxOps <= MaxSteps /\ Len(ops) \in Nat /\ currStep \in 0..MaxSteps
  BY QueueType, BoundsAssumption DEF QueueInv, TypeOK
<1>2. Marking => /\ IsQueue(kept.ops) /\ AreErrors(kept.errors)
                 /\ kept.currStep \in 1..MaxSteps /\ kept.nextId \in Nat
  BY DEF QueueInv
<1>3. AreErrors({})
  BY FS_EmptySet DEF AreErrors
<1>4. ~(Outside.during = "marks") /\ ~(First.during = "marks")
  BY DEF Outside, First
<1>5. ASSUME NEW edit \in Candidates, Queue(edit)
      PROVE  QueueInv'
  <2>1. IsQueue(ops')
    <3>1. Len(ops) < MaxSteps
      BY <1>1, <1>5 DEF Queue
    <3>2. IsEdit(WithId(edit, nextId + 1))
      BY CandidateEdit
    <3> QED
      BY <1>1, <1>5, <3>1, <3>2, AppendQueue DEF Queue
  <2>2. errors' = errors /\ kept' = kept
    BY <1>5 DEF Queue
  <2> QED
    BY <1>1, <1>2, <2>1, <2>2 DEF QueueInv, Marking
<1>6. ASSUME NEW id \in 1..nextId, DelEdit(id)
      PROVE  QueueInv'
  <2>1. IsQueue(ops')
    BY <1>1, <1>6, RemoveQueue DEF DelEdit
  <2>2. errors' = errors /\ kept' = kept
    BY <1>6 DEF DelEdit
  <2> QED
    BY <1>1, <1>2, <2>1, <2>2 DEF QueueInv, Marking
<1>7. CASE Reset
  <2>1. ops' = <<>> /\ errors' = {} /\ kept' = kept
    BY <1>7 DEF Reset
  <2>2. IsQueue(<<>>)
    <3>1. <<>> \in Seq({}) /\ Len(<<>>) = 0
      BY EmptySeq
    <3>2. Range(<<>>) = {}
      BY DEF Range
    <3> QED
      BY <1>1, <3>1, <3>2 DEF IsQueue
  <2> QED
    BY <1>2, <1>3, <2>1, <2>2 DEF QueueInv, Marking
<1>8. CASE GetConflicts
  <2>1. PICK found \in ConflictErrors(ops) : errors' = errors \cup found
    BY <1>8 DEF GetConflicts
  <2>2. AreErrors(errors')
    BY <1>1, <2>1, ConflictsFound, ErrorsGrow
  <2>3. ops' = ops /\ kept' = kept
    BY <1>8 DEF GetConflicts
  <2> QED
    BY <1>1, <1>2, <2>2, <2>3 DEF QueueInv, Marking
<1>9. ASSUME NEW final \in Finals, Apply(final)
      PROVE  QueueInv'
  <2>1. kept' \in {First, Outside}
    BY <1>9 DEF Apply
  <2> QED
    BY <1>4, <1>9, <2>1, ApplyShape DEF QueueInv, Marking
<1>10. CASE StepCalled
  BY <1>1, <1>2, <1>10 DEF StepCalled, QueueInv, Marking, editor
<1>11. CASE Iteration
  <2>1. ops' = ops /\ AreErrors(errors') /\ kept' \in {kept, Outside}
    BY <1>11, Iterated
  <2> QED
    BY <1>1, <1>2, <1>4, <2>1 DEF QueueInv, Marking
<1>12. CASE StepPastEnd \/ SaveWrites
  BY <1>1, <1>2, <1>12 DEF StepPastEnd, SaveWrites, QueueInv, Marking, editor
<1>13. CASE ApplyReturns
  BY <1>1, <1>4, <1>13 DEF ApplyReturns, QueueInv, Marking, editor
<1>14. CASE MarkErrors
  <2>1. kept' = [during |-> "marks", ops |-> ops, currStep |-> currStep, nextId |-> nextId,
                 errors |-> errors]
    BY <1>14 DEF MarkErrors
  <2>2. currStep \in 1..MaxSteps
    <3>1. left = 0 /\ kept = First
      BY <1>14 DEF MarkErrors
    <3>2. left > 0 \/ currStep > 0
      BY <3>1 DEF MarksInv
    <3> QED
      BY <1>1, <3>1, <3>2
  <2>3. IsQueue(ops') /\ AreErrors(errors')
    BY <1>14, MarkErrorsShape
  <2>4. nextId \in Nat
    BY DEF TypeOK
  <2> QED
    BY <1>1, <2>1, <2>2, <2>3, <2>4 DEF QueueInv
<1>15. CASE MarkErrorsReturns
  <2>1. ops' = kept.ops /\ errors' = kept.errors /\ kept' = Outside /\ Marking
    BY <1>15 DEF MarkErrorsReturns, Marking
  <2> QED
    BY <1>2, <1>4, <2>1 DEF QueueInv, Marking
<1> QED
  BY <1>5, <1>6, <1>7, <1>8, <1>9, <1>10, <1>11, <1>12, <1>13, <1>14, <1>15, StepForms
     DEF Next, Call, Other

LEMMA TypeStep ==
  ASSUME TypeOK, QueueInv, MarksInv, Next
  PROVE  TypeOK'
<1> SUFFICES Scalars'
  BY QueueStep, Types
<1>1. Scalars /\ MaxSteps \in Nat /\ MaxBatches \in Nat /\ MaxCalls \in Nat
  BY BoundsAssumption DEF TypeOK, Scalars
<1>2. ASSUME NEW edit \in Candidates, Queue(edit)
      PROVE  Scalars'
  BY <1>1, <1>2 DEF Queue, Scalars, writer
<1>3. ASSUME NEW id \in 1..nextId, DelEdit(id)
      PROVE  Scalars'
  BY <1>1, <1>3 DEF DelEdit, Scalars, writer, bounds
<1>4. CASE Reset
  BY <1>1, <1>4 DEF Reset, Scalars
<1>5. CASE GetConflicts
  BY <1>1, <1>5 DEF GetConflicts, Scalars, writer, bounds
<1>6. ASSUME NEW final \in Finals, Apply(final)
      PROVE  Scalars'
  <2>1. left' \in 1..MaxSteps /\ pc' = "applying" /\ nextId' \in Nat
    BY <1>6, ApplyShape
  <2>2. UNCHANGED <<currStep, writer, trouble, bounds>>
    BY <1>6 DEF Apply
  <2> QED
    BY <1>1, <2>1, <2>2 DEF Scalars, writer, bounds
<1>7. CASE StepCalled
  <2>1. 1 \in 0..MaxSteps
    BY <1>1, <1>7 DEF StepCalled, Scalars
  <2> QED
    BY <1>1, <1>7, <2>1 DEF StepCalled, Scalars, writer, bounds, editor
<1>8. CASE Iteration
  <2>1. /\ currStep' \in 0..MaxSteps /\ left' \in 0..MaxSteps /\ nextId' = nextId
        /\ batches' = batches /\ calls' = calls
    BY <1>1, <1>8, Iterated
  <2>2. /\ pc' \in {"applying", "saving", "undefined", "idle"}
        /\ trouble' \subseteq trouble \cup {"throw", "backup"}
    BY <1>8, Iterated
  <2>3. exact' \in BOOLEAN
    BY <1>1, <1>8 DEF Iteration, TextStep, StopStep, StepValidate, StepPrint, StepBackup, StepSave,
                      Scalars, writer
  <2>4. dirty' \in BOOLEAN
    BY <1>1, <1>8 DEF Iteration, TextStep, StopStep, StepValidate, StepPrint, StepBackup, StepSave,
                      Scalars, writer
  <2> QED
    BY <1>1, <2>1, <2>2, <2>3, <2>4 DEF Scalars
<1>9. CASE StepPastEnd
  BY <1>1, <1>9 DEF StepPastEnd, Scalars, writer, bounds, editor
<1>10. CASE SaveWrites
  <2>1. dirty' \in BOOLEAN /\ trouble' \subseteq trouble \cup {"save"}
    BY <1>1, <1>10 DEF SaveWrites, Scalars
  <2> QED
    BY <1>1, <1>10, <2>1 DEF SaveWrites, Scalars, bounds, editor
<1>11. CASE ApplyReturns
  BY <1>1, <1>11 DEF ApplyReturns, Scalars, writer, bounds, editor
<1>12. CASE MarkErrors
  <2>1. left' \in 1..MaxSteps /\ pc' = "applying" /\ nextId' \in Nat
    BY <1>12, MarkErrorsShape
  <2>2. currStep' = 0 /\ trouble' = trouble \cup {"marks"} /\ UNCHANGED <<writer, bounds>>
    BY <1>12 DEF MarkErrors
  <2> QED
    BY <1>1, <2>1, <2>2 DEF Scalars, writer, bounds
<1>13. CASE MarkErrorsReturns
  <2>1. kept.currStep \in 0..MaxSteps /\ kept.nextId \in Nat
    BY <1>13 DEF MarkErrorsReturns, QueueInv, Marking
  <2> QED
    BY <1>1, <1>13, <2>1 DEF MarkErrorsReturns, Scalars, writer, bounds
<1> QED
  BY <1>2, <1>3, <1>4, <1>5, <1>6, <1>7, <1>8, <1>9, <1>10, <1>11, <1>12, <1>13, StepForms
     DEF Next, Call, Other

-----------------------------------------------------------------------------
(* Where a pass is *)

LEMMA MarksStep ==
  ASSUME TypeOK, QueueInv, MarksInv, Next
  PROVE  MarksInv'
<1>1. /\ Outside.during = "none" /\ First.during = "edits" /\ Outside # First
      /\ left \in Nat /\ currStep \in Nat
  BY DEF Outside, First, TypeOK
<1>2. Marking => /\ kept # Outside /\ kept # First
                 /\ \A i \in DOMAIN ops : ops[i].op \in {"MARK", "SAVE"}
                 /\ \E i \in DOMAIN ops : ops[i].op = "SAVE"
  BY <1>1 DEF MarksInv, Marking, InBatch
<1>3. ASSUME MayCall, kept' = kept
      PROVE  MarksInv'
  BY <1>1, <1>3 DEF MarksInv, Marking
<1>4. ASSUME NEW edit \in Candidates, Queue(edit)
      PROVE  MarksInv'
  BY <1>3, <1>4 DEF Queue
<1>5. ASSUME NEW id \in 1..nextId, DelEdit(id)
      PROVE  MarksInv'
  BY <1>3, <1>5 DEF DelEdit
<1>6. CASE Reset
  BY <1>3, <1>6 DEF Reset
<1>7. CASE GetConflicts
  BY <1>3, <1>7 DEF GetConflicts
<1>8. ASSUME NEW final \in Finals, Apply(final)
      PROVE  MarksInv'
  <2>1. kept' \in {First, Outside} /\ currStep' = currStep
    BY <1>8 DEF Apply
  <2>2. left' \in Nat /\ left' > 0 /\ pc' = "applying"
    <3>1. MaxSteps \in Nat
      BY BoundsAssumption
    <3>2. left' \in 1..MaxSteps /\ pc' = "applying"
      BY <1>8, ApplyShape
    <3> QED
      BY <3>1, <3>2
  <2>3. ~Marking' /\ ~MayCall'
    BY <1>1, <2>1, <2>2 DEF Marking, MayCall
  <2> QED
    BY <2>1, <2>2, <2>3 DEF MarksInv
<1>9. CASE StepCalled
  BY <1>3, <1>9 DEF StepCalled
<1>10. CASE Iteration
  <2>1. /\ ops' = ops /\ currStep' > 0
        /\ \/ kept' = kept /\ pc' \in {"applying", "saving", "undefined"}
           \/ kept' = Outside /\ pc' = "idle"
    BY <1>1, <1>10, Iterated
  <2> QED
    BY <1>1, <1>2, <2>1 DEF MarksInv, Marking, InBatch, MayCall
<1>11. CASE StepPastEnd \/ SaveWrites
  <2>1. /\ UNCHANGED <<ops, left, currStep, kept>>
        /\ pc' \in {"undefined", "applying"}
    BY <1>11 DEF StepPastEnd, SaveWrites, editor
  <2> QED
    BY <2>1 DEF MarksInv, Marking, InBatch, MayCall
<1>12. CASE ApplyReturns \/ MarkErrorsReturns
  <2>1. kept' = Outside
    BY <1>12 DEF ApplyReturns, MarkErrorsReturns
  <2> QED
    BY <1>1, <2>1 DEF MarksInv, Marking
<1>13. CASE MarkErrors
  <2>1. kept'.during = "marks"
    BY <1>13 DEF MarkErrors
  <2>2. /\ pc' = "applying"
        /\ \A i \in DOMAIN ops' : ops'[i].op \in {"MARK", "SAVE"}
        /\ \E i \in DOMAIN ops' : ops'[i].op = "SAVE"
    BY <1>13, MarkErrorsShape
  <2> QED
    BY <1>1, <2>1, <2>2 DEF MarksInv, Marking, InBatch, MayCall
<1> QED
  BY <1>4, <1>5, <1>6, <1>7, <1>8, <1>9, <1>10, <1>11, <1>12, <1>13, StepForms
     DEF Next, Call, Other

\* The calls, Apply aside, and the steps that return leave no pass to speak of.
LEMMA NotPassing ==
  ASSUME TypeOK, Next, ~Iteration, ~(\E final \in Finals : Apply(final)), ~SaveWrites, ~MarkErrors
  PROVE  ~Passing' /\ ~FirstPass'
<1>1. ASSUME NEW edit \in Candidates, Queue(edit)
      PROVE  pc' = "idle"
  BY <1>1 DEF Queue
<1>2. ASSUME NEW id \in 1..nextId, DelEdit(id)
      PROVE  pc' = "idle"
  BY <1>2 DEF DelEdit
<1>3. Reset \/ GetConflicts => pc' = "idle"
  BY DEF Reset, GetConflicts
<1>4. StepCalled => "step" \in trouble'
  BY DEF StepCalled
<1>5. StepPastEnd => pc' = "undefined"
  BY DEF StepPastEnd
<1>6. ApplyReturns \/ MarkErrorsReturns => pc' = "applied"
  BY DEF ApplyReturns, MarkErrorsReturns
<1>7. pc' \in {"idle", "undefined", "applied"} \/ "step" \in trouble'
  BY <1>1, <1>2, <1>3, <1>4, <1>5, <1>6, StepForms DEF Next, Call, Other
<1> QED
  BY <1>7 DEF Passing, FirstPass

\* An iteration of a first pass is one of a first pass.
LEMMA IterationPass ==
  ASSUME TypeOK, QueueInv, Iteration
  PROVE  /\ Passing' => Passing
         /\ FirstPass' => FirstPass
<1>1. /\ pc = "applying" /\ left \in Nat /\ currStep \in Nat /\ Len(ops) \in Nat
      /\ currStep' = currStep + 1 /\ left' = left - 1 /\ ops' = ops
      /\ trouble \subseteq trouble'
  <2>1. MaxSteps \in Nat
    BY BoundsAssumption
  <2> QED
    BY <2>1, Iterated
<1> QED
  BY <1>1 DEF Passing, FirstPass

LEMMA PassStep ==
  ASSUME TypeOK, QueueInv, MarksInv, PassInv, Next
  PROVE  PassInv'
<1> SUFFICES ASSUME Passing'
             PROVE  /\ \A i, k \in DOMAIN ops' : i < k => ~Earlier(ops'[k], ops'[i])
                    /\ left' + currStep' >= Len(ops')
                    /\ left' = 0 => FirstPass'
  BY DEF PassInv
<1>1. currStep \in Nat /\ left \in Nat /\ Len(ops) \in Nat /\ MaxSteps \in Nat
  BY QueueType, BoundsAssumption DEF TypeOK, QueueInv
<1>2. ASSUME NEW final \in Finals, Apply(final)
      PROVE  /\ \A i, k \in DOMAIN ops' : i < k => ~Earlier(ops'[k], ops'[i])
             /\ left' + currStep' >= Len(ops')
             /\ left' # 0
  <2>1. currStep' = currStep
    BY <1>2 DEF Apply
  <2>2. /\ left' \in 1..MaxSteps /\ left' = Len(ops')
        /\ \A i, k \in DOMAIN ops' : i < k => ~Earlier(ops'[k], ops'[i])
    BY <1>2, ApplyShape
  <2> QED
    BY <1>1, <2>1, <2>2
<1>3. CASE MarkErrors
  <2>1. currStep' = 0
    BY <1>3 DEF MarkErrors
  <2>2. /\ left' \in 1..MaxSteps /\ left' = Len(ops')
        /\ \A i, k \in DOMAIN ops' : i < k => ~Earlier(ops'[k], ops'[i])
    BY <1>3, MarkErrorsShape
  <2> QED
    BY <1>1, <2>1, <2>2
<1>4. CASE Iteration
  <2>1. /\ currStep \in 0..Len(ops) - 1 /\ currStep' = currStep + 1 /\ left' = left - 1
        /\ ops' = ops /\ pc' \in {"applying", "saving"} /\ "step" \notin trouble'
    BY <1>4, Iterated DEF Passing
  <2>2. Passing
    BY <1>4, IterationPass
  <2>3. /\ \A i, k \in DOMAIN ops : i < k => ~Earlier(ops[k], ops[i])
        /\ left + currStep >= Len(ops)
    BY <2>2 DEF PassInv
  <2> QED
    BY <1>1, <2>1, <2>3 DEF FirstPass
<1>5. CASE SaveWrites
  <2>1. UNCHANGED <<ops, left, currStep>> /\ trouble \subseteq trouble' /\ pc = "saving"
    BY <1>5 DEF SaveWrites, editor
  <2>2. Passing
    BY <2>1 DEF Passing
  <2>3. /\ \A i, k \in DOMAIN ops : i < k => ~Earlier(ops[k], ops[i])
        /\ left + currStep >= Len(ops)
        /\ left = 0 => FirstPass
    BY <2>2 DEF PassInv
  <2>4. left' = 0 => FirstPass'
    BY <2>1, <2>3 DEF FirstPass, Passing
  <2> QED
    BY <2>1, <2>3, <2>4
<1> QED
  BY <1>2, <1>3, <1>4, <1>5, NotPassing

LEMMA ConflictStep ==
  ASSUME TypeOK, QueueInv, MarksInv, ConflictInv, Next
  PROVE  ConflictInv'
<1> SUFFICES ASSUME "step" \notin trouble'
             PROVE  /\ pc' \in {"applying", "saving", "applied"} => Named(ops', errors')
                    /\ Marking' => Named(kept'.ops, kept'.errors)
  BY DEF ConflictInv
<1>1. ~(Outside.during = "marks") /\ ~(First.during = "marks")
  BY DEF Outside, First
<1>2. MayCall => ~Marking
  BY <1>1 DEF MarksInv, Marking
<1>3. ASSUME NEW edit \in Candidates, Queue(edit)
      PROVE  pc' = "idle" /\ ~Marking'
  BY <1>2, <1>3 DEF Queue, Marking
<1>4. ASSUME NEW id \in 1..nextId, DelEdit(id)
      PROVE  pc' = "idle" /\ ~Marking'
  BY <1>2, <1>4 DEF DelEdit, Marking
<1>5. Reset \/ GetConflicts => pc' = "idle" /\ ~Marking'
  BY <1>2 DEF Reset, GetConflicts, Marking
<1>6. ASSUME NEW final \in Finals, Apply(final)
      PROVE  Named(ops', errors') /\ ~Marking'
  <2>1. kept' \in {First, Outside}
    BY <1>6 DEF Apply
  <2> QED
    BY <1>1, <1>6, <2>1, ApplyShape DEF Marking
<1>7. ~StepCalled
  BY DEF StepCalled
<1>8. CASE Iteration
  <2>1. /\ pc = "applying" /\ ops' = ops /\ trouble \subseteq trouble'
        /\ errors' = errors \/ errors' = errors \cup {[e |-> "CST_ERROR"]}
        /\ kept' \in {kept, Outside}
    BY <1>8, Iterated
  <2>2. Named(ops, errors) /\ (Marking => Named(kept.ops, kept.errors))
    BY <2>1 DEF ConflictInv
  <2>3. Named(ops, errors')
    BY <2>1, <2>2, NamedGrows
  <2> QED
    BY <1>1, <2>1, <2>2, <2>3 DEF Marking
<1>9. CASE StepPastEnd \/ SaveWrites
  <2>1. /\ UNCHANGED <<ops, errors, kept>> /\ trouble \subseteq trouble'
        /\ pc \in {"applying", "saving"}
    BY <1>9 DEF StepPastEnd, SaveWrites, editor
  <2>2. Named(ops, errors) /\ (Marking => Named(kept.ops, kept.errors))
    BY <2>1 DEF ConflictInv
  <2> QED
    BY <2>1, <2>2 DEF Marking
<1>10. CASE ApplyReturns
  <2>1. /\ UNCHANGED <<ops, errors, trouble>> /\ pc = "applying" /\ kept' = Outside
    BY <1>10 DEF ApplyReturns, editor
  <2> QED
    BY <1>1, <2>1 DEF ConflictInv, Marking
<1>11. CASE MarkErrors
  <2>1. /\ kept'.ops = ops /\ kept'.errors = errors /\ pc = "applying"
        /\ trouble \subseteq trouble'
    BY <1>11 DEF MarkErrors
  <2>2. Named(ops, errors)
    BY <2>1 DEF ConflictInv
  <2> QED
    BY <1>11, <2>1, <2>2, MarkErrorsShape
<1>12. CASE MarkErrorsReturns
  <2>1. /\ ops' = kept.ops /\ errors' = kept.errors /\ kept' = Outside /\ trouble' = trouble
        /\ Marking
    BY <1>12 DEF MarkErrorsReturns, Marking
  <2> QED
    BY <1>1, <2>1 DEF ConflictInv, Marking
<1> QED
  BY <1>3, <1>4, <1>5, <1>6, <1>7, <1>8, <1>9, <1>10, <1>11, <1>12, StepForms
     DEF Next, Call, Other

-----------------------------------------------------------------------------
(* What the order of kinds gives a first pass *)

LEMMA InOrder ==
  ASSUME QueueInv, PassInv, Passing,
         NEW i \in DOMAIN ops, NEW k \in DOMAIN ops, i < k
  PROVE  /\ ops[i].op \in Range(OpOrder) /\ ops[k].op \in Range(OpOrder)
         /\ Rank(ops[k].op) <= Rank(ops[i].op)
<1>1. ops[i].op \in Range(OpOrder) /\ ops[k].op \in Range(OpOrder)
  BY DEF QueueInv, IsQueue, IsEdit
<1>2. ~(Rank(ops[k].op) > Rank(ops[i].op))
  BY DEF PassInv, Earlier
<1>3. Rank(ops[k].op) \in 1..16 /\ Rank(ops[i].op) \in 1..16
  BY <1>1, RankOrder
<1> QED
  BY <1>1, <1>2, <1>3

\* Before a backup there are only backups.
LEMMA BackupsFirst ==
  ASSUME QueueInv, PassInv, Passing,
         NEW k \in DOMAIN ops, ops[k].op = "BACKUP"
  PROVE  \A i \in 1..k : i \in DOMAIN ops /\ ops[i].op = "BACKUP"
<1>1. Len(ops) \in Nat /\ DOMAIN ops = 1..Len(ops)
  BY QueueType DEF QueueInv
<1> SUFFICES ASSUME NEW i \in 1..k, i # k
             PROVE  i \in DOMAIN ops /\ ops[i].op = "BACKUP"
  OBVIOUS
<1>2. i \in DOMAIN ops /\ i < k
  BY <1>1
<1>3. ops[i].op \in Range(OpOrder) /\ Rank("BACKUP") <= Rank(ops[i].op)
  BY <1>2, InOrder
<1>4. ops[i].op # "BACKUP" => Rank(ops[i].op) < Rank("BACKUP")
  BY <1>3, RankOrder
<1>5. Rank(ops[i].op) \in 1..16 /\ Rank("BACKUP") \in 1..16
  BY <1>3, Kinds, RankOrder
<1> QED
  BY <1>2, <1>3, <1>4, <1>5

\* After a save there are only saves, and writes to other files.
LEMMA SavesLast ==
  ASSUME QueueInv, PassInv, Passing,
         NEW i \in DOMAIN ops, ops[i].op = "SAVE", NEW k \in DOMAIN ops, i < k
  PROVE  ops[k].op \in {"SAVE", "WRITE_TO"}
BY InOrder, RankOrder

\* After the tree was checked no edit changes the text.
LEMMA NoTextAfterCheck ==
  ASSUME QueueInv, PassInv, Passing,
         NEW i \in DOMAIN ops, ops[i].op = "VALIDATE_CST", NEW k \in DOMAIN ops, i < k
  PROVE  ops[k].op \notin TextOps
<1>1. ops[k].op \in Range(OpOrder) /\ Rank(ops[k].op) <= Rank("VALIDATE_CST")
  BY InOrder
<1>2. ops[k].op \in TextOps => Rank(ops[k].op) > Rank("VALIDATE_CST")
  BY RankOrder
<1>3. Rank(ops[k].op) \in 1..16 /\ Rank("VALIDATE_CST") \in 1..16
  BY <1>1, Kinds, RankOrder
<1> QED
  BY <1>1, <1>2, <1>3

\* A pass that begins: nothing was executed.
LEMMA PassBegins ==
  ASSUME TypeOK, QueueInv, Next, FirstPass',
         (\E final \in Finals : Apply(final)) \/ MarkErrors
  PROVE  currStep' = 0 /\ pc' = "applying"
<1>1. currStep' \in Nat
  <2>1. \A final : Apply(final) => currStep' = currStep
    BY DEF Apply
  <2>2. MarkErrors => currStep' = 0
    BY DEF MarkErrors
  <2>3. currStep \in Nat
    BY BoundsAssumption DEF TypeOK
  <2> QED
    BY <2>1, <2>2, <2>3
<1>2. Len(ops') \in Nat /\ left' = Len(ops') /\ pc' = "applying"
  <2>1. MaxSteps \in Nat
    BY BoundsAssumption
  <2>2. CASE MarkErrors
    BY <2>1, <2>2, MarkErrorsShape
  <2>3. ASSUME NEW final \in Finals, Apply(final)
        PROVE  Len(ops') \in Nat /\ left' = Len(ops') /\ pc' = "applying"
    BY <2>1, <2>3, ApplyShape
  <2> QED
    BY <2>2, <2>3
<1>3. left' = Len(ops') - currStep'
  BY DEF FirstPass
<1> QED
  BY <1>1, <1>2, <1>3

LEMMA BackupStep ==
  ASSUME TypeOK, QueueInv, MarksInv, PassInv, BackupInv, Next
  PROVE  BackupInv'
<1>1. /\ ~(Outside.during = "marks") /\ ~(First.during = "marks")
      /\ MayCall => ~Marking
  BY DEF Outside, First, MarksInv, Marking
<1>2. ASSUME NEW edit \in Candidates, Queue(edit)
      PROVE  UNCHANGED <<currStep, cont, base, kept>> /\ pc' = "idle"
  BY <1>2 DEF Queue, writer
<1>3. ASSUME NEW id \in 1..nextId, DelEdit(id)
      PROVE  UNCHANGED <<currStep, cont, base, kept>> /\ pc' = "idle"
  BY <1>3 DEF DelEdit, writer
<1>4. GetConflicts => UNCHANGED <<currStep, cont, base, kept>> /\ pc' = "idle"
  BY DEF GetConflicts, writer
<1>5. StepCalled => UNCHANGED <<currStep, cont, base, kept>> /\ pc' = "applying"
  BY DEF StepCalled, writer, editor
<1>6. StepPastEnd => UNCHANGED <<currStep, cont, base, kept>> /\ pc' = "undefined"
  BY DEF StepPastEnd, writer, editor
<1>7. CASE \/ \E edit \in Candidates : Queue(edit)
           \/ \E id \in 1..nextId : DelEdit(id)
           \/ GetConflicts \/ StepCalled \/ StepPastEnd
  <2>1. UNCHANGED <<currStep, cont, base, kept>> /\ pc' # "saving"
    BY <1>2, <1>3, <1>4, <1>5, <1>6, <1>7
  <2>2. ~FirstPass'
    <3>1. pc' \in {"idle", "undefined"} \/ "step" \in trouble'
      BY <1>2, <1>3, <1>4, <1>6, <1>7 DEF StepCalled
    <3> QED
      BY <3>1 DEF FirstPass
  <2> QED
    BY <2>1, <2>2 DEF BackupInv, Marking
<1>8. CASE Reset
  <2>1. base' = cont' /\ pc' = "idle"
    BY <1>8 DEF Reset
  <2> QED
    BY <2>1 DEF BackupInv, FirstPass
<1>9. ASSUME NEW final \in Finals, Apply(final)
      PROVE  BackupInv'
  <2>1. UNCHANGED <<currStep, cont, base>> /\ ~Marking
    BY <1>1, <1>9 DEF Apply, writer
  <2>2. pc' = "applying"
    BY <1>9, ApplyShape
  <2>3. FirstPass' => currStep' = 0
    BY <1>9, PassBegins
  <2>4. currStep' = 0 => cont' = base'
    BY <2>1 DEF BackupInv
  <2> QED
    BY <2>2, <2>3, <2>4 DEF BackupInv
<1>10. CASE Iteration
  <2>1. /\ pc = "applying" /\ currStep \in Nat /\ currStep' = currStep + 1
        /\ ops' = ops /\ base' = base /\ trouble \subseteq trouble'
        /\ currStep + 1 \in DOMAIN ops /\ DOMAIN ops = 1..Len(ops) /\ Len(ops) \in Nat
    <3>1. MaxSteps \in Nat
      BY BoundsAssumption
    <3> QED
      BY <1>10, <3>1, Iterated
  <2>2. currStep' # 0 /\ currStep' > 0
    BY <2>1
  <2>3. ASSUME FirstPass', ~Marking'
        PROVE  /\ (\A i \in 1..currStep' : ops'[i].op = "BACKUP") => cont' = base'
               /\ InBatch("BACKUP")' /\ "backup" \notin trouble' /\ currStep' > 0
                    => base' \in backups'
    <3>1. FirstPass /\ Passing /\ ~Marking
      <4>1. FirstPass
        BY <1>10, <2>3, IterationPass
      <4>2. pc' \in {"applying", "saving"}
        BY <2>3 DEF FirstPass
      <4>3. kept' = kept
        BY <1>10, <4>2, Iterated
      <4> QED
        BY <2>3, <4>1, <4>3 DEF FirstPass, Passing, Marking
    <3>2. /\ (\A i \in 1..currStep : ops[i].op = "BACKUP") => cont = base
          /\ InBatch("BACKUP") /\ "backup" \notin trouble /\ currStep > 0 => base \in backups
      BY <3>1 DEF BackupInv
    <3>3. Edit.op = ops[currStep + 1].op
      BY DEF Edit
    <3>4. Edit.op = "BACKUP" => StepBackup
      BY <1>10 DEF Iteration, TextStep, StopStep, StepValidate, StepPrint, StepSave,
                   Stepping, Iterating, TextOps, Splices, RowOps, Prints
    <3>5. ASSUME \A i \in 1..currStep' : ops'[i].op = "BACKUP"
          PROVE  cont' = base'
      <4>1. \A i \in 1..currStep : i \in 1..currStep'
        BY <2>1
      <4>2. \A i \in 1..currStep : ops[i].op = "BACKUP"
        BY <2>1, <3>5, <4>1
      <4>3. currStep' \in 1..currStep'
        BY <2>1
      <4>4. ops'[currStep'].op = "BACKUP"
        BY <3>5, <4>3
      <4>5. Edit.op = "BACKUP"
        BY <2>1, <3>3, <4>4
      <4>6. cont' = cont
        BY <3>4, <4>5 DEF StepBackup
      <4> QED
        BY <2>1, <3>2, <4>2, <4>6
    <3>6. ASSUME InBatch("BACKUP")', "backup" \notin trouble'
          PROVE  base' \in backups'
      <4>1. InBatch("BACKUP") /\ "backup" \notin trouble
        BY <2>1, <3>6 DEF InBatch
      <4>2. backups \subseteq backups'
        BY <1>10 DEF Iteration, TextStep, StopStep, StepValidate, StepPrint, StepBackup, StepSave,
                     files
      <4>3. CASE currStep > 0
        BY <2>1, <3>2, <4>1, <4>2, <4>3
      <4>4. CASE currStep = 0
        <5>1. PICK k \in DOMAIN ops : ops[k].op = "BACKUP"
          BY <4>1 DEF InBatch
        <5>2. 1 \in 1..k
          BY <2>1
        <5>3. ops[1].op = "BACKUP"
          BY <3>1, <5>1, <5>2, BackupsFirst
        <5>4. currStep + 1 = 1
          BY <4>4
        <5>5. StepBackup
          BY <3>3, <3>4, <5>3, <5>4
        <5>6. cont = base
          BY <3>1, <4>4 DEF BackupInv
        <5>7. backups' = backups \cup {cont}
          BY <3>6, <5>5 DEF StepBackup
        <5> QED
          BY <2>1, <5>6, <5>7
      <4> QED
        BY <2>1, <4>3, <4>4
    <3> QED
      BY <3>5, <3>6
  <2> QED
    BY <2>2, <2>3 DEF BackupInv
<1>11. CASE SaveWrites
  <2>1. /\ UNCHANGED <<ops, currStep, cont, base, kept, backups, left>>
        /\ trouble \subseteq trouble' /\ pc = "saving" /\ pc' = "applying"
    BY <1>11 DEF SaveWrites, editor
  <2>2. FirstPass' => FirstPass
    BY <2>1 DEF FirstPass
  <2> QED
    BY <2>1, <2>2 DEF BackupInv, Marking, InBatch
<1>12. CASE ApplyReturns
  <2>1. /\ UNCHANGED <<currStep, cont, base>> /\ pc' = "applied" /\ ~Marking
    BY <1>1, <1>12 DEF ApplyReturns, editor, writer, Marking
  <2> QED
    BY <2>1 DEF BackupInv, FirstPass
<1>13. CASE MarkErrors
  <2>1. Marking'
    BY <1>13 DEF MarkErrors, Marking
  <2>2. pc' = "applying"
    BY <1>13, MarkErrorsShape
  <2> QED
    BY <2>1, <2>2 DEF BackupInv
<1>14. CASE MarkErrorsReturns
  <2>1. currStep' = kept.currStep /\ pc' = "applied" /\ Marking
    BY <1>14 DEF MarkErrorsReturns, Marking
  <2>2. currStep' # 0
    BY <2>1, BoundsAssumption DEF QueueInv
  <2> QED
    BY <2>1, <2>2 DEF BackupInv, FirstPass
<1> QED
  BY <1>7, <1>8, <1>9, <1>10, <1>11, <1>12, <1>13, <1>14, StepForms DEF Next, Call, Other

\* An iteration that goes on: what was executed was executed before, or now.
LEMMA DoneStep ==
  ASSUME TypeOK, QueueInv, Iteration, NEW op
  PROVE  /\ Done(op)' <=> Done(op) \/ Edit.op = op
         /\ Done(op) => \E i \in DOMAIN ops : ops[i].op = op /\ i < currStep + 1
<1>1. /\ ops' = ops /\ currStep' = currStep + 1 /\ currStep \in 0..Len(ops) - 1
      /\ Len(ops) \in Nat /\ DOMAIN ops = 1..Len(ops)
  <2>1. MaxSteps \in Nat
    BY BoundsAssumption
  <2> QED
    BY <2>1, Iterated
<1>2. Edit.op = ops[currStep + 1].op
  BY DEF Edit
<1>3. Done(op)' <=> \E i \in 1..currStep + 1 : i <= Len(ops) /\ ops[i].op = op
  BY <1>1 DEF Done
<1>4. \A i \in 1..currStep + 1 : i \in 1..currStep \/ i = currStep + 1
  BY <1>1
<1>5. currStep + 1 \in 1..currStep + 1 /\ currStep + 1 <= Len(ops)
  BY <1>1
<1>6. \A i \in 1..currStep : i \in 1..currStep + 1 /\ i \in DOMAIN ops /\ i < currStep + 1
  BY <1>1
<1>7. Done(op)' <=> Done(op) \/ Edit.op = op
  BY <1>2, <1>3, <1>4, <1>5, <1>6 DEF Done
<1> QED
  BY <1>6, <1>7 DEF Done

\* Nothing was executed when a pass begins.
LEMMA NoneDone ==
  ASSUME NEW op, currStep' = 0
  PROVE  ~Done(op)'
BY DEF Done

LEMMA ValidStep ==
  ASSUME TypeOK, QueueInv, MarksInv, PassInv, ValidInv, Next
  PROVE  ValidInv'
<1> SUFFICES ASSUME FirstPass', Done("VALIDATE_CST")', exact', errors' = {}
             PROVE  Valid(cont')
  BY DEF ValidInv
<1>1. exact \in BOOLEAN
  BY DEF TypeOK
<1>2. ~(\E final \in Finals : Apply(final)) /\ ~MarkErrors
  BY PassBegins, NoneDone
<1>3. Iteration \/ SaveWrites
  BY <1>2, NotPassing
<1>4. CASE SaveWrites
  <2>1. /\ UNCHANGED <<ops, currStep, errors, cont, exact, left>>
        /\ trouble \subseteq trouble' /\ pc = "saving"
    BY <1>4 DEF SaveWrites, editor
  <2>2. FirstPass
    BY <2>1 DEF FirstPass
  <2>3. Done("VALIDATE_CST") /\ exact /\ errors = {}
    BY <2>1 DEF Done
  <2> QED
    BY <2>1, <2>2, <2>3 DEF ValidInv
<1>5. CASE Iteration
  <2>1. FirstPass /\ Passing
    BY <1>5, IterationPass DEF FirstPass, Passing
  <2>2. errors = {}
    BY <1>5, Iterated
  <2>3. CASE StepValidate
    <3>1. cont' = cont /\ exact' = exact
      BY <2>3 DEF StepValidate, writer
    <3>2. ~Valid(cont) => errors' = errors \cup {[e |-> "CST_ERROR"]}
      <4>1. exact
        BY <3>1
      <4> QED
        BY <2>3, <4>1 DEF StepValidate
    <3> QED
      BY <3>1, <3>2
  <2>4. CASE ~StepValidate
    <3>1. Edit.op # "VALIDATE_CST" \/ StopStep
      BY <1>5, <2>4 DEF Iteration, TextStep, StopStep, StepPrint, StepBackup, StepSave,
                        Stepping, Iterating, TextOps, Splices, RowOps, Prints
    <3>2. ~StopStep
      BY DEF StopStep, FirstPass
    <3>3. Done("VALIDATE_CST")
      BY <1>5, <3>1, <3>2, DoneStep
    <3>4. PICK i \in DOMAIN ops : ops[i].op = "VALIDATE_CST" /\ i < currStep + 1
      BY <1>5, <3>3, DoneStep
    <3>5. currStep + 1 \in DOMAIN ops /\ Edit.op = ops[currStep + 1].op
      BY <1>5, Iterated DEF Edit
    <3>6. Edit.op \notin TextOps
      BY <2>1, <3>4, <3>5, NoTextAfterCheck
    <3>7. ~TextStep
      BY <3>6 DEF TextStep, Stepping, Iterating
    <3>8. cont' = cont /\ exact' = exact
      BY <1>5, <2>4, <3>2, <3>7 DEF Iteration, StepPrint, StepBackup, StepSave, writer
    <3>9. exact
      BY <3>8
    <3> QED
      BY <2>1, <2>2, <3>3, <3>8, <3>9 DEF ValidInv
  <2> QED
    BY <2>3, <2>4
<1> QED
  BY <1>3, <1>4, <1>5

\* At the end of a first pass with a SAVE, the SAVE was executed.
LEMMA SaveDone ==
  ASSUME TypeOK, QueueInv, PassInv, pc = "applying", left = 0, "step" \notin trouble,
         InBatch("SAVE")
  PROVE  FirstPass /\ Done("SAVE")
<1>1. FirstPass
  BY DEF PassInv, Passing
<1>2. Len(ops) \in Nat /\ DOMAIN ops = 1..Len(ops) /\ currStep \in Nat
  BY QueueType, BoundsAssumption DEF QueueInv, TypeOK
<1>3. currStep = Len(ops)
  BY <1>1, <1>2 DEF FirstPass
<1> QED
  BY <1>1, <1>2, <1>3 DEF InBatch, Done

LEMMA SaveStep ==
  ASSUME TypeOK, QueueInv, MarksInv, PassInv, BackupInv, SaveInv, Next
  PROVE  SaveInv'
<1>1. dirty \in BOOLEAN
  BY DEF TypeOK
<1>2. ASSUME FirstPass, trouble \subseteq {"marks"}
      PROVE  /\ cont # base /\ ~dirty => disk = cont
             /\ pc = "applying" /\ Done("SAVE") => ~dirty
             /\ pc = "saving" => dirty
  BY <1>2 DEF SaveInv
<1>3. ASSUME FirstPass', trouble' \subseteq {"marks"}
      PROVE  /\ cont' # base' /\ ~dirty' => disk' = cont'
             /\ pc' = "applying" /\ Done("SAVE")' => ~dirty'
             /\ pc' = "saving" => dirty'
  <2>1. ASSUME NEW final \in Finals, Apply(final)
        PROVE  cont' = base' /\ pc' = "applying" /\ ~Done("SAVE")'
    <3>1. currStep' = 0 /\ pc' = "applying" /\ ~Done("SAVE")'
      BY <1>3, <2>1, PassBegins, NoneDone
    <3>2. UNCHANGED <<currStep, cont, base>>
      BY <2>1 DEF Apply, writer
    <3>3. ~Marking
      BY <2>1 DEF Apply, MarksInv, Marking, Outside
    <3> QED
      BY <3>1, <3>2, <3>3 DEF BackupInv
  <2>2. CASE MarkErrors
    <3>1. currStep' = 0 /\ pc' = "applying" /\ ~Done("SAVE")'
      BY <1>3, <2>2, PassBegins, NoneDone
    <3>2. /\ pc = "applying" /\ left = 0 /\ UNCHANGED <<cont, base, disk, dirty>>
          /\ trouble' = trouble \cup {"marks"}
      BY <2>2 DEF MarkErrors, writer, files
    <3>3. FirstPass
      BY <1>3, <3>2 DEF PassInv, Passing
    <3>4. trouble \subseteq {"marks"}
      BY <1>3, <3>2
    <3> QED
      BY <1>2, <3>1, <3>2, <3>3, <3>4
  <2>3. CASE SaveWrites
    <3>1. /\ UNCHANGED <<cont, base>> /\ pc' = "applying" /\ "save" \notin trouble'
      BY <1>3, <2>3 DEF SaveWrites
    <3>2. disk' = cont /\ dirty' = FALSE
      BY <2>3, <3>1 DEF SaveWrites
    <3> QED
      BY <3>1, <3>2
  <2>4. CASE Iteration
    <3>1. /\ pc = "applying" /\ ops' = ops /\ base' = base
          /\ currStep + 1 \in DOMAIN ops
          /\ trouble \subseteq trouble' /\ trouble \subseteq {"marks"}
          /\ Edit.op = ops[currStep + 1].op
      BY <1>3, <2>4, Iterated DEF Edit
    <3>2. FirstPass /\ Passing
      BY <2>4, <3>1, IterationPass, <1>3 DEF FirstPass, Passing
    <3>3. /\ cont # base /\ ~dirty => disk = cont
          /\ Done("SAVE") => ~dirty
      BY <1>2, <3>1, <3>2
    <3>4. Done("SAVE") => Edit.op \in {"SAVE", "WRITE_TO"}
      <4> SUFFICES ASSUME Done("SAVE")
                   PROVE  Edit.op \in {"SAVE", "WRITE_TO"}
        OBVIOUS
      <4>1. PICK i \in DOMAIN ops : ops[i].op = "SAVE" /\ i < currStep + 1
        BY <2>4, DoneStep
      <4> QED
        BY <3>1, <3>2, <4>1, SavesLast
    <3>5. Done("SAVE")' <=> Done("SAVE") \/ Edit.op = "SAVE"
      BY <2>4, DoneStep
    <3>6. CASE TextStep
      <4>1. Edit.op \in TextOps
        BY <3>6 DEF TextStep, Stepping, Iterating
      <4>2. ~Done("SAVE")'
        BY <3>4, <3>5, <4>1 DEF TextOps, Splices, RowOps
      <4>3. pc' = "applying" /\ disk' = disk
        BY <3>1, <3>6 DEF TextStep, files
      <4>4. dirty' = TRUE \/ (cont' = cont /\ dirty' = dirty)
        BY <3>6 DEF TextStep
      <4> QED
        BY <3>1, <3>3, <4>2, <4>3, <4>4
    <3>7. ~StopStep
      BY <1>3 DEF StopStep, FirstPass
    <3>8. CASE StepValidate \/ StepPrint
      <4>1. UNCHANGED <<cont, disk, dirty>> /\ Edit.op # "SAVE"
        BY <3>8 DEF StepValidate, StepPrint, Stepping, Iterating, Prints, writer, files
      <4>2. pc' # "saving"
        BY <3>1, <3>8 DEF StepValidate, StepPrint
      <4> QED
        BY <3>1, <3>3, <3>5, <4>1, <4>2
    <3>9. CASE StepBackup
      <4>1. /\ Edit.op = "BACKUP" /\ cont' = cont /\ pc' = "applying"
        BY <3>1, <3>9 DEF StepBackup, Stepping, Iterating
      <4>2. cont = base
        <5>1. ~Marking
          BY <3>1, <4>1 DEF MarksInv
        <5>2. \A i \in 1..currStep + 1 : ops[i].op = "BACKUP"
          BY <3>1, <3>2, <4>1, BackupsFirst
        <5>3. \A i \in 1..currStep : i \in 1..currStep + 1
          BY BoundsAssumption DEF TypeOK
        <5> QED
          BY <3>2, <5>1, <5>2, <5>3 DEF BackupInv
      <4>3. ~Done("SAVE")'
        BY <3>4, <3>5, <4>1
      <4> QED
        BY <3>1, <4>1, <4>2, <4>3
    <3>10. CASE StepSave
      <4>1. UNCHANGED <<cont, dirty>>
        BY <3>10 DEF StepSave, writer
      <4>2. CASE Saves
        <5>1. pc' = "saving" /\ dirty
          BY <3>10, <4>2 DEF StepSave, Saves
        <5> QED
          BY <4>1, <5>1
      <4>3. CASE ~Saves
        <5>1. pc' = "applying" /\ disk' = disk
          BY <3>1, <3>10, <4>3 DEF StepSave
        <5>2. Edit.op = "SAVE" => ~dirty
          BY <4>3 DEF Saves
        <5> QED
          BY <3>1, <3>3, <3>5, <4>1, <5>1, <5>2
      <4> QED
        BY <4>2, <4>3
    <3> QED
      BY <2>4, <3>6, <3>7, <3>8, <3>9, <3>10 DEF Iteration
  <2> QED
    BY <1>3, <2>1, <2>2, <2>3, <2>4, NotPassing
<1>4. SaveTakesEffect'
  <2> SUFFICES ASSUME pc' = "applied", trouble' \subseteq {"marks"}, InBatch("SAVE")',
                      cont' # base'
               PROVE  disk' = cont' /\ ~dirty'
    BY DEF SaveTakesEffect
  <2>1. ApplyReturns \/ MarkErrorsReturns
    <3>1. ~Iteration
      BY Iterated
    <3>2. ~(\E final \in Finals : Apply(final)) /\ ~MarkErrors
      BY DEF Apply, MarkErrors, Start
    <3>3. ~StepPastEnd /\ ~SaveWrites
      BY DEF StepPastEnd, SaveWrites
    <3>4. ~Reset /\ ~GetConflicts /\ ~StepCalled
      BY DEF Reset, GetConflicts, StepCalled
    <3>5. /\ \A edit \in Candidates : ~Queue(edit)
          /\ \A id \in 1..nextId : ~DelEdit(id)
      BY DEF Queue, DelEdit
    <3> QED
      BY <3>1, <3>2, <3>3, <3>4, <3>5, StepForms DEF Next, Call, Other
  <2>2. /\ UNCHANGED <<cont, base, disk, dirty, trouble>> /\ pc = "applying" /\ left = 0
    BY <2>1 DEF ApplyReturns, MarkErrorsReturns, writer, files
  <2>3. InBatch("SAVE")
    <3>1. CASE ApplyReturns
      BY <3>1 DEF ApplyReturns, editor, InBatch
    <3>2. CASE MarkErrorsReturns
      BY <3>2 DEF MarkErrorsReturns, MarksInv, Marking
    <3> QED
      BY <2>1, <3>1, <3>2
  <2>4. trouble \subseteq {"marks"} /\ "step" \notin trouble
    BY <2>2
  <2>5. FirstPass /\ Done("SAVE")
    BY <2>2, <2>3, <2>4, SaveDone
  <2> QED
    BY <1>2, <2>2, <2>4, <2>5
<1> QED
  BY <1>3, <1>4 DEF SaveInv

-----------------------------------------------------------------------------
(* The theorems *)

LEMMA InitInv ==
  ASSUME Init
  PROVE  IInv
<1>1. /\ ops = <<>> /\ currStep = 0 /\ nextId = 0 /\ errors = {} /\ dirty = FALSE /\ exact = TRUE
      /\ cont = base /\ pc = "idle" /\ left = 0 /\ trouble = {} /\ kept = Outside
      /\ batches = 1 /\ calls = 0
  BY DEF Init
<1>2. /\ MaxSteps \in Nat /\ MaxCalls \in Nat /\ MaxBatches \in Nat \ {0}
  BY BoundsAssumption
<1>3. Len(<<>>) = 0 /\ DOMAIN <<>> = {} /\ <<>> \in Seq(Range(<<>>))
  BY EmptySeq
<1>4. Outside.during = "none" /\ Outside # First
  BY DEF Outside, First
<1>5. TypeOK
  <2>1. currStep \in 0..MaxSteps /\ left \in 0..MaxSteps /\ calls \in 0..MaxCalls
        /\ batches \in 1..MaxBatches /\ Len(ops) <= MaxSteps
    BY <1>1, <1>2, <1>3
  <2> QED
    BY <1>1, <1>3, <2>1 DEF TypeOK
<1>6. QueueInv
  BY <1>1, <1>2, <1>3, <1>4, FS_EmptySet DEF QueueInv, IsQueue, AreErrors, Marking
<1>7. MarksInv
  BY <1>1, <1>4 DEF MarksInv, Marking
<1>8. PassInv /\ ConflictInv /\ ValidInv
  BY <1>1, <1>4 DEF PassInv, Passing, ConflictInv, Marking, ValidInv, FirstPass
<1>9. BackupInv /\ SaveInv
  BY <1>1 DEF BackupInv, SaveInv, SaveTakesEffect, FirstPass
<1> QED
  BY <1>5, <1>6, <1>7, <1>8, <1>9 DEF IInv

LEMMA StutterInv ==
  ASSUME IInv, UNCHANGED vars
  PROVE  IInv'
<1>1. /\ UNCHANGED <<ops, currStep, nextId, errors>> /\ UNCHANGED <<cont, dirty, exact, disk, backups>>
      /\ UNCHANGED <<base, pc, left, trouble, kept, batches, calls>>
  BY DEF vars, editor, writer, files, bounds
<1>2. TypeOK' /\ QueueInv'
  BY <1>1 DEF IInv, TypeOK, QueueInv, Marking
<1>3. MarksInv' /\ PassInv' /\ ConflictInv'
  BY <1>1 DEF IInv, MarksInv, PassInv, ConflictInv, Marking, MayCall, InBatch, Passing, FirstPass
<1>4. BackupInv'
  BY <1>1 DEF IInv, BackupInv, Marking, FirstPass, InBatch
<1>5. SaveInv'
  BY <1>1 DEF IInv, SaveInv, SaveTakesEffect, FirstPass, Done, InBatch
<1>6. ValidInv'
  BY <1>1 DEF IInv, ValidInv, FirstPass, Done
<1> QED
  BY <1>2, <1>3, <1>4, <1>5, <1>6 DEF IInv

\* The inductive invariant holds in every reachable state: of the queue and of
\* apply's loop over it, whatever the caller queues, cancels and applies.
THEOREM Invariance == Spec => []IInv
<1>1. Init => IInv
  BY InitInv
<1>2. IInv /\ [Next]_vars => IInv'
  <2> SUFFICES ASSUME IInv, [Next]_vars
               PROVE  IInv'
    OBVIOUS
  <2>1. CASE Next
    BY <2>1, TypeStep, QueueStep, MarksStep, PassStep, ConflictStep, BackupStep, SaveStep,
       ValidStep DEF IInv
  <2>2. CASE UNCHANGED vars
    BY <2>2, StutterInv
  <2> QED
    BY <2>1, <2>2
<1> QED
  BY <1>1, <1>2, PTL DEF Spec

\* Every variable of the editor and of its writer has its type.
THEOREM TypeIsKept == Spec => []TypeOK
<1>1. IInv => TypeOK
  BY DEF IInv
<1> QED
  BY <1>1, Invariance, PTL

\* getConflictErrors, whose inner loop breaks at the first edit that begins at
\* or after the end of the outer one, reports every pair of edits that overlap,
\* and reports no other pair.
THEOREM ConflictsAreExact == Spec => []ConflictsExact
<1>1. ASSUME IInv
      PROVE  ConflictsExact
  <2> SUFFICES ASSUME pc \in {"applying", "saving", "applied"}, "step" \notin trouble
               PROVE  /\ Named(ops, errors)
                      /\ \A err \in errors : err.e = "CONFLICT" => Overlap(err.edit, err.other)
    BY DEF ConflictsExact
  <2>1. Named(ops, errors)
    BY <1>1 DEF IInv, ConflictInv
  <2>2. \A err \in errors : err.e = "CONFLICT" => Overlap(err.edit, err.other)
    BY <1>1 DEF IInv, QueueInv, AreErrors, IsError
  <2> QED
    BY <2>1, <2>2
<1> QED
  BY <1>1, Invariance, PTL

\* When apply returns from a batch that changed the text and saves it, and
\* nothing went wrong, the new text is in the file: the kind SAVE is executed
\* after all edits, though a BACKUP before them claims that all is saved.
THEOREM SaveDoesTakeEffect == Spec => []SaveTakesEffect
<1>1. IInv => SaveTakesEffect
  BY DEF IInv, SaveInv
<1> QED
  BY <1>1, Invariance, PTL

\* While a save has the file truncated and not yet written, a batch with a
\* BACKUP has the text it began with in a backup file.
THEOREM BackupDoesRecover == Spec => []BackupRecovers
<1>1. ASSUME IInv
      PROVE  BackupRecovers
  <2> SUFFICES ASSUME pc = "saving", FirstPass, InBatch("BACKUP"), "backup" \notin trouble
               PROVE  base \in backups
    BY DEF BackupRecovers
  <2>1. ~Marking
    BY <1>1 DEF IInv, MarksInv, InBatch
  <2> QED
    BY <1>1, <2>1 DEF IInv, BackupInv
<1> QED
  BY <1>1, Invariance, PTL

\* SAVE_VALID_ONLY starts to write the file only when the tree was found free
\* of errors, and the text has not changed since.
THEOREM ValidOnlyDoesWriteValid == Spec => ValidOnlyWritesValid
<1> DEFINE Writes == FirstPass /\ pc = "applying" /\ pc' = "saving" /\ Edit.op = "SAVE_VALID_ONLY"
                       /\ InBatch("VALIDATE_CST") /\ exact => Valid(cont)
<1>1. IInv /\ [Next]_vars => [Writes]_vars
  <2> SUFFICES ASSUME IInv, Next, FirstPass, pc = "applying", pc' = "saving",
                      Edit.op = "SAVE_VALID_ONLY", InBatch("VALIDATE_CST"), exact
               PROVE  Valid(cont)
    OBVIOUS
  <2>1. TypeOK /\ QueueInv /\ PassInv /\ ValidInv /\ Passing
    BY DEF IInv, FirstPass, Passing
  <2>2. Iteration
    <3>1. ASSUME NEW final \in Finals, Apply(final)
          PROVE  FALSE
      BY <3>1 DEF Apply, MayCall
    <3>2. ~(\E edit \in Candidates : Queue(edit)) /\ ~(\E id \in 1..nextId : DelEdit(id))
      BY DEF Queue, DelEdit
    <3>3. ~Reset /\ ~GetConflicts /\ ~StepCalled
      BY DEF Reset, GetConflicts, StepCalled
    <3>4. ~Other
      BY DEF Other, StepPastEnd, SaveWrites, ApplyReturns, MarkErrors, Start, MarkErrorsReturns
    <3> QED
      BY <2>1, <3>1, <3>2, <3>3, <3>4, StepForms DEF Next, Call
  <2>3. StepSave
    BY <2>2 DEF Iteration, TextStep, StopStep, StepValidate, StepPrint, StepBackup
  <2>4. errors = {}
    BY <2>3 DEF StepSave, Saves
  <2>5. /\ currStep + 1 \in DOMAIN ops /\ DOMAIN ops = 1..Len(ops) /\ Len(ops) \in Nat
        /\ currStep \in Nat /\ ops[currStep + 1].op = "SAVE_VALID_ONLY"
    <3>1. MaxSteps \in Nat
      BY BoundsAssumption
    <3> QED
      BY <2>1, <2>2, <3>1, Iterated DEF Edit
  <2>6. PICK i \in DOMAIN ops : ops[i].op = "VALIDATE_CST"
    BY DEF InBatch
  <2>7. ~(currStep + 1 < i)
    <3> SUFFICES ASSUME currStep + 1 < i
                 PROVE  FALSE
      OBVIOUS
    <3>1. Rank("VALIDATE_CST") <= Rank("SAVE_VALID_ONLY")
      BY <2>1, <2>5, <2>6, InOrder
    <3>2. Rank("VALIDATE_CST") > Rank("SAVE_VALID_ONLY")
      BY RankOrder
    <3>3. Rank("VALIDATE_CST") \in 1..16 /\ Rank("SAVE_VALID_ONLY") \in 1..16
      BY Kinds, RankOrder
    <3> QED
      BY <3>1, <3>2, <3>3
  <2>8. i # currStep + 1
    BY <2>5, <2>6
  <2>9. i \in 1..currStep /\ i <= Len(ops)
    BY <2>5, <2>6, <2>7, <2>8
  <2>10. Done("VALIDATE_CST")
    BY <2>6, <2>9 DEF Done
  <2> QED
    BY <2>1, <2>4, <2>10 DEF ValidInv
<1> QED
  BY <1>1, Invariance, PTL DEF Spec, ValidOnlyWritesValid

-----------------------------------------------------------------------------
(* Induction *)

\* A set of naturals has a least member; from that follows induction, for a set
\* instead of a predicate.
LEMMA LeastNatural ==
  ASSUME NEW T, T \subseteq Nat, T # {}
  PROVE  \E m \in T : \A k \in T : m <= k
<1> DEFINE R == OpToRel(<, Nat)
<1>1. IsWellFoundedOn(R, Nat)
  BY NatLessThanWellFounded
<1>2. \A x, y \in Nat : x < y => <<x, y>> \in R
  BY DEF OpToRel
<1> HIDE DEF R
<1>3. PICK m \in T : \A k \in T : ~(<<k, m>> \in R)
  BY <1>1, WFMin
<1>4. \A k \in T : m <= k
  <2> SUFFICES ASSUME NEW k \in T
               PROVE  m <= k
    OBVIOUS
  <2>1. k \in Nat /\ m \in Nat /\ ~(k < m)
    BY <1>2, <1>3
  <2> QED
    BY <2>1
<1> QED
  BY <1>4

LEMMA Induction ==
  ASSUME NEW n \in Nat, NEW T, 0 \in T, \A k \in 0..n-1 : k \in T => k + 1 \in T
  PROVE  \A k \in 0..n : k \in T
<1> DEFINE U == {k \in 0..n : k \notin T}
<1> SUFFICES ASSUME U # {} PROVE FALSE
  OBVIOUS
<1>1. U \subseteq Nat
  OBVIOUS
<1>2. PICK m \in U : \A k \in U : m <= k
  BY <1>1, LeastNatural
<1>3. m # 0
  BY <1>2
<1>4. m - 1 \in 0..n-1 /\ m-1 \notin U
  BY <1>2, <1>3
<1> QED
  BY <1>2, <1>4

\* FlattenSeq joins its pieces one after the other.
LEMMA FlattenFacts ==
  ASSUME NEW S, NEW q \in Seq(Seq(S)), Len(q) > 0
  PROVE  \E f \in [1..Len(q) -> Seq(S)] :
           /\ FlattenSeq(q) = f[Len(q)] /\ f[1] = q[1]
           /\ \A i \in 2..Len(q) : f[i] = f[i - 1] \o q[i]
<1> DEFINE n == Len(q)
           Is(g, k) == \A i \in 1..k : g[i] = IF i = 1 THEN q[1] ELSE g[i - 1] \o q[i]
           Has(k) == \E g \in [1..k -> Seq(S)] : Is(g, k)
           T == {k \in 0..n : Has(k)}
<1>1. n \in Nat /\ \A i \in 1..n : q[i] \in Seq(S)
  OBVIOUS
<1>2. 0 \in T
  <2>1. Is([i \in 1..0 |-> <<>>], 0) /\ [i \in 1..0 |-> <<>>] \in [1..0 -> Seq(S)]
    OBVIOUS
  <2>2. Has(0)
    BY <2>1
  <2> HIDE DEF Has
  <2> QED
    BY <1>1, <2>2
<1>3. ASSUME NEW k \in 0..n - 1, k \in T
      PROVE  k + 1 \in T
  <2>1. PICK g \in [1..k -> Seq(S)] : Is(g, k)
    BY <1>3
  <2> DEFINE last == IF k = 0 THEN q[1] ELSE g[k] \o q[k + 1]
             h == [i \in 1..k + 1 |-> IF i <= k THEN g[i] ELSE last]
  <2>2. k \in Nat /\ k + 1 \in 1..n
    BY <1>1
  <2>3. last \in Seq(S)
    BY <1>1, <2>1, <2>2
  <2> HIDE DEF last
  <2>4. h \in [1..k + 1 -> Seq(S)]
    BY <2>1, <2>2, <2>3
  <2>5. \A i \in 1..k : h[i] = g[i]
    BY <2>2
  <2>6. h[k + 1] = last
    BY <2>2
  <2> HIDE DEF h
  <2>7. ASSUME NEW i \in 1..k + 1
        PROVE  h[i] = IF i = 1 THEN q[1] ELSE h[i - 1] \o q[i]
    <3>1. CASE i = k + 1
      <4>1. CASE k = 0
        BY <2>6, <3>1, <4>1 DEF last
      <4>2. CASE k # 0
        <5>1. last = g[k] \o q[k + 1]
          BY <4>2 DEF last
        <5>2. i - 1 = k /\ i # 1 /\ k \in 1..k
          BY <2>2, <3>1, <4>2
        <5>3. h[i - 1] = g[k]
          BY <2>5, <5>2
        <5> QED
          BY <2>6, <3>1, <5>1, <5>2, <5>3
      <4> QED
        BY <4>1, <4>2
    <3>2. CASE i # k + 1
      <4>1. i \in 1..k /\ (i # 1 => i - 1 \in 1..k)
        BY <2>2, <3>2
      <4> QED
        BY <2>1, <2>5, <4>1
    <3> QED
      BY <3>1, <3>2
  <2>8. Has(k + 1)
    BY <2>4, <2>7
  <2> HIDE DEF Has
  <2>9. k + 1 \in 0..n
    BY <2>2
  <2> QED
    BY <2>8, <2>9
<1> HIDE DEF T
<1>4. n \in T
  <2>1. \A k \in 0..n : k \in T
    BY <1>1, <1>2, <1>3, Induction
  <2> QED
    BY <1>1, <2>1
<1>5. PICK g \in [1..n -> Seq(S)] : Is(g, n)
  BY <1>4 DEF T
<1> DEFINE F(f) == [i \in 1..Len(q) |-> IF i = 1 THEN q[i] ELSE f[i - 1] \o q[i]]
           flat == CHOOSE f : f = F(f)
<1>6. g = F(g)
  BY <1>5
<1>7. flat = F(flat)
  BY <1>6
<1>8. FlattenSeq(q) = flat[n]
  BY <1>1 DEF FlattenSeq
<1> HIDE DEF flat
<1>9. flat[1] = q[1] /\ \A i \in 2..n : flat[i] = flat[i - 1] \o q[i]
  <2>1. \A i \in 1..n : flat[i] = F(flat)[i]
    BY <1>7
  <2>2. F(flat)[1] = q[1]
    BY <1>1
  <2>3. ASSUME NEW i \in 2..n
        PROVE  F(flat)[i] = flat[i - 1] \o q[i] /\ i \in 1..n
    <3>1. i \in 1..Len(q) /\ i # 1
      BY <1>1
    <3> QED
      BY <3>1
  <2> HIDE DEF F
  <2>4. 1 \in 1..n
    BY <1>1
  <2> QED
    BY <2>1, <2>2, <2>3, <2>4
<1> DEFINE V == {k \in 0..n : k > 0 => flat[k] \in Seq(S)}
<1>10. 0 \in V
  BY <1>1
<1>11. ASSUME NEW k \in 0..n - 1, k \in V
       PROVE  k + 1 \in V
  <2>1. k + 1 \in 1..n /\ k \in Nat /\ k + 1 - 1 = k
    BY <1>1
  <2>2. q[k + 1] \in Seq(S)
    BY <1>1, <2>1
  <2>3. CASE k = 0
    <3>1. flat[k + 1] = q[k + 1]
      BY <1>9, <2>3
    <3> QED
      BY <2>1, <2>2, <3>1
  <2>4. CASE k # 0
    <3>0. k + 1 \in 2..n
      BY <1>1, <2>1, <2>4
    <3>1. flat[k + 1] = flat[k] \o q[k + 1]
      <4>1. PICK i \in 2..n : i = k + 1 /\ i - 1 = k
        BY <2>1, <3>0
      <4> QED
        BY <1>9, <4>1
    <3>2. flat[k] \in Seq(S)
      BY <1>11, <2>1, <2>4
    <3>3. flat[k + 1] \in Seq(S)
      BY <2>2, <3>1, <3>2
    <3> QED
      BY <2>1, <3>3
  <2> QED
    BY <2>3, <2>4
<1> HIDE DEF V
<1>12. \A k \in 0..n : k \in V
  BY <1>1, <1>10, <1>11, Induction
<1>13. flat \in [1..n -> Seq(S)]
  <2>1. \A k \in 1..n : flat[k] \in Seq(S)
    BY <1>1, <1>12 DEF V
  <2> QED
    BY <1>7, <2>1
<1> QED
  BY <1>8, <1>9, <1>13

LEMMA InductionFrom ==
  ASSUME NEW m \in Nat, NEW n \in Nat, NEW T, m \in T,
         \A k \in m..n - 1 : k \in T => k + 1 \in T
  PROVE  \A k \in m..n : k \in T
<1> DEFINE U == {k \in m..n : k \notin T}
<1> SUFFICES ASSUME U # {} PROVE FALSE
  OBVIOUS
<1>1. U \subseteq Nat
  OBVIOUS
<1>2. PICK l \in U : \A k \in U : l <= k
  BY <1>1, LeastNatural
<1>3. l # m
  BY <1>2
<1>4. l - 1 \in m..n - 1 /\ l - 1 \notin U
  BY <1>2, <1>3
<1> QED
  BY <1>2, <1>4

\* Sequences, how they are joined and how they begin, with names of their own,
\* so that a proof sees of them only what the lemmas say.
Strings(S) == Seq(S)
Cat(a, b) == a \o b
Upto(a, k) == SubSeq(a, 1, k)

LEMMA CatAssociative ==
  \A S : \A a, b, c \in Strings(S) : Cat(Cat(a, b), c) = Cat(a, Cat(b, c))
BY ConcatAssociative DEF Strings, Cat

LEMMA CatString ==
  \A S : \A a, b \in Strings(S) : Cat(a, b) \in Strings(S)
BY DEF Strings, Cat

LEMMA CatEmpty ==
  \A S : \A a \in Strings(S) : <<>> \in Strings(S) /\ Cat(a, <<>>) = a /\ Cat(<<>>, a) = a
BY ConcatEmptySeq DEF Strings, Cat

\* f[i] is the flattening of the first i of the n pieces of q.
Sums(S, n, q, f) ==
  /\ f \in [0..n -> Strings(S)] /\ f[0] = <<>> /\ f[n] = FlattenSeq(q)
  /\ \A i \in 1..n : f[i] = Cat(f[i - 1], q[i])

LEMMA FlattenSteps ==
  ASSUME NEW S, NEW n \in Nat \ {0}, NEW q \in [1..n -> Strings(S)]
  PROVE  \E f : Sums(S, n, q, f)
<1>1. q \in Seq(Seq(S)) /\ Len(q) = n
  <2>1. q \in Seq(Seq(S))
    BY IsASeq, SeqDef DEF Strings
  <2> QED
    BY <2>1, LenProperties DEF Strings
<1>2. PICK f \in [1..n -> Seq(S)] :
        /\ FlattenSeq(q) = f[n] /\ f[1] = q[1]
        /\ \A i \in 2..n : f[i] = f[i - 1] \o q[i]
  <2>1. \E f \in [1..Len(q) -> Seq(S)] :
          /\ FlattenSeq(q) = f[Len(q)] /\ f[1] = q[1]
          /\ \A i \in 2..Len(q) : f[i] = f[i - 1] \o q[i]
    <3>1. Len(q) > 0
      BY <1>1
    <3>2. q \in Seq(Seq(S))
      BY <1>1
    <3> QED
      BY <3>1, <3>2, FlattenFacts, Zenon
  <2> QED
    BY <1>1, <2>1
<1> DEFINE h == [i \in 0..n |-> IF i = 0 THEN <<>> ELSE f[i]]
<1>3. h \in [0..n -> Seq(S)]
  BY <1>2
<1>4. h[0] = <<>> /\ h[n] = f[n] /\ \A i \in 1..n : h[i] = f[i]
  OBVIOUS
<1> HIDE DEF h
<1>5. ASSUME NEW i \in 1..n
      PROVE  h[i] = h[i - 1] \o q[i]
  <2>1. q[i] \in Seq(S)
    BY DEF Strings
  <2>2. CASE i = 1
    <3>1. <<>> \o q[i] = q[i]
      BY <2>1
    <3>2. h[i - 1] = <<>>
      BY <1>4, <2>2
    <3> QED
      BY <1>2, <1>4, <2>2, <3>1, <3>2
  <2>3. CASE i # 1
    <3>1. i \in 2..n /\ i - 1 \in 1..n
      BY <2>3
    <3> QED
      BY <1>2, <1>4, <3>1
  <2> QED
    BY <2>2, <2>3
<1>6. Sums(S, n, q, h)
  BY <1>2, <1>3, <1>4, <1>5 DEF Sums, Strings, Cat
<1> QED
  BY <1>6

\* Pieces that are the characters of a text, up to some place
Spells(q, text, m) == m <= Len(text) /\ \A i \in 1..m : q[i] = <<text[i]>>

Spelling(S, n, q, f, text, m) ==
  text \in Strings(S) /\ n \in Nat /\ m \in 0..n /\ Sums(S, n, q, f) /\ Spells(q, text, m)

LEMMA SpellsText ==
  ASSUME NEW S, NEW n, NEW q, NEW f, NEW text, NEW m, Spelling(S, n, q, f, text, m)
  PROVE  f[m] = Upto(text, m)
<1>0. text \in Strings(S) /\ n \in Nat /\ m \in 0..n /\ Sums(S, n, q, f) /\ Spells(q, text, m)
  BY DEF Spelling
<1> DEFINE T == {k \in 0..m : f[k] = SubSeq(text, 1, k)}
<1>1. m \in Nat /\ m <= Len(text) /\ Len(text) \in Nat /\ text \in Seq(S)
  BY <1>0, LenProperties DEF Spells, Strings
<1>2. 0 \in T
  <2>1. SubSeq(text, 1, 0) = <<>>
    BY SubSeqEmpty
  <2>2. f[0] = <<>>
    BY <1>0 DEF Sums
  <2>3. 0 \in 0..m
    BY <1>1
  <2> QED
    BY <2>1, <2>2, <2>3
<1>3. ASSUME NEW k \in 0..m - 1, k \in T
      PROVE  k + 1 \in T
  <2>1. PICK i \in 1..n : i = k + 1 /\ i - 1 = k /\ i \in 1..m /\ i \in 1..Len(text)
    BY <1>0, <1>1
  <2>2. f[i] = Cat(f[i - 1], q[i])
    BY <1>0 DEF Sums
  <2>3. q[i] = <<text[i]>>
    BY <1>0, <2>1 DEF Spells
  <2>4. f[i] = SubSeq(text, 1, i - 1) \o <<text[i]>>
    BY <1>3, <2>1, <2>2, <2>3 DEF Cat
  <2>5. SubSeq(text, 1, i) = SubSeq(text, 1, i - 1) \o <<text[i]>>
    BY <1>1, <2>1, SubSeqRecursiveSecond
  <2> QED
    BY <2>1, <2>4, <2>5
<1> HIDE DEF T
<1>4. \A k \in 0..m : k \in T
  BY <1>1, <1>2, <1>3, Induction
<1>5. m \in T
  BY <1>1, <1>4
<1> QED
  BY <1>5 DEF T, Upto

-----------------------------------------------------------------------------
(* Texts and rows *)

\* The members of a finite set of naturals, counted from zero.
LEMMA Ranked ==
  ASSUME NEW S, S \subseteq Nat, IsFiniteSet(S), NEW row \in Nat, row < Cardinality(S)
  PROVE  \E o \in S : Cardinality({p \in S : p < o}) = row
<1> DEFINE Below(o) == {p \in S : p < o}
           T == {k \in 0..row : \E o \in S : Cardinality(Below(o)) = k}
<1>1. Cardinality(S) \in Nat
  BY FS_CardinalityType
<1>2. 0 \in T
  <2>1. S # {}
    BY <1>1, FS_EmptySet
  <2>2. PICK o \in S : \A p \in S : o <= p
    BY <2>1, LeastNatural
  <2>3. Below(o) = {}
    <3>1. ASSUME NEW p \in S
          PROVE  ~(p < o)
      <4>1. p \in Nat /\ o \in Nat /\ o <= p
        BY <2>2
      <4> QED
        BY <4>1
    <3> QED
      BY <3>1
  <2> QED
    BY <2>3, FS_EmptySet
<1>3. ASSUME NEW k \in 0..row - 1, k \in T
      PROVE  k + 1 \in T
  <2>1. PICK o \in S : Cardinality(Below(o)) = k
    BY <1>3
  <2> DEFINE B == Below(o)
             A == {p \in S : o < p}
  <2>2. IsFiniteSet(B) /\ o \notin B
    BY FS_Subset
  <2>3. IsFiniteSet(B \cup {o}) /\ Cardinality(B \cup {o}) = k + 1
    <3> HIDE DEF B
    <3> QED
      BY <2>2, <2>1, FS_AddElement DEF B
  <2>4. A # {}
    <3>1. A = {} => S = B \cup {o}
      <4>1. ASSUME NEW p \in S
            PROVE  p < o \/ p = o \/ o < p
        <5>1. p \in Nat /\ o \in Nat
          OBVIOUS
        <5> QED
          BY <5>1
      <4> QED
        BY <4>1
    <3>2. k + 1 <= row
      OBVIOUS
    <3> HIDE DEF A, B
    <3> QED
      BY <1>1, <2>3, <3>1, <3>2
  <2>5. PICK m \in A : \A p \in A : m <= p
    <3>1. A \subseteq Nat
      OBVIOUS
    <3> HIDE DEF A
    <3> QED
      BY <2>4, <3>1, LeastNatural
  <2>6. m \in S /\ Below(m) = B \cup {o}
    <3>1. m \in S /\ m \in Nat /\ o \in Nat /\ o < m
      OBVIOUS
    <3>2. ASSUME NEW p \in S
          PROVE  p < m <=> p < o \/ p = o
      <4>1. p \in Nat /\ (o < p => m <= p)
        BY <2>5
      <4> QED
        BY <3>1, <4>1
    <3> QED
      BY <3>1, <3>2
  <2>7. k + 1 \in 0..row
    OBVIOUS
  <2> HIDE DEF Below, B
  <2> QED
    BY <2>3, <2>6, <2>7
<1> HIDE DEF T
<1>4. row \in 0..row
  OBVIOUS
<1>5. row \in T
  BY <1>2, <1>3, <1>4, Induction
<1> QED
  BY <1>5 DEF T

\* A text has finitely many rows.
LEMMA Rows ==
  ASSUME NEW S, NEW text \in Strings(S)
  PROVE  /\ Len(text) \in Nat /\ RowOffsets(text) \subseteq 0..Len(text)
         /\ IsFiniteSet(RowOffsets(text)) /\ RowCount(text) \in Nat
<1>1. Len(text) \in Nat
  BY LenProperties DEF Strings
<1>2. RowOffsets(text) \subseteq 0..Len(text)
  BY <1>1 DEF RowOffsets
<1>3. IsFiniteSet(0..Len(text))
  BY <1>1, FS_Interval
<1>4. IsFiniteSet(RowOffsets(text))
  BY <1>2, <1>3, FS_Subset
<1>5. RowCount(text) \in Nat
  BY <1>4, FS_CardinalityType DEF RowCount
<1> QED
  BY <1>1, <1>2, <1>4, <1>5

\* A row that exists begins somewhere.
LEMMA RowBegins ==
  ASSUME NEW S, NEW text \in Strings(S), NEW row \in Nat, row < RowCount(text)
  PROVE  RowOffset(text, row) \in 0..Len(text)
<1>1. /\ RowOffsets(text) \subseteq 0..Len(text) /\ IsFiniteSet(RowOffsets(text))
      /\ RowOffsets(text) \subseteq Nat
  BY Rows
<1>2. \E o \in RowOffsets(text) : Cardinality({p \in RowOffsets(text) : p < o}) = row
  BY <1>1, Ranked DEF RowCount
<1>3. RowOffset(text, row) \in RowOffsets(text)
  BY <1>2 DEF RowOffset
<1> QED
  BY <1>1, <1>3

LEMMA SliceString ==
  ASSUME NEW S, NEW text \in Strings(S), NEW m \in Nat \ {0}, NEW n \in Int, n <= Len(text)
  PROVE  SubSeq(text, m, n) \in Strings(S)
<1>1. text \in Seq(S) /\ Len(text) \in Nat
  BY LenProperties DEF Strings
<1>2. CASE m <= n
  <2>1. m \in 1..Len(text) /\ n \in m..Len(text)
    BY <1>1, <1>2
  <2> QED
    BY <1>1, <2>1, SubSeqProperties DEF Strings
<1>3. CASE n < m
  <2>1. SubSeq(text, m, n) = <<>>
    BY <1>1, <1>3, SubSeqEmpty
  <2> QED
    BY <2>1, CatEmpty DEF Strings
<1> QED
  BY <1>2, <1>3

\* What is put into a text adds rows, if any.
LEMMA PutString ==
  ASSUME NEW S, NEW text \in Strings(S), NEW o \in 0..Len(text), NEW s \in Strings(S)
  PROVE  /\ PutAt(text, o, s) \in Strings(S)
         /\ RowCount(text) <= RowCount(PutAt(text, o, s))
<1> DEFINE a == SubSeq(text, 1, o)
           b == SubSeq(text, o + 1, Len(text))
           r == PutAt(text, o, s)
<1>1. /\ text \in Seq(S) /\ s \in Seq(S) /\ Len(text) \in Nat /\ Len(s) \in Nat
      /\ text \in Strings(S) /\ o \in Int
  BY LenProperties DEF Strings
<1>2. a \in Strings(S) /\ b \in Strings(S)
  BY <1>1, SliceString
<1>3. a \in Seq(S) /\ b \in Seq(S) /\ r = (a \o s) \o b
  BY <1>2 DEF Strings, PutAt
<1>4. Len(a) = o /\ \A i \in 1..o : a[i] = text[i]
  BY <1>1, SubSeqProperties
<1>5. Len(b) = Len(text) - o /\ \A i \in 1..Len(text) - o : b[i] = text[o + i]
  BY <1>1, SubSeqProperties
<1> HIDE DEF a, b
<1>6. /\ a \o s \in Seq(S) /\ Len(a \o s) = o + Len(s)
      /\ \A i \in 1..o : (a \o s)[i] = a[i]
  <2>1. /\ a \o s \in Seq(S) /\ Len(a \o s) = Len(a) + Len(s)
        /\ \A i \in 1..Len(a) + Len(s) :
             (a \o s)[i] = IF i <= Len(a) THEN a[i] ELSE s[i - Len(a)]
    BY <1>1, <1>3, ConcatProperties
  <2>2. ASSUME NEW i \in 1..o
        PROVE  (a \o s)[i] = a[i]
    <3>1. i \in 1..Len(a) + Len(s) /\ i <= Len(a)
      BY <1>1, <1>4
    <3> QED
      BY <2>1, <3>1
  <2> QED
    BY <1>4, <2>1, <2>2
<1> DEFINE c == a \o s
<1> HIDE DEF c
<1>7. /\ c \o b \in Seq(S) /\ Len(c \o b) = Len(text) + Len(s)
      /\ \A i \in 1..o : (c \o b)[i] = c[i]
      /\ \A i \in 1..Len(text) - o : (c \o b)[o + Len(s) + i] = b[i]
  <2>1. /\ c \in Seq(S) /\ Len(c) = o + Len(s)
    BY <1>6 DEF c
  <2>2. /\ c \o b \in Seq(S) /\ Len(c \o b) = Len(c) + Len(b)
        /\ \A i \in 1..Len(c) + Len(b) :
             (c \o b)[i] = IF i <= Len(c) THEN c[i] ELSE b[i - Len(c)]
    BY <1>3, <2>1, ConcatProperties
  <2>3. ASSUME NEW i \in 1..Len(text) - o
        PROVE  (c \o b)[o + Len(s) + i] = b[i]
    <3>1. PICK k \in 1..Len(c) + Len(b) : k = o + Len(s) + i /\ ~(k <= Len(c)) /\ k - Len(c) = i
      BY <1>1, <1>5, <2>1
    <3> QED
      BY <2>2, <3>1
  <2>4. ASSUME NEW i \in 1..o
        PROVE  (c \o b)[i] = c[i]
    BY <1>1, <1>5, <2>1, <2>2
  <2> QED
    BY <1>1, <1>5, <2>1, <2>2, <2>3, <2>4
<1>8. r = c \o b
  BY <1>3 DEF c
<1>9. /\ r \in Strings(S) /\ Len(r) = Len(text) + Len(s)
      /\ \A i \in 1..o : r[i] = text[i]
      /\ \A i \in o + 1..Len(text) : r[i + Len(s)] = text[i]
  <2>1. ASSUME NEW i \in 1..o
        PROVE  r[i] = text[i]
    BY <1>4, <1>6, <1>7, <1>8 DEF c
  <2>2. ASSUME NEW i \in o + 1..Len(text)
        PROVE  r[i + Len(s)] = text[i]
    <3>1. PICK k \in 1..Len(text) - o : o + k = i /\ o + Len(s) + k = i + Len(s)
      <4>1. i - o \in 1..Len(text) - o /\ o + (i - o) = i /\ o + Len(s) + (i - o) = i + Len(s)
        BY <1>1
      <4> QED
        BY <4>1
    <3> QED
      BY <1>5, <1>7, <1>8, <3>1
  <2> QED
    BY <1>7, <1>8, <2>1, <2>2 DEF Strings
<1> HIDE DEF r
<1> DEFINE f == [i \in RowOffsets(text) |-> IF i <= o THEN i ELSE i + Len(s)]
<1>10. f \in Injection(RowOffsets(text), RowOffsets(r))
  <2>1. RowOffsets(text) \subseteq 0..Len(text)
    BY Rows
  <2>2. ASSUME NEW i \in RowOffsets(text)
        PROVE  f[i] \in RowOffsets(r)
    <3>1. i \in 0..Len(text) /\ (i = 0 \/ (i \in 1..Len(text) /\ text[i] = Newline))
      BY <2>1 DEF RowOffsets
    <3>2. CASE i = 0
      BY <1>1, <3>2 DEF RowOffsets
    <3>3. CASE i \in 1..o
      <4>1. r[i] = Newline /\ i \in 1..Len(r)
        BY <1>1, <1>9, <3>1, <3>3
      <4> QED
        BY <1>1, <3>3, <4>1 DEF RowOffsets
    <3>4. CASE i \in o + 1..Len(text)
      <4>1. r[i + Len(s)] = Newline /\ i + Len(s) \in 1..Len(r)
        BY <1>1, <1>9, <3>1, <3>4
      <4> QED
        BY <1>1, <3>4, <4>1 DEF RowOffsets
    <3> QED
      BY <1>1, <3>1, <3>2, <3>3, <3>4
  <2>3. \A i, k \in RowOffsets(text) : f[i] = f[k] => i = k
    <3>1. ASSUME NEW i \in RowOffsets(text), NEW k \in RowOffsets(text), f[i] = f[k]
          PROVE  i = k
      <4>1. i \in Nat /\ k \in Nat /\ o \in Nat
        BY <2>1
      <4> QED
        BY <1>1, <3>1, <4>1
    <3> QED
      BY <3>1
  <2> HIDE DEF f
  <2>4. f \in [RowOffsets(text) -> RowOffsets(r)]
    BY <2>2 DEF f
  <2> QED
    BY <2>3, <2>4 DEF Injection, IsInjective
<1>11. IsFiniteSet(RowOffsets(r))
  BY <1>9, Rows
<1> HIDE DEF f
<1>12. RowCount(text) <= RowCount(r)
  BY <1>10, <1>11, FS_Injection DEF RowCount
<1> QED
  BY <1>9, <1>12 DEF r

LEMMA IndentString ==
  ASSUME NEW S, NEW text \in Strings(S), NEW row \in Nat, row < RowCount(text),
         NEW indent \in Indents(text, row)
  PROVE  indent \in Strings(S)
<1> DEFINE from == RowOffset(text, row)
           dense == {i \in from + 1..Len(text) : text[i] # Blank}
           first == CHOOSE i \in dense : \A k \in dense : i <= k
<1>1. Len(text) \in Nat /\ from \in 0..Len(text)
  BY Rows, RowBegins
<1>2. <<>> \in Strings(S)
  BY CatEmpty
<1> HIDE DEF from
<1>3. dense # {} => first \in dense
  <2>1. dense \subseteq Nat
    BY <1>1
  <2> HIDE DEF dense
  <2>2. dense # {} => \E i \in dense : \A k \in dense : i <= k
    BY <2>1, LeastNatural
  <2> QED
    BY <2>2
<1>4. dense # {} => first \in from + 1..Len(text)
  BY <1>3
<1> HIDE DEF first
<1>5. dense # {} => SubSeq(text, from + 1, first - 1) \in Strings(S)
  <2>1. SUFFICES ASSUME dense # {} PROVE SubSeq(text, from + 1, first - 1) \in Strings(S)
    OBVIOUS
  <2>2. from + 1 \in Nat \ {0} /\ first - 1 \in Int /\ first - 1 <= Len(text)
    BY <1>1, <1>4, <2>1
  <2> QED
    BY <2>2, SliceString
<1>6. Indent(text, row) = IF dense = {} THEN <<>> ELSE SubSeq(text, from + 1, first - 1)
  BY DEF Indent, from, dense, first
<1>7. Indent(text, row) \in Strings(S)
  BY <1>2, <1>5, <1>6
<1> QED
  BY <1>2, <1>7 DEF Indents

\* insertRowBefore leaves a text, with no fewer rows than it had.
LEMMA RowInsertedString ==
  ASSUME NEW S, Newline \in S, NEW text \in Strings(S), NEW row \in Nat, row < RowCount(text),
         NEW s \in Strings(S), NEW after \in RowInserted(text, row, s)
  PROVE  after \in Strings(S) /\ RowCount(text) <= RowCount(after)
<1> DEFINE end == IF EndsRow(s) THEN <<>> ELSE <<Newline>>
<1>1. PICK indent \in Indents(text, row) :
        after = PutAt(text, RowOffset(text, row), (indent \o s) \o end)
  BY DEF RowInserted
<1>2. indent \in Strings(S)
  BY IndentString
<1>3. end \in Strings(S)
  BY DEF Strings
<1> HIDE DEF end
<1>4. Cat(Cat(indent, s), end) \in Strings(S)
  BY <1>2, <1>3, CatString
<1>5. RowOffset(text, row) \in 0..Len(text)
  BY RowBegins
<1>6. after = PutAt(text, RowOffset(text, row), Cat(Cat(indent, s), end))
  BY <1>1 DEF Cat
<1> QED
  BY <1>4, <1>5, <1>6, PutString

\* The rows that t is put before exist in each of these texts.
ReadyFor(S, texts, rows, t) ==
  /\ \A text \in texts : text \in Strings(S) /\ rows <= RowCount(text)
  /\ t.row \in Nat /\ t.row < rows /\ t.s \in Strings(S)

LEMMA AfterRowString ==
  ASSUME NEW S, Newline \in S, NEW rows \in Nat, NEW texts, NEW t, ReadyFor(S, texts, rows, t)
  PROVE  \A after \in AfterRow(texts, t) : after \in Strings(S) /\ rows <= RowCount(after)
<1> SUFFICES ASSUME NEW after \in AfterRow(texts, t)
             PROVE  after \in Strings(S) /\ rows <= RowCount(after)
  OBVIOUS
<1>1. PICK each \in texts : after \in RowInserted(each, t.row, t.s)
  BY DEF AfterRow
<1>2. each \in Strings(S) /\ rows <= RowCount(each) /\ RowCount(each) \in Nat
  BY Rows DEF ReadyFor
<1>3. t.row \in Nat /\ t.row < rows /\ t.s \in Strings(S)
  BY DEF ReadyFor
<1>4. t.row < RowCount(each)
  BY <1>2, <1>3
<1>5. after \in Strings(S) /\ RowCount(each) <= RowCount(after)
  BY <1>1, <1>2, <1>3, <1>4, RowInsertedString
<1>6. RowCount(after) \in Nat
  BY <1>5, Rows
<1> QED
  BY <1>2, <1>5, <1>6

\* So all the rows of a mark can be put where they belong.
LEMMA AfterRowsString ==
  ASSUME NEW S, Newline \in S, NEW text \in Strings(S), NEW targets, Len(targets) \in Nat,
         \A i \in 1..Len(targets) : /\ targets[i].row \in Nat /\ targets[i].row < RowCount(text)
                                    /\ targets[i].s \in Strings(S),
         NEW final \in AfterRows(text, targets)
  PROVE  final \in Strings(S)
<1> DEFINE n == Len(targets)
           Is(g, k) == \A i \in 0..k :
                         g[i] = IF i = 0 THEN {text} ELSE AfterRow(g[i - 1], targets[i])
           Has(k) == \E g : DOMAIN g = 0..k /\ g = [i \in 0..k |-> g[i]] /\ Is(g, k)
           T == {k \in 0..n : Has(k)}
<1>1. 0 \in T
  <2> DEFINE g == [i \in 0..0 |-> {text}]
  <2>1. DOMAIN g = 0..0 /\ g = [i \in 0..0 |-> g[i]] /\ Is(g, 0)
    OBVIOUS
  <2> HIDE DEF g
  <2>2. Has(0)
    BY <2>1
  <2> HIDE DEF Has
  <2> QED
    BY <2>2
<1>2. ASSUME NEW k \in 0..n - 1, k \in T
      PROVE  k + 1 \in T
  <2>1. PICK g : DOMAIN g = 0..k /\ Is(g, k)
    BY <1>2
  <2> DEFINE last == AfterRow(g[k], targets[k + 1])
             h == [i \in 0..k + 1 |-> IF i <= k THEN g[i] ELSE last]
  <2>2. k \in Nat /\ k + 1 \in 0..n
    OBVIOUS
  <2>3. DOMAIN h = 0..k + 1 /\ h = [i \in 0..k + 1 |-> h[i]]
    OBVIOUS
  <2>4. \A i \in 0..k : h[i] = g[i]
    BY <2>2
  <2>5. h[k + 1] = last
    BY <2>2
  <2> HIDE DEF h
  <2>6. ASSUME NEW i \in 0..k + 1
        PROVE  h[i] = IF i = 0 THEN {text} ELSE AfterRow(h[i - 1], targets[i])
    <3>1. CASE i = k + 1
      <4>1. i # 0 /\ i - 1 = k /\ k \in 0..k
        BY <2>2, <3>1
      <4>2. h[i - 1] = g[k]
        BY <2>4, <4>1
      <4> QED
        BY <2>5, <3>1, <4>1, <4>2
    <3>2. CASE i # k + 1
      <4>1. i \in 0..k /\ (i # 0 => i - 1 \in 0..k)
        BY <2>2, <3>2
      <4> QED
        BY <2>1, <2>4, <4>1
    <3> QED
      BY <3>1, <3>2
  <2>7. Has(k + 1)
    BY <2>3, <2>6
  <2> HIDE DEF Has
  <2> QED
    BY <2>2, <2>7
<1> HIDE DEF T
<1>3. n \in T
  <2>1. \A k \in 0..n : k \in T
    BY <1>1, <1>2, Induction
  <2> QED
    BY <2>1
<1>4. PICK g : g = [i \in 0..n |-> g[i]] /\ Is(g, n)
  BY <1>3 DEF T
<1> DEFINE F(f) == [i \in 0..Len(targets) |->
                      IF i = 0 THEN {text} ELSE AfterRow(f[i - 1], targets[i])]
           after == CHOOSE f : f = F(f)
<1>5. g = F(g)
  BY <1>4
<1>6. after = F(after)
  BY <1>5
<1>7. AfterRows(text, targets) = after[n]
  BY DEF AfterRows
<1> HIDE DEF after
<1>8. after[0] = {text} /\ \A i \in 1..n : after[i] = AfterRow(after[i - 1], targets[i])
  <2>1. \A i \in 0..n : after[i] = F(after)[i]
    BY <1>6
  <2>2. F(after)[0] = {text}
    OBVIOUS
  <2>3. \A i \in 1..n : F(after)[i] = AfterRow(after[i - 1], targets[i])
    OBVIOUS
  <2> HIDE DEF F
  <2>4. 0 \in 0..n /\ \A i \in 1..n : i \in 0..n
    OBVIOUS
  <2> QED
    BY <2>1, <2>2, <2>3, <2>4
<1> DEFINE rows == RowCount(text)
           V == {k \in 0..n : \A t \in after[k] : t \in Strings(S) /\ rows <= RowCount(t)}
<1>9. rows \in Nat
  BY Rows
<1>10. 0 \in V
  BY <1>8, <1>9
<1>11. ASSUME NEW k \in 0..n - 1, k \in V
       PROVE  k + 1 \in V
  <2>1. PICK i \in 1..n : i = k + 1 /\ i - 1 = k
    OBVIOUS
  <2>2. after[i] = AfterRow(after[k], targets[i])
    BY <1>8, <2>1
  <2>3. \A t \in after[k] : t \in Strings(S) /\ rows <= RowCount(t)
    BY <1>11
  <2> HIDE DEF rows
  <2>4. ReadyFor(S, after[k], rows, targets[i])
    BY <2>1, <2>3 DEF ReadyFor, rows
  <2>5. \A t \in AfterRow(after[k], targets[i]) : t \in Strings(S) /\ rows <= RowCount(t)
    BY <1>9, <2>4, AfterRowString
  <2>6. i \in 0..n
    OBVIOUS
  <2> QED
    BY <2>1, <2>2, <2>5, <2>6
<1> HIDE DEF V
<1>12. \A k \in 0..n : k \in V
  BY <1>10, <1>11, Induction
<1>13. \A t \in after[n] : t \in Strings(S)
  BY <1>12 DEF V
<1> QED
  BY <1>7, <1>13

-----------------------------------------------------------------------------
(* A set of edits at once, and one edit more *)

\* Of the pieces p, the first e are the characters of a text; in those of q, a
\* string c stands in the place of the characters after s up to e.
Puts(q, p, c, s, e, n) ==
  /\ s < e => q[s + 1] = c /\ q[e + 1] = p[e + 1]
  /\ s < e => \A i \in s + 2..e : q[i] = <<>>
  /\ s = e => q[e + 1] = Cat(c, p[e + 1])
  /\ \A i \in e + 2..n : q[i] = p[i]

LEMMA FlattenSpliced ==
  ASSUME NEW S, NEW text \in Strings(S), NEW n \in Nat,
         NEW p \in [1..n -> Strings(S)], NEW q \in [1..n -> Strings(S)], NEW c \in Strings(S),
         NEW s \in Nat, NEW e \in Nat, s <= e, e < n,
         Spells(p, text, e), Spells(q, text, s), Puts(q, p, c, s, e, n)
  PROVE  \E t \in Strings(S) : /\ FlattenSeq(p) = Cat(Upto(text, e), t)
                               /\ FlattenSeq(q) = Cat(Upto(text, s), Cat(c, t))
<1>1. n \in Nat \ {0} /\ e + 1 \in 1..n /\ s \in 0..n /\ e \in 0..n
  OBVIOUS
<1>2. PICK f : Sums(S, n, p, f)
  BY <1>1, FlattenSteps
<1>3. PICK g : Sums(S, n, q, g)
  BY <1>1, FlattenSteps
<1>4. \A i \in 1..n : /\ f[i] = Cat(f[i - 1], p[i]) /\ g[i] = Cat(g[i - 1], q[i])
                      /\ f[i - 1] \in Strings(S) /\ g[i - 1] \in Strings(S)
                      /\ p[i] \in Strings(S) /\ q[i] \in Strings(S)
  <2> TAKE i \in 1..n
  <2>1. i - 1 \in 0..n
    OBVIOUS
  <2> QED
    BY <1>2, <1>3, <2>1 DEF Sums
<1>5. PICK A \in Strings(S) : A = Upto(text, e) /\ f[e] = A
  <2>1. f[e] = Upto(text, e)
    <3>1. Spelling(S, n, p, f, text, e)
      BY <1>1, <1>2 DEF Spelling
    <3> QED
      BY <3>1, SpellsText
  <2>2. f[e] \in Strings(S)
    BY <1>1, <1>2 DEF Sums
  <2> QED
    BY <2>1, <2>2
<1>6. PICK B \in Strings(S) : B = Upto(text, s) /\ g[s] = B
  <2>1. g[s] = Upto(text, s)
    <3>1. Spelling(S, n, q, g, text, s)
      BY <1>1, <1>3 DEF Spelling
    <3> QED
      BY <3>1, SpellsText
  <2>2. g[s] \in Strings(S)
    BY <1>1, <1>3 DEF Sums
  <2> QED
    BY <2>1, <2>2
<1>7. PICK d \in Strings(S) : d = p[e + 1] /\ f[e + 1] = Cat(A, d)
  <2>1. PICK i \in 1..n : i = e + 1 /\ i - 1 = e
    BY <1>1
  <2> QED
    BY <1>4, <1>5, <2>1
<1>8. g[e + 1] = Cat(B, Cat(c, d))
  <2>1. PICK l \in 1..n : l = e + 1 /\ l - 1 = e
    BY <1>1
  <2>2. g[e + 1] = Cat(g[e], q[e + 1])
    BY <1>4, <2>1
  <2>3. CASE s = e
    BY <1>6, <1>7, <2>2, <2>3 DEF Puts
  <2>4. CASE s # e
    <3> DEFINE T == {k \in s + 1..e : g[k] = Cat(B, c)}
    <3>1. s < e /\ s + 1 \in Nat /\ s + 1 \in 1..n /\ s + 1 \in s + 1..e
      BY <2>4
    <3>2. s + 1 \in T
      <4>1. PICK i \in 1..n : i = s + 1 /\ i - 1 = s
        BY <3>1
      <4>2. q[s + 1] = c
        BY <3>1 DEF Puts
      <4> QED
        BY <1>4, <1>6, <3>1, <4>1, <4>2
    <3>3. ASSUME NEW k \in s + 1..e - 1, k \in T
          PROVE  k + 1 \in T
      <4>1. PICK i \in 1..n : i = k + 1 /\ i - 1 = k /\ i \in s + 2..e
        OBVIOUS
      <4>2. q[i] = <<>>
        BY <3>1, <4>1 DEF Puts
      <4>3. g[i] = Cat(g[k], <<>>)
        BY <1>4, <4>1, <4>2
      <4>4. Cat(g[k], <<>>) = g[k]
        BY <1>4, <4>1, CatEmpty
      <4>5. k + 1 \in s + 1..e
        BY <4>1
      <4> QED
        BY <3>3, <4>1, <4>3, <4>4, <4>5
    <3> HIDE DEF T
    <3>4. \A k \in s + 1..e : k \in T
      BY <3>1, <3>2, <3>3, InductionFrom
    <3>5. e \in T
      BY <3>1, <3>4
    <3>6. q[e + 1] = d
      BY <1>7, <3>1 DEF Puts
    <3>7. g[e + 1] = Cat(Cat(B, c), d)
      BY <2>2, <3>5, <3>6 DEF T
    <3> QED
      BY <3>7, CatAssociative
  <2> QED
    BY <2>3, <2>4
<1> DEFINE Has(k) == \E t \in Strings(S) : f[k] = Cat(A, t) /\ g[k] = Cat(B, Cat(c, t))
           U == {k \in e + 1..n : Has(k)}
<1>9. e + 1 \in U
  <2>1. Has(e + 1)
    BY <1>7, <1>8
  <2> HIDE DEF Has
  <2> QED
    BY <1>1, <2>1
<1>10. ASSUME NEW k \in e + 1..n - 1, k \in U
       PROVE  k + 1 \in U
  <2>1. PICK t \in Strings(S) : f[k] = Cat(A, t) /\ g[k] = Cat(B, Cat(c, t))
    BY <1>10
  <2>2. PICK i \in 1..n : i = k + 1 /\ i - 1 = k /\ i \in e + 2..n
    OBVIOUS
  <2>3. q[i] = p[i]
    BY <2>2 DEF Puts
  <2>4. PICK r \in Strings(S) : r = p[i] /\ r = q[i]
    BY <1>4, <2>3
  <2>5. f[i] = Cat(Cat(A, t), r) /\ g[i] = Cat(Cat(B, Cat(c, t)), r)
    BY <1>4, <2>1, <2>2, <2>4
  <2>6. /\ Cat(Cat(A, t), r) = Cat(A, Cat(t, r))
        /\ Cat(Cat(B, Cat(c, t)), r) = Cat(B, Cat(Cat(c, t), r))
        /\ Cat(Cat(c, t), r) = Cat(c, Cat(t, r))
        /\ Cat(t, r) \in Strings(S)
    BY CatAssociative, CatString
  <2>7. Has(k + 1)
    BY <2>2, <2>5, <2>6
  <2> HIDE DEF Has
  <2>8. k + 1 \in e + 1..n
    BY <2>2
  <2> QED
    BY <2>7, <2>8
<1> HIDE DEF U
<1>11. \A k \in e + 1..n : k \in U
  <2>1. e + 1 \in Nat
    OBVIOUS
  <2> QED
    BY <2>1, <1>9, <1>10, InductionFrom
<1>12. n \in U
  BY <1>1, <1>11
<1>13. FlattenSeq(p) = f[n] /\ FlattenSeq(q) = g[n]
  BY <1>2, <1>3 DEF Sums
<1> QED
  BY <1>5, <1>6, <1>12, <1>13 DEF U

\* An edit that splices, and no character of a deletion or insertion besides
IsSplice(S, x) ==
  /\ x.s \in Nat /\ x.e \in Nat /\ x.s <= x.e /\ x.change \in Strings(S)
  /\ x.op \in Splices /\ (x.op = "DELETE" => x.change = <<>>) /\ (x.op = "INSERT" => x.s = x.e)

Pieces(text, edits) == [n \in 1..Len(text) + 1 |-> Piece(text, edits, n)]

LEMMA PiecesType ==
  ASSUME NEW S, NEW text \in Strings(S), NEW D, \A d \in D : IsSplice(S, d)
  PROVE  /\ Len(text) \in Nat
         /\ Pieces(text, D) \in [1..Len(text) + 1 -> Strings(S)]
         /\ AllAtOnce(text, D) = FlattenSeq(Pieces(text, D))
<1>1. Len(text) \in Nat /\ \A i \in 1..Len(text) : text[i] \in S
  BY LenProperties DEF Strings
<1>2. ASSUME NEW n \in 1..Len(text) + 1
      PROVE  Piece(text, D, n) \in Strings(S)
  <2> DEFINE first == IF PutThere(D, n - 1) = {} THEN <<>>
                      ELSE (CHOOSE x \in PutThere(D, n - 1) : TRUE).change
             last == IF n > Len(text) \/ Removed(D, n - 1) THEN <<>> ELSE <<text[n]>>
  <2>1. <<>> \in Strings(S)
    BY CatEmpty
  <2>2. first \in Strings(S)
    BY <2>1 DEF PutThere, IsSplice
  <2>3. last \in Strings(S)
    <3>1. n <= Len(text) => text[n] \in S
      BY <1>1
    <3>2. n <= Len(text) => <<text[n]>> \in Strings(S)
      BY <3>1 DEF Strings
    <3> QED
      BY <1>1, <2>1, <3>2
  <2>4. Piece(text, D, n) = Cat(first, last)
    BY DEF Piece, Cat
  <2> HIDE DEF first, last
  <2> QED
    BY <2>2, <2>3, <2>4, CatString
<1> QED
  BY <1>1, <1>2 DEF Pieces, AllAtOnce

\* Where nothing is put and nothing removed, the piece is the character.
LEMMA PlainPiece ==
  ASSUME NEW S, NEW text \in Strings(S), NEW D, NEW i \in 1..Len(text),
         PutThere(D, i - 1) = {}, ~Removed(D, i - 1)
  PROVE  Pieces(text, D)[i] = <<text[i]>>
<1>1. Len(text) \in Nat /\ text[i] \in S /\ i \in 1..Len(text) + 1 /\ ~(i > Len(text))
  BY LenProperties DEF Strings
<1>2. Pieces(text, D)[i] = Cat(<<>>, <<text[i]>>)
  BY <1>1 DEF Pieces, Piece, Cat
<1>3. <<text[i]>> \in Strings(S)
  BY <1>1 DEF Strings
<1> QED
  BY <1>2, <1>3, CatEmpty

\* No edits leave the text alone.
LEMMA NothingAtOnce ==
  ASSUME NEW S, NEW text \in Strings(S)
  PROVE  AllAtOnce(text, {}) = text
<1> DEFINE n == Len(text) + 1
           p == Pieces(text, {})
<1>1. Len(text) \in Nat /\ p \in [1..n -> Strings(S)] /\ AllAtOnce(text, {}) = FlattenSeq(p)
  BY PiecesType
<1>2. \A i \in 1..Len(text) : p[i] = <<text[i]>>
  BY PlainPiece DEF PutThere, Removed
<1>3. p[n] = <<>>
  <2>1. n \in 1..n /\ n > Len(text)
    BY <1>1
  <2>2. p[n] = Cat(<<>>, <<>>)
    BY <2>1 DEF Pieces, Piece, PutThere, Cat
  <2> QED
    BY <2>2, CatEmpty
<1>4. Spells(p, text, Len(text))
  BY <1>1, <1>2 DEF Spells
<1> HIDE DEF p
<1>5. PICK f : Sums(S, n, p, f)
  <2>1. n \in Nat \ {0}
    BY <1>1
  <2> QED
    BY <1>1, <2>1, FlattenSteps
<1>6. Spelling(S, n, p, f, text, Len(text))
  BY <1>1, <1>4, <1>5 DEF Spelling
<1>7. f[Len(text)] = text
  <2>1. f[Len(text)] = SubSeq(text, 1, Len(text))
    BY <1>6, SpellsText DEF Upto
  <2> QED
    BY <2>1, SubSeqFull DEF Strings
<1>8. f[n] = Cat(text, <<>>)
  <2>1. PICK i \in 1..n : i = n /\ i - 1 = Len(text)
    BY <1>1
  <2>2. f[i] = Cat(f[i - 1], p[i])
    BY <1>5 DEF Sums
  <2> QED
    BY <1>3, <1>7, <2>1, <2>2
<1>9. FlattenSeq(p) = f[n]
  BY <1>5 DEF Sums
<1> QED
  BY <1>1, <1>8, <1>9, CatEmpty

\* What precedes and what follows a place in a joined text
LEMMA Halves ==
  ASSUME NEW S, NEW a \in Seq(S), NEW t \in Seq(S), NEW k \in 0..Len(a)
  PROVE  /\ SubSeq(a \o t, 1, k) = SubSeq(a, 1, k)
         /\ SubSeq(a \o t, Len(a) + 1, Len(a \o t)) = t
<1> DEFINE b == a \o t
<1>1. /\ Len(a) \in Nat /\ Len(t) \in Nat /\ b \in Seq(S) /\ Len(b) = Len(a) + Len(t)
      /\ \A i \in 1..Len(a) + Len(t) : b[i] = IF i <= Len(a) THEN a[i] ELSE t[i - Len(a)]
      /\ \A i \in 1..Len(a) : a[i] \in S
      /\ \A i \in 1..Len(t) : t[i] \in S
  BY ConcatProperties, LenProperties
<1> HIDE DEF b
<1>2. SubSeq(b, 1, k) = SubSeq(a, 1, k)
  <2>1. \A i \in 1..k : a[i] \in S /\ b[i] = a[i] /\ b[i] \in S
    BY <1>1
  <2>2. /\ k \in Int /\ 1 \in Int /\ k - 1 + 1 = k
        /\ SubSeq(b, 1, k) \in Seq(S) /\ Len(SubSeq(b, 1, k)) = IF 1 <= k THEN k - 1 + 1 ELSE 0
        /\ \A i \in 1..k - 1 + 1 : SubSeq(b, 1, k)[i] = b[1 + i - 1]
    BY <1>1, <2>1, SubSeqProperties
  <2>3. /\ SubSeq(a, 1, k) \in Seq(S) /\ Len(SubSeq(a, 1, k)) = IF 1 <= k THEN k - 1 + 1 ELSE 0
        /\ \A i \in 1..k - 1 + 1 : SubSeq(a, 1, k)[i] = a[1 + i - 1]
    BY <1>1, <2>1, <2>2, SubSeqProperties
  <2>4. ASSUME NEW i \in 1..Len(SubSeq(b, 1, k))
        PROVE  SubSeq(b, 1, k)[i] = SubSeq(a, 1, k)[i]
    <3>1. i \in 1..k - 1 + 1 /\ 1 + i - 1 = i /\ i \in 1..k
      BY <1>1, <2>2
    <3> QED
      BY <2>1, <2>2, <2>3, <3>1
  <2> QED
    BY <2>2, <2>3, <2>4, SeqEqual
<1>3. SubSeq(b, Len(a) + 1, Len(b)) = t
  <2> DEFINE m == Len(a) + 1
             n == Len(b)
  <2>1. m \in Int /\ n \in Int /\ n - m + 1 = Len(t)
    BY <1>1
  <2>2. \A i \in m..n : b[i] \in S
    BY <1>1
  <2>3. /\ SubSeq(b, m, n) \in Seq(S) /\ Len(SubSeq(b, m, n)) = IF m <= n THEN n - m + 1 ELSE 0
        /\ \A i \in 1..n - m + 1 : SubSeq(b, m, n)[i] = b[m + i - 1]
    BY <2>1, <2>2, SubSeqProperties
  <2>4. Len(SubSeq(b, m, n)) = Len(t)
    BY <1>1, <2>1, <2>3
  <2>5. ASSUME NEW i \in 1..Len(t)
        PROVE  SubSeq(b, m, n)[i] = t[i]
    <3>1. i \in 1..n - m + 1 /\ m + i - 1 = Len(a) + i
      BY <1>1, <2>1
    <3>2. b[Len(a) + i] = t[i]
      <4>0. \A x, y \in Nat : \A h \in 1..y : \E j \in 1..x + y : j = x + h /\ ~(j <= x) /\ j - x = h
        OBVIOUS
      <4>1. PICK j \in 1..Len(a) + Len(t) : j = Len(a) + i /\ ~(j <= Len(a)) /\ j - Len(a) = i
        BY <1>1, <4>0
      <4> QED
        BY <1>1, <4>1
    <3> QED
      BY <2>3, <3>1, <3>2
  <2> HIDE DEF m, n
  <2>6. SubSeq(b, m, n) = t
    BY <2>3, <2>4, <2>5, SeqEqual
  <2> QED
    BY <2>6 DEF m, n
<1> QED
  BY <1>2, <1>3 DEF b

\* The beginning of a string is the beginning of a longer beginning.
LEMMA BeginningOf ==
  ASSUME NEW S, NEW text \in Seq(S), NEW k \in 0..Len(text), NEW m \in 0..k
  PROVE  /\ SubSeq(text, 1, k) \in Seq(S) /\ Len(SubSeq(text, 1, k)) = k
         /\ SubSeq(SubSeq(text, 1, k), 1, m) = SubSeq(text, 1, m)
<1>1. Len(text) \in Nat /\ k \in Nat /\ m \in Nat /\ m <= k /\ k <= Len(text)
  BY LenProperties
<1>2. /\ SubSeq(text, 1, k) \in Seq(S) /\ Len(SubSeq(text, 1, k)) = k
  <2>1. \A i \in 1..k : text[i] \in S
    BY <1>1, LenProperties
  <2>2. k \in Int /\ (1 <= k => k - 1 + 1 = k) /\ (~(1 <= k) => k = 0)
    BY <1>1
  <2>3. SubSeq(text, 1, k) \in Seq(S) /\ Len(SubSeq(text, 1, k)) = IF 1 <= k THEN k - 1 + 1 ELSE 0
    BY <2>1, <2>2, SubSeqProperties
  <2> QED
    BY <2>2, <2>3
<1>3. PICK a \in Seq(S) : a = SubSeq(text, 1, k)
  BY <1>2
<1>4. PICK r \in Seq(S) : r = SubSeq(text, k + 1, Len(text))
  <2>1. \A i \in k + 1..Len(text) : text[i] \in S
    BY <1>1, LenProperties
  <2>2. k + 1 \in Int /\ Len(text) \in Int
    BY <1>1
  <2> QED
    BY <2>1, <2>2, SubSeqProperties
<1>5. a \o r = text
  <2>1. 1 \in 1..Len(text) + 1 /\ k \in 1 - 1..Len(text) /\ Len(text) \in k..Len(text)
    BY <1>1
  <2>2. SubSeq(text, 1, k) \o SubSeq(text, k + 1, Len(text)) = SubSeq(text, 1, Len(text))
    BY <2>1, ConcatAdjacentSubSeq
  <2> QED
    BY <1>3, <1>4, <2>2, SubSeqFull
<1>6. SubSeq(a \o r, 1, m) = SubSeq(a, 1, m)
  <2>1. m \in 0..Len(a)
    BY <1>1, <1>2, <1>3
  <2> QED
    BY <2>1, Halves
<1> QED
  BY <1>2, <1>3, <1>5, <1>6

\* Erasing and putting, in a string made of a with what begins it, b, and t
Begins(S, a, b, t, c) ==
  /\ t \in Seq(S) /\ c \in Seq(S) /\ a \in Seq(S) /\ b \in Seq(S)
  /\ Len(b) <= Len(a) /\ SubSeq(a, 1, Len(b)) = b

LEMMA SpliceAt ==
  ASSUME NEW S, NEW a, NEW b, NEW t, NEW c, Begins(S, a, b, t, c)
  PROVE  /\ Erase(a \o t, Len(b), Len(a)) = b \o t
         /\ PutAt(b \o t, Len(b), c) = b \o (c \o t)
<1>0. /\ t \in Seq(S) /\ c \in Seq(S) /\ a \in Seq(S) /\ b \in Seq(S)
      /\ Len(b) <= Len(a) /\ SubSeq(a, 1, Len(b)) = b
  BY DEF Begins
<1>1. Len(a) \in Nat /\ Len(b) \in Nat /\ Len(b) \in 0..Len(a) /\ Len(b) \in 0..Len(b)
  BY <1>0, LenProperties
<1>2. SubSeq(a \o t, 1, Len(b)) = SubSeq(a, 1, Len(b))
  BY <1>0, <1>1, Halves
<1>3. SubSeq(a \o t, Len(a) + 1, Len(a \o t)) = t
  BY <1>0, <1>1, Halves
<1>4. SubSeq(b \o t, 1, Len(b)) = SubSeq(b, 1, Len(b))
  BY <1>0, <1>1, Halves
<1>5. SubSeq(b \o t, Len(b) + 1, Len(b \o t)) = t
  BY <1>0, <1>1, Halves
<1>6. SubSeq(b, 1, Len(b)) = b
  BY <1>0, SubSeqFull
<1>7. PutAt(b \o t, Len(b), c) = (b \o c) \o t
  BY <1>4, <1>5, <1>6 DEF PutAt
<1>8. (b \o c) \o t = b \o (c \o t)
  BY <1>0, ConcatAssociative
<1> QED
  BY <1>0, <1>2, <1>3, <1>7, <1>8 DEF Erase

\* A splice at x of a text that is a string up to the end of x, and another
LEMMA SplicedString ==
  ASSUME NEW S, NEW text \in Strings(S), NEW x, IsSplice(S, x), x.e <= Len(text),
         NEW t \in Strings(S)
  PROVE  Spliced(Cat(Upto(text, x.e), t), x) = Cat(Upto(text, x.s), Cat(x.change, t))
<1>1. /\ x.s \in Nat /\ x.e \in Nat /\ x.s <= x.e /\ Len(text) \in Nat
      /\ text \in Seq(S) /\ t \in Seq(S) /\ x.change \in Seq(S)
  BY LenProperties DEF IsSplice, Strings
<1>2. PICK a \in Seq(S) : a = SubSeq(text, 1, x.e) /\ Len(a) = x.e
  <2>1. x.e \in 0..Len(text) /\ x.s \in 0..x.e
    BY <1>1
  <2> QED
    BY <1>1, <2>1, BeginningOf
<1>3. PICK b \in Seq(S) : b = SubSeq(text, 1, x.s) /\ Len(b) = x.s
  <2>1. x.s \in 0..Len(text) /\ x.s \in 0..x.s
    BY <1>1
  <2> QED
    BY <1>1, <2>1, BeginningOf
<1>4. SubSeq(a, 1, Len(b)) = b
  <2>1. x.e \in 0..Len(text) /\ x.s \in 0..x.e
    BY <1>1
  <2>2. SubSeq(SubSeq(text, 1, x.e), 1, x.s) = SubSeq(text, 1, x.s)
    BY <1>1, <2>1, BeginningOf
  <2> QED
    BY <1>2, <1>3, <2>2
<1>5. PICK c \in Seq(S) : c = x.change
  BY <1>1
<1>6. Len(b) <= Len(a)
  BY <1>1, <1>2, <1>3
<1>7. /\ Erase(a \o t, x.s, x.e) = b \o t
      /\ PutAt(b \o t, x.s, c) = b \o (c \o t)
  <2>1. t \in Seq(S) /\ Begins(S, a, b, t, c)
    BY <1>1, <1>4, <1>6 DEF Begins
  <2>2. /\ Erase(a \o t, Len(b), Len(a)) = b \o t
        /\ PutAt(b \o t, Len(b), c) = b \o (c \o t)
    BY <2>1, SpliceAt
  <2> QED
    BY <1>2, <1>3, <2>2
<1>8. Cat(Upto(text, x.e), t) = a \o t /\ Cat(Upto(text, x.s), Cat(x.change, t)) = b \o (c \o t)
  BY <1>2, <1>3, <1>5 DEF Cat, Upto
<1>10. CASE x.op = "INSERT"
  <2>1. x.s = x.e
    BY <1>10 DEF IsSplice
  <2>2. a = b
    BY <1>2, <1>3, <2>1
  <2>3. Spliced(a \o t, x) = PutAt(a \o t, x.s, c)
    BY <1>5, <1>10 DEF Spliced
  <2> QED
    BY <1>7, <1>8, <2>2, <2>3
<1>11. CASE x.op = "DELETE"
  <2>1. c = <<>>
    BY <1>5, <1>11 DEF IsSplice
  <2>2. <<>> \o t = t
    BY <1>1, ConcatEmptySeq
  <2>3. Spliced(a \o t, x) = Erase(a \o t, x.s, x.e)
    BY <1>11 DEF Spliced
  <2> QED
    BY <1>7, <1>8, <2>1, <2>2, <2>3
<1>12. CASE x.op = "WRITE"
  <2>1. Spliced(a \o t, x) = PutAt(Erase(a \o t, x.s, x.e), x.s, c)
    BY <1>5, <1>12 DEF Spliced
  <2> QED
    BY <1>7, <1>8, <2>1
<1> QED
  BY <1>10, <1>11, <1>12 DEF IsSplice, Splices

\* x goes where the edits of D have left the text alone.
Precedes(x, D) == \A d \in D : x.s < d.s /\ x.e <= d.s

\* What a set of edits makes of a text at once, spliced by an edit that goes
\* before them, is what the set makes of it with that edit.
LEMMA SpliceAtOnce ==
  ASSUME NEW S, NEW text \in Strings(S), NEW D, NEW x, \A d \in D : IsSplice(S, d),
         IsSplice(S, x), Precedes(x, D), x.e <= Len(text)
  PROVE  AllAtOnce(text, D \cup {x}) = Spliced(AllAtOnce(text, D), x)
<1> DEFINE E == D \cup {x}
           n == Len(text) + 1
<1>1. /\ x.s \in Nat /\ x.e \in Nat /\ x.s <= x.e /\ x.change \in Strings(S)
      /\ x.op \in Splices /\ (x.op = "DELETE" => x.change = <<>>) /\ (x.op = "INSERT" => x.s = x.e)
      /\ Len(text) \in Nat /\ x.e < n /\ n \in Nat
  BY LenProperties DEF IsSplice, Strings
<1>2. \A d \in D : d.s \in Nat /\ d.e \in Nat /\ x.s < d.s /\ x.e <= d.s
  BY DEF IsSplice, Precedes
<1>3. PICK p : p = Pieces(text, D)
  OBVIOUS
<1>4. PICK q : q = Pieces(text, E)
  OBVIOUS
<1>5. p \in [1..n -> Strings(S)] /\ AllAtOnce(text, D) = FlattenSeq(p)
  BY <1>3, PiecesType
<1>6. q \in [1..n -> Strings(S)] /\ AllAtOnce(text, E) = FlattenSeq(q)
  <2>1. \A d \in E : IsSplice(S, d)
    OBVIOUS
  <2> HIDE DEF E
  <2> QED
    BY <1>4, <2>1, PiecesType
\* Before the end of x, the edits of D do nothing.
<1>7. \A o \in 0..x.e : o < x.e \/ o = x.s => PutThere(D, o) = {} /\ ~Removed(D, o)
  BY <1>1, <1>2 DEF PutThere, Removed
<1>8. \A o \in Nat : /\ o # x.s => PutThere(E, o) = PutThere(D, o)
                     /\ PutThere(D, o) = {} /\ o = x.s => PutThere(E, o) = {x}
  BY DEF PutThere
<1>9. \A o \in Nat : Removed(E, o) <=> Removed(D, o) \/ (x.s <= o /\ o < x.e)
  <2>1. \A o \in Nat : (x.op # "INSERT" /\ o \in x.s..x.e - 1) <=> (x.s <= o /\ o < x.e)
    BY <1>1
  <2> QED
    BY <2>1 DEF Removed
<1>10. \A i \in 1..n : p[i] = Piece(text, D, i) /\ q[i] = Piece(text, E, i)
  BY <1>3, <1>4 DEF Pieces
<1>11. Spells(p, text, x.e)
  <2>1. ASSUME NEW i \in 1..x.e
        PROVE  p[i] = <<text[i]>>
    <3>1. i \in 1..Len(text) /\ i - 1 \in 0..x.e /\ i - 1 < x.e
      BY <1>1
    <3>2. PutThere(D, i - 1) = {} /\ ~Removed(D, i - 1)
      BY <1>7, <3>1
    <3> QED
      BY <1>3, <3>1, <3>2, PlainPiece
  <2> QED
    BY <2>1 DEF Spells
<1>12. Spells(q, text, x.s)
  <2>1. ASSUME NEW i \in 1..x.s
        PROVE  q[i] = <<text[i]>>
    <3>1. /\ i \in 1..Len(text) /\ i - 1 \in 0..x.e /\ i - 1 < x.e /\ i - 1 \in Nat
          /\ i - 1 # x.s /\ ~(x.s <= i - 1)
      BY <1>1
    <3>2. PutThere(E, i - 1) = {} /\ ~Removed(E, i - 1)
      BY <1>7, <1>8, <1>9, <3>1
    <3> HIDE DEF E
    <3> QED
      BY <1>4, <3>1, <3>2, PlainPiece
  <2> QED
    BY <1>1, <2>1 DEF Spells
\* After x, nothing changes.
<1>13. ASSUME NEW i \in 1..n, x.e < i, i - 1 # x.s
       PROVE  q[i] = p[i]
  <2>1. i - 1 \in Nat /\ ~(i - 1 < x.e)
    BY <1>1, <1>13
  <2>2. PutThere(E, i - 1) = PutThere(D, i - 1) /\ (Removed(E, i - 1) <=> Removed(D, i - 1))
    BY <1>8, <1>9, <1>13, <2>1
  <2>3. Piece(text, E, i) = Piece(text, D, i)
    <3> DEFINE first(P) == IF P = {} THEN <<>> ELSE (CHOOSE y \in P : TRUE).change
               last(F) == IF i > Len(text) \/ Removed(F, i - 1) THEN <<>> ELSE <<text[i]>>
    <3>1. /\ Piece(text, E, i) = Cat(first(PutThere(E, i - 1)), last(E))
          /\ Piece(text, D, i) = Cat(first(PutThere(D, i - 1)), last(D))
      BY DEF Piece, Cat
    <3>2. last(E) = last(D)
      BY <2>2
    <3> HIDE DEF first, last
    <3> QED
      BY <2>2, <3>1, <3>2
  <2> QED
    BY <1>10, <2>3
\* In x, the characters are gone.
<1>14. ASSUME NEW i \in 1..n, x.s < i, i <= x.e
       PROVE  q[i] = IF i = x.s + 1 THEN x.change ELSE <<>>
  <2>1. /\ i - 1 \in Nat /\ i - 1 \in 0..x.e /\ i - 1 < x.e /\ x.s <= i - 1
        /\ (i = x.s + 1 <=> i - 1 = x.s)
    BY <1>1, <1>14
  <2>2. PutThere(D, i - 1) = {} /\ Removed(E, i - 1)
    BY <1>7, <1>9, <2>1
  <2>3. CASE i - 1 = x.s
    <3>1. PutThere(E, i - 1) = {x}
      BY <1>8, <2>1, <2>2, <2>3
    <3>2. Piece(text, E, i) = Cat(x.change, <<>>)
      BY <2>2, <3>1 DEF Piece, Cat
    <3> QED
      BY <1>1, <1>10, <2>1, <2>3, <3>2, CatEmpty
  <2>4. CASE i - 1 # x.s
    <3>1. PutThere(E, i - 1) = {}
      BY <1>8, <2>1, <2>2, <2>4
    <3>2. Piece(text, E, i) = Cat(<<>>, <<>>)
      BY <2>2, <3>1 DEF Piece, Cat
    <3> QED
      BY <1>10, <2>1, <2>4, <3>2, CatEmpty
  <2> QED
    BY <2>3, <2>4
\* An empty range: what x puts there comes first.
<1>15. ASSUME x.s = x.e
       PROVE  q[x.e + 1] = Cat(x.change, p[x.e + 1])
  <2>1. PICK i \in 1..n : i = x.e + 1 /\ i - 1 = x.s /\ i - 1 \in 0..x.e /\ i - 1 \in Nat
    BY <1>1, <1>15
  <2>2. PutThere(D, i - 1) = {} /\ PutThere(E, i - 1) = {x}
    BY <1>7, <1>8, <2>1
  <2>3. Removed(E, i - 1) <=> Removed(D, i - 1)
    <3>1. ~(x.s <= i - 1 /\ i - 1 < x.e)
      BY <1>1, <1>15, <2>1
    <3> QED
      BY <1>9, <2>1, <3>1
  <2> DEFINE last == IF i > Len(text) \/ Removed(D, i - 1) THEN <<>> ELSE <<text[i]>>
  <2>4. Piece(text, D, i) = Cat(<<>>, last) /\ Piece(text, E, i) = Cat(x.change, last)
    BY <2>2, <2>3 DEF Piece, Cat
  <2>5. last \in Strings(S)
    <3>1. <<>> \in Strings(S)
      BY <1>1, CatEmpty
    <3>2. i <= Len(text) => text[i] \in S
      BY <1>1, <2>1, LenProperties DEF Strings
    <3>3. i <= Len(text) => <<text[i]>> \in Strings(S)
      BY <3>2 DEF Strings
    <3> QED
      BY <1>1, <2>1, <3>1, <3>3
  <2> HIDE DEF last
  <2> QED
    BY <1>10, <2>1, <2>4, <2>5, CatEmpty
<1>16. Puts(q, p, x.change, x.s, x.e, n)
  <2>1. ASSUME x.s < x.e
        PROVE  q[x.s + 1] = x.change /\ q[x.e + 1] = p[x.e + 1]
    <3>1. PICK i \in 1..n : i = x.s + 1 /\ x.s < i /\ i <= x.e
      BY <1>1, <2>1
    <3>2. PICK k \in 1..n : k = x.e + 1 /\ x.e < k /\ k - 1 # x.s
      BY <1>1, <2>1
    <3> QED
      BY <1>13, <1>14, <3>1, <3>2
  <2>2. ASSUME x.s < x.e, NEW i \in x.s + 2..x.e
        PROVE  q[i] = <<>>
    <3>1. i \in 1..n /\ x.s < i /\ i <= x.e /\ i # x.s + 1
      BY <1>1
    <3> QED
      BY <1>14, <3>1
  <2>3. ASSUME NEW i \in x.e + 2..n
        PROVE  q[i] = p[i]
    <3>1. i \in 1..n /\ x.e < i /\ i - 1 # x.s
      BY <1>1
    <3> QED
      BY <1>13, <3>1
  <2> QED
    BY <1>15, <2>1, <2>2, <2>3 DEF Puts
<1> HIDE DEF n, E
<1>17. PICK t \in Strings(S) : /\ FlattenSeq(p) = Cat(Upto(text, x.e), t)
                               /\ FlattenSeq(q) = Cat(Upto(text, x.s), Cat(x.change, t))
  BY <1>1, <1>5, <1>6, <1>11, <1>12, <1>16, FlattenSpliced
<1>18. Spliced(Cat(Upto(text, x.e), t), x) = Cat(Upto(text, x.s), Cat(x.change, t))
  BY SplicedString
<1>19. AllAtOnce(text, E) = Spliced(AllAtOnce(text, D), x)
  BY <1>5, <1>6, <1>17, <1>18
<1> QED
  BY <1>19 DEF E

-----------------------------------------------------------------------------
(* Edits leave texts *)

\* The texts and changes consist of these characters.
LEMMA CharsOf ==
  /\ Newline \in Chars /\ Tag \in Chars /\ Text \in Strings(Chars) /\ <<>> \in Seq(Chars)
  /\ \A c \in Candidates : c.change \in Seq(Chars) /\ c.context \in Seq(Chars)
<1>1. Newline \in Chars /\ Tag \in Chars /\ Range(Text) \subseteq Chars
  BY DEF Chars
<1>2. \A c \in Candidates : Range(c.change) \subseteq Chars /\ Range(c.context) \subseteq Chars
  BY DEF Chars
<1>3. Text \in Seq(Chars)
  BY <1>1, TextAssumption, SeqMonotonic
<1>4. ASSUME NEW c \in Candidates
      PROVE  c.change \in Seq(Chars) /\ c.context \in Seq(Chars)
  BY <1>2, TextAssumption, SeqMonotonic
<1>5. <<>> \in Seq(Chars)
  OBVIOUS
<1> QED
  BY <1>1, <1>3, <1>4, <1>5 DEF Strings

LEMMA CandidateText ==
  ASSUME NEW c \in Candidates, NEW id
  PROVE  HasText(WithId(c, id)) /\ WithId(c, id).e = c.e
<1>1. DOMAIN c = {"op", "s", "e", "change", "context"}
  BY EditsAssumption
<1>2. /\ DOMAIN WithId(c, id) = {"op", "s", "e", "change", "context", "id"}
      /\ WithId(c, id).change = c.change /\ WithId(c, id).context = c.context
      /\ WithId(c, id).e = c.e
  BY <1>1 DEF WithId
<1> QED
  BY <1>2, CharsOf DEF HasText

LEMMA PlainText ==
  ASSUME NEW x, IsPlain(x)
  PROVE  HasText(x) /\ x.e = 0
<1>1. PICK op, id : x = WithId(Plain(op), id)
  BY DEF IsPlain
<1>2. DOMAIN Plain(op) = {"op", "s", "e", "change", "context"}
  BY DEF Plain
<1>3. Plain(op).change = <<>> /\ Plain(op).context = <<>> /\ Plain(op).e = 0
  BY DEF Plain
<1>4. DOMAIN x = {"op", "s", "e", "change", "context", "id"}
  BY <1>1, <1>2 DEF WithId
<1>5. x.change = Plain(op).change /\ x.context = Plain(op).context /\ x.e = Plain(op).e
  BY <1>1, <1>2 DEF WithId
<1> QED
  BY <1>3, <1>4, <1>5, CharsOf DEF HasText

LEMMA RowOfType ==
  ASSUME NEW text, NEW o \in Nat
  PROVE  RowOf(text, o) \in Nat
<1>1. IsFiniteSet(1..o)
  BY FS_Interval
<1> DEFINE T == {i \in 1..o : i <= Len(text) /\ text[i] = Newline}
<1>2. IsFiniteSet(T)
  BY <1>1, FS_Subset
<1>3. Cardinality(T) \in Nat
  BY <1>2, FS_CardinalityType
<1> QED
  BY <1>3 DEF RowOf

\* The rows of a mark are numbers, though not always those of the error.
LEMMA MarkText ==
  ASSUME cont \in Strings(Chars), NEW x, IsMark(x)
  PROVE  HasText(x)
<1>1. PICK err \in errors : \E range \in ErrorRanges(err) : \E id : x = WithId(ErrorMark(range), id)
  BY DEF IsMark
<1>2. PICK range \in ErrorRanges(err) : \E id : x = WithId(ErrorMark(range), id)
  BY <1>1
<1>3. PICK id : x = WithId(ErrorMark(range), id)
  BY <1>2
<1>4. range.rows[1] \in Nat /\ range.rows[2] \in Nat
  <2>1. CASE err.e = "CST_ERROR"
    <3>1. PICK o \in RowOffsets(cont) :
            range = [s |-> o, e |-> o, rows |-> <<RowOf(cont, o), RowOf(cont, o)>>]
      BY <2>1 DEF ErrorRanges
    <3>2. o \in Nat
      BY DEF RowOffsets
    <3>3. RowOf(cont, o) \in Nat
      BY <3>2, RowOfType
    <3> QED
      BY <3>1, <3>3
  <2>2. CASE err.e # "CST_ERROR"
    <3>1. PICK r \in {0, RowCount(cont)}, q \in {0, RowCount(cont)} : range.rows = <<r, q>>
      BY <2>2 DEF ErrorRanges
    <3>2. RowCount(cont) \in Nat
      BY Rows
    <3>3. r \in Nat /\ q \in Nat
      BY <3>2
    <3> QED
      BY <3>1, <3>3
  <2> QED
    BY <2>1, <2>2
<1>5. /\ DOMAIN ErrorMark(range) = {"op", "s", "e", "rows", "change", "context"}
      /\ ErrorMark(range).change = <<Tag>> /\ ErrorMark(range).context = <<Tag>>
      /\ ErrorMark(range).rows = range.rows
  BY DEF ErrorMark
<1>6. x.change = <<Tag>> /\ x.context = <<Tag>> /\ x.rows = range.rows
  BY <1>3, <1>5 DEF WithId
<1>7. <<Tag>> \in Seq(Chars)
  BY CharsOf
<1> QED
  BY <1>4, <1>6, <1>7 DEF HasText

\* erase leaves a text, and what precedes the range.
LEMMA EraseString ==
  ASSUME NEW S, NEW text \in Strings(S), NEW s \in Nat, NEW e \in Nat, s <= Len(text), s <= e
  PROVE  /\ Erase(text, s, e) \in Strings(S)
         /\ s \in 0..Len(Erase(text, s, e))
<1> DEFINE a == SubSeq(text, 1, s)
           b == SubSeq(text, e + 1, Len(text))
<1>1. text \in Seq(S) /\ Len(text) \in Nat /\ s \in Int /\ Len(text) \in Int /\ Len(text) <= Len(text)
      /\ 1 \in Nat \ {0} /\ e + 1 \in Nat \ {0}
  BY LenProperties DEF Strings
<1>2. a \in Strings(S) /\ b \in Strings(S)
  BY <1>1, SliceString
<1>3. Len(a) = s
  BY <1>1, SubSeqProperties
<1>4. Erase(text, s, e) = a \o b
  BY DEF Erase
<1> HIDE DEF a, b
<1>5. a \o b \in Strings(S) /\ Len(a \o b) = Len(a) + Len(b) /\ Len(b) \in Nat
  BY <1>2, ConcatProperties, LenProperties DEF Strings
<1> QED
  BY <1>3, <1>4, <1>5

\* The kinds that change the text leave a text.
LEMMA SplicedText ==
  ASSUME NEW text \in Strings(Chars), NEW x, IsEdit(x), HasText(x), x.op \in Splices,
         InRange(text, x.s)
  PROVE  Spliced(text, x) \in Strings(Chars)
<1>1. /\ x.s \in Nat /\ x.e \in Nat /\ x.s <= x.e /\ x.s <= Len(text) /\ Len(text) \in Nat
      /\ x.change \in Strings(Chars)
  BY Rows DEF IsEdit, HasText, InRange, Strings
<1>2. x.s \in 0..Len(text)
  BY <1>1
<1>3. PutAt(text, x.s, x.change) \in Strings(Chars)
  BY <1>1, <1>2, PutString
<1>4. Erase(text, x.s, x.e) \in Strings(Chars) /\ x.s \in 0..Len(Erase(text, x.s, x.e))
  BY <1>1, EraseString
<1>5. PutAt(Erase(text, x.s, x.e), x.s, x.change) \in Strings(Chars)
  BY <1>1, <1>4, PutString
<1> QED
  BY <1>3, <1>4, <1>5 DEF Spliced, Splices

LEMMA ReplacedText ==
  ASSUME NEW text \in Strings(Chars), NEW x, HasText(x)
  PROVE  Replaced(text, x) \in Strings(Chars)
<1> DEFINE n == Len(text)
           q == [i \in DOMAIN text |-> IF <<text[i]>> = x.change THEN x.context ELSE <<text[i]>>]
<1>1. n \in Nat /\ DOMAIN text = 1..n /\ \A i \in 1..n : text[i] \in Chars
  BY LenProperties DEF Strings
<1>2. \A i \in 1..n : <<text[i]>> \in Seq(Chars)
  BY <1>1
<1>3. q \in [1..n -> Strings(Chars)]
  BY <1>1, <1>2 DEF HasText, Strings
<1>4. Replaced(text, x) = FlattenSeq(q)
  BY DEF Replaced
<1>5. CASE n = 0
  <2>1. q = <<>>
    BY <1>1, <1>5
  <2>2. FlattenSeq(<<>>) = <<>>
    BY EmptySeq DEF FlattenSeq
  <2> QED
    BY <1>4, <2>1, <2>2, CharsOf DEF Strings
<1> HIDE DEF q
<1>6. CASE n # 0
  <2>1. PICK f : Sums(Chars, n, q, f)
    <3>1. n \in Nat \ {0}
      BY <1>1, <1>6
    <3> HIDE DEF n
    <3> QED
      BY <1>3, <3>1, FlattenSteps
  <2>2. f[n] = FlattenSeq(q) /\ f[n] \in Strings(Chars)
    BY <1>1, <2>1 DEF Sums
  <2> QED
    BY <1>4, <2>2
<1> QED
  BY <1>5, <1>6

Targets == [row : Nat, s : Strings(Chars)]

LEMMA JoinedTargets ==
  \A a, b \in Seq(Targets) : a \o b \in Seq(Targets)
OBVIOUS

LEMMA MarkTarget ==
  ASSUME NEW row \in Nat, NEW s \in Seq(Chars)
  PROVE  Mark(row, s) \in Seq(Targets)
<1>1. Append(s, Tag) \in Strings(Chars)
  BY CharsOf, AppendProperties DEF Strings
<1>2. [row |-> row, s |-> Append(s, Tag)] \in Targets
  BY <1>1 DEF Targets
<1> HIDE DEF Targets
<1>3. <<[row |-> row, s |-> Append(s, Tag)]>> \in Seq(Targets) /\ <<>> \in Seq(Targets)
  BY <1>2
<1> QED
  BY <1>3 DEF Mark

LEMMA RowTargetsText ==
  ASSUME IsEdit(Edit), HasText(Edit), Edit.op \in RowOps
  PROVE  RowTargets \in Seq(Targets)
<1>1. StartRow \in Nat /\ EndRow \in Nat
  BY RowOfType DEF StartRow, EndRow, IsEdit, HasText
<1>2. Edit.change \in Seq(Chars) /\ Edit.context \in Seq(Chars) /\ EndRow + 1 \in Nat
  BY <1>1 DEF HasText
<1>3. /\ [row |-> StartRow, s |-> Edit.change] \in Targets
      /\ [row |-> EndRow + 1, s |-> Edit.change] \in Targets
  BY <1>1, <1>2 DEF Targets, Strings
<1>4. CASE Edit.op = "MARK"
  <2> DEFINE a == Mark(EndRow + 1, Edit.change)
             b == Mark(StartRow, Edit.context)
             c == Mark(StartRow, Edit.change)
  <2>1. a \in Seq(Targets) /\ b \in Seq(Targets) /\ c \in Seq(Targets)
    BY <1>1, <1>2, MarkTarget
  <2>2. RowTargets = (a \o b) \o c
    BY <1>4 DEF RowTargets
  <2> HIDE DEF a, b, c
  <2> QED
    BY <2>1, <2>2, JoinedTargets
<1>5. CASE Edit.op # "MARK"
  <2>1. RowTargets \in {<<[row |-> StartRow, s |-> Edit.change]>>,
                        <<[row |-> EndRow + 1, s |-> Edit.change]>>}
    BY <1>5 DEF RowTargets, RowOps
  <2> HIDE DEF Targets
  <2> QED
    <3>1. \A t \in Targets : <<t>> \in Seq(Targets)
      OBVIOUS
    <3> QED
      BY <1>3, <2>1, <3>1
<1> QED
  BY <1>4, <1>5

LEMMA RowsText ==
  ASSUME cont \in Strings(Chars), IsEdit(Edit), HasText(Edit), Edit.op \in RowOps, RowsExist,
         NEW after \in AfterRows(cont, RowTargets)
  PROVE  after \in Strings(Chars)
<1>1. PICK targets \in Seq(Targets) : targets = RowTargets
  BY RowTargetsText
<1>2. /\ Len(targets) \in Nat /\ DOMAIN targets = 1..Len(targets)
      /\ \A i \in 1..Len(targets) : targets[i] \in Targets
  BY <1>1, LenProperties
<1>3. ASSUME NEW i \in 1..Len(targets)
      PROVE  /\ targets[i].row \in Nat /\ targets[i].row < RowCount(cont)
             /\ targets[i].s \in Strings(Chars)
  <2>1. targets[i].row < RowCount(cont)
    BY <1>1, <1>2 DEF RowsExist
  <2>2. targets[i] \in Targets
    BY <1>2
  <2> QED
    BY <2>1, <2>2 DEF Targets
<1>4. after \in AfterRows(cont, targets) /\ Newline \in Chars
  BY <1>1, CharsOf
<1> QED
  BY <1>2, <1>3, <1>4, AfterRowsString

\* A step leaves the text a text.
LEMMA ContStep ==
  ASSUME TypeOK, QueueInv, TextInv, Step
  PROVE  cont' \in Strings(Chars)
<1>1. cont \in Strings(Chars)
  BY DEF TextInv, Strings
<1>2. currStep \in Nat /\ Len(ops) \in Nat /\ DOMAIN ops = 1..Len(ops)
  BY QueueType, BoundsAssumption DEF TypeOK, QueueInv
<1>3. ASSUME currStep < Len(ops)
      PROVE  IsEdit(Edit) /\ HasText(Edit)
  <2>1. currStep + 1 \in 1..Len(ops)
    BY <1>2, <1>3
  <2>2. IsEdit(ops[currStep + 1])
    BY <2>1, QueueType DEF QueueInv
  <2>3. HasText(ops[currStep + 1])
    BY <1>2, <2>1 DEF TextInv
  <2> QED
    BY <2>2, <2>3 DEF Edit
<1>4. CASE StepSplice
  <2>1. /\ IsEdit(Edit) /\ HasText(Edit) /\ Edit.op \in Splices
        /\ InRange(cont, Edit.s) /\ cont' = Spliced(cont, Edit)
    BY <1>3, <1>4 DEF StepSplice, Stepping, Iterating
  <2> QED
    BY <1>1, <2>1, SplicedText
<1>5. CASE StepRows
  <2>1. /\ IsEdit(Edit) /\ HasText(Edit) /\ Edit.op \in RowOps /\ RowsExist
        /\ cont' \in AfterRows(cont, RowTargets)
    BY <1>3, <1>5 DEF StepRows, Stepping, Iterating
  <2> QED
    BY <1>1, <2>1, RowsText
<1>6. CASE StepReplace
  <2>1. HasText(Edit) /\ cont' = Replaced(cont, Edit)
    BY <1>3, <1>6 DEF StepReplace, Stepping, Iterating
  <2> QED
    BY <1>1, <2>1, ReplacedText
<1>7. CASE ~(StepSplice \/ StepRows \/ StepReplace)
  <2>1. StepPastEnd \/ SaveWrites \/ ApplyReturns \/ MarkErrors \/ MarkErrorsReturns => cont' = cont
    BY DEF StepPastEnd, SaveWrites, ApplyReturns, MarkErrors, MarkErrorsReturns, writer
  <2>2. StepThrows \/ StepRowsOutside \/ StepReplaceFreed \/ StepReplaceThrows => cont' = cont
    BY DEF StepThrows, StepRowsOutside, StepReplaceFreed, StepReplaceThrows, writer
  <2>3. StepValidate \/ StepPrint \/ StepBackup \/ StepSave => cont' = cont
    BY DEF StepValidate, StepPrint, StepBackup, StepSave, writer
  <2> QED
    BY <1>1, <1>7, <2>1, <2>2, <2>3 DEF Step
<1> QED
  BY <1>4, <1>5, <1>6, <1>7

\* Each call and step preserves that these are texts, and rows are numbers,
LEMMA TextStepInv ==
  ASSUME TypeOK, QueueInv, MarksInv, TextInv, Next
  PROVE  TextInv'
<1>1. /\ cont \in Strings(Chars) /\ base \in Seq(Chars)
      /\ Len(ops) \in Nat /\ DOMAIN ops = 1..Len(ops) /\ \A i \in 1..Len(ops) : HasText(ops[i])
      /\ Marking => "marks" \in trouble /\ \A i \in DOMAIN kept.ops : HasText(kept.ops[i])
  BY QueueType DEF TextInv, QueueInv, Strings
<1>2. /\ ~(Outside.during = "marks") /\ ~(First.during = "marks")
      /\ MayCall => ~Marking
  BY DEF Outside, First, MarksInv, Marking
<1>3. ASSUME NEW edit \in Candidates, Queue(edit)
      PROVE  TextInv'
  <2>1. /\ ops' = Append(ops, WithId(edit, nextId + 1))
        /\ UNCHANGED <<cont, base, trouble, kept>> /\ ~Marking
    BY <1>2, <1>3 DEF Queue, writer
  <2>2. IsQueue(ops)
    BY DEF QueueInv
  <2>3. HasText(WithId(edit, nextId + 1))
    BY CandidateText
  <2>4. \A i \in DOMAIN ops' : HasText(ops'[i])
    <3>1. PICK x : x = WithId(edit, nextId + 1)
      OBVIOUS
    <3>2. ops \in Seq(Range(ops) \cup {x}) /\ x \in Range(ops) \cup {x}
      BY <2>2, SeqMonotonic DEF IsQueue
    <3>3. /\ DOMAIN ops' = 1..Len(ops) + 1 /\ \A i \in 1..Len(ops) : ops'[i] = ops[i]
          /\ ops'[Len(ops) + 1] = x
      BY <2>1, <3>1, <3>2, AppendProperties, LenProperties
    <3>4. \A i \in DOMAIN ops' : i \in 1..Len(ops) \/ i = Len(ops) + 1
      BY <1>1, <3>3
    <3> QED
      BY <1>1, <2>3, <3>1, <3>3, <3>4
  <2> QED
    BY <1>1, <2>1, <2>4 DEF TextInv, Marking, Strings
<1>4. ASSUME NEW id \in 1..nextId, DelEdit(id)
      PROVE  TextInv'
  <2>1. UNCHANGED <<cont, base, trouble, kept>> /\ ~Marking
    BY <1>2, <1>4 DEF DelEdit, writer
  <2>2. PICK k \in DOMAIN ops : ops' = RemoveAt(ops, k)
    BY <1>4 DEF DelEdit
  <2>3. \A i \in DOMAIN ops' : \E m \in 1..Len(ops) : ops'[i] = ops[m]
    <3>1. ops' \in Seq(Range(ops))
      BY <2>2, RemoveQueue DEF QueueInv
    <3>2. \A i \in DOMAIN ops' : ops'[i] \in Range(ops)
      BY <3>1, LenProperties
    <3> QED
      BY <1>1, <3>2 DEF Range
  <2> QED
    BY <1>1, <2>1, <2>3 DEF TextInv, Marking, Strings
<1>5. CASE Reset
  <2>1. ops' = <<>> /\ cont' = cont /\ base' = cont /\ kept' = kept /\ ~Marking
    BY <1>2, <1>5 DEF Reset
  <2>2. DOMAIN ops' = {}
    BY <2>1
  <2> QED
    BY <1>1, <2>1, <2>2 DEF TextInv, Marking, Strings
<1>6. CASE GetConflicts \/ StepCalled
  <2>1. UNCHANGED <<ops, cont, base, kept>> /\ ~Marking
    BY <1>2, <1>6 DEF GetConflicts, StepCalled, writer, editor
  <2> QED
    BY <1>1, <2>1 DEF TextInv, Marking, Strings
<1>7. ASSUME NEW final \in Finals, Apply(final)
      PROVE  TextInv'
  <2>1. UNCHANGED <<cont, base>> /\ kept' \in {First, Outside}
    BY <1>7 DEF Apply, writer
  <2>2. /\ IsQueue(ops')
        /\ \A i \in 1..Len(ops') : IsPlain(ops'[i]) \/ \E k \in 1..Len(ops) : ops'[i] = ops[k]
    BY <1>7, ApplyShape
  <2>3. \A i \in 1..Len(ops') : HasText(ops'[i])
    BY <1>1, <2>2, PlainText
  <2>4. DOMAIN ops' = 1..Len(ops')
    BY <2>2, QueueType
  <2> QED
    BY <1>1, <1>2, <2>1, <2>3, <2>4 DEF TextInv, Marking, Strings
<1>8. CASE Iteration /\ Step
  <2>1. /\ ops' = ops /\ base' = base /\ trouble \subseteq trouble'
        /\ kept' = kept \/ kept' = Outside
    BY <1>8, Iterated
  <2>2. cont' \in Strings(Chars)
    BY <1>8, ContStep
  <2> QED
    BY <1>1, <1>2, <2>1, <2>2 DEF TextInv, Marking, Strings
<1>9. CASE StepPastEnd \/ SaveWrites \/ ApplyReturns
  <2>1. /\ UNCHANGED <<ops, cont, base>> /\ trouble \subseteq trouble'
        /\ kept' = kept \/ kept' = Outside
    BY <1>9 DEF StepPastEnd, SaveWrites, ApplyReturns, writer, editor
  <2> QED
    BY <1>1, <1>2, <2>1 DEF TextInv, Marking, Strings
<1>10. CASE MarkErrors
  <2>1. /\ UNCHANGED <<cont, base>> /\ trouble' = trouble \cup {"marks"}
        /\ kept' = [during |-> "marks", ops |-> ops, currStep |-> currStep, nextId |-> nextId, errors |-> errors]
    BY <1>10 DEF MarkErrors, writer
  <2>2. /\ IsQueue(ops')
        /\ \A i \in 1..Len(ops') : IsPlain(ops'[i]) \/ IsMark(ops'[i])
    BY <1>10, MarkErrorsShape
  <2>3. \A i \in 1..Len(ops') : HasText(ops'[i])
    BY <1>1, <2>2, PlainText, MarkText
  <2>4. DOMAIN ops' = 1..Len(ops')
    BY <2>2, QueueType
  <2>5. kept'.ops = ops
    BY <2>1
  <2> QED
    BY <1>1, <2>1, <2>3, <2>4, <2>5 DEF TextInv, Marking, Strings
<1>11. CASE MarkErrorsReturns
  <2>1. UNCHANGED <<cont, base>> /\ kept' = Outside /\ ops' = kept.ops /\ Marking
    BY <1>11 DEF MarkErrorsReturns, Marking, writer
  <2> QED
    BY <1>1, <1>2, <2>1 DEF TextInv, Marking, Strings
<1> QED
  BY <1>3, <1>4, <1>5, <1>6, <1>7, <1>8, <1>9, <1>10, <1>11, StepForms DEF Next, Call, Other

-----------------------------------------------------------------------------
(* Edits of one kind *)

\* that the ranges of a queue lie in the text they refer to,
LEMMA PlacesStep ==
  ASSUME TypeOK, QueueInv, MarksInv, BackupInv, TextInv, PlacesInv, Next
  PROVE  PlacesInv'
<1>1. /\ Len(ops) \in Nat /\ DOMAIN ops = 1..Len(ops) /\ Len(base) \in Nat
      /\ currStep = 0 /\ ~Marking => \A i \in 1..Len(ops) : ops[i].e <= Len(base)
  BY QueueType, LenProperties DEF QueueInv, PlacesInv, TextInv
<1>2. /\ ~(Outside.during = "marks") /\ ~(First.during = "marks")
      /\ MayCall => ~Marking
  BY DEF Outside, First, MarksInv, Marking
<1>3. ASSUME NEW edit \in Candidates, Queue(edit)
      PROVE  PlacesInv'
  <2>1. /\ ops' = Append(ops, WithId(edit, nextId + 1)) /\ UNCHANGED <<currStep, base>> /\ ~Marking
        /\ edit.e <= Len(cont) /\ pc' = "idle"
    BY <1>2, <1>3 DEF Queue
  <2>2. ~FirstPass'
    BY <2>1 DEF FirstPass
  <2> SUFFICES ASSUME currStep = 0
               PROVE  \A i \in DOMAIN ops' : ops'[i].e <= Len(base)
    BY <2>1, <2>2 DEF PlacesInv
  <2>3. WithId(edit, nextId + 1).e <= Len(base)
    BY <2>1, CandidateText DEF BackupInv
  <2>4. PICK x : x = WithId(edit, nextId + 1)
    OBVIOUS
  <2>5. ops \in Seq(Range(ops) \cup {x}) /\ x \in Range(ops) \cup {x}
    BY SeqMonotonic DEF QueueInv, IsQueue
  <2>6. /\ DOMAIN ops' = 1..Len(ops) + 1 /\ \A i \in 1..Len(ops) : ops'[i] = ops[i]
        /\ ops'[Len(ops) + 1] = x
    BY <2>1, <2>4, <2>5, AppendProperties, LenProperties
  <2>7. \A i \in DOMAIN ops' : i \in 1..Len(ops) \/ i = Len(ops) + 1
    BY <1>1, <2>6
  <2> QED
    BY <1>1, <2>1, <2>3, <2>4, <2>6, <2>7
<1>4. ASSUME NEW id \in 1..nextId, DelEdit(id)
      PROVE  PlacesInv'
  <2>1. UNCHANGED <<currStep, base>> /\ ~Marking /\ pc' = "idle"
    BY <1>2, <1>4 DEF DelEdit
  <2>2. PICK k \in DOMAIN ops : ops' = RemoveAt(ops, k)
    BY <1>4 DEF DelEdit
  <2>3. ops' \in Seq(Range(ops))
    BY <2>2, RemoveQueue DEF QueueInv
  <2>4. \A i \in DOMAIN ops' : ops'[i] \in Range(ops)
    BY <2>3, LenProperties
  <2>5. \A i \in DOMAIN ops' : \E m \in 1..Len(ops) : ops'[i] = ops[m]
    BY <1>1, <2>4 DEF Range
  <2> QED
    BY <1>1, <2>1, <2>5 DEF PlacesInv, FirstPass
<1>5. CASE Reset
  <2>1. DOMAIN ops' = {}
    BY <1>5 DEF Reset
  <2> QED
    BY <2>1 DEF PlacesInv
<1>6. CASE GetConflicts \/ StepCalled \/ StepPastEnd
  <2>1. UNCHANGED <<ops, currStep, base, kept>>
    BY <1>6 DEF GetConflicts, StepCalled, StepPastEnd, editor
  <2>2. ~FirstPass'
    <3>1. pc' \in {"idle", "undefined"} \/ "step" \in trouble'
      BY <1>6 DEF GetConflicts, StepCalled, StepPastEnd
    <3> QED
      BY <3>1 DEF FirstPass
  <2> QED
    BY <1>1, <2>1, <2>2 DEF PlacesInv, Marking
<1>7. ASSUME NEW final \in Finals, Apply(final)
      PROVE  PlacesInv'
  <2>1. UNCHANGED <<currStep, base>> /\ ~Marking
    BY <1>2, <1>7 DEF Apply
  <2>2. /\ IsQueue(ops')
        /\ \A i \in 1..Len(ops') : IsPlain(ops'[i]) \/ \E k \in 1..Len(ops) : ops'[i] = ops[k]
    BY <1>7, ApplyShape
  <2>3. DOMAIN ops' = 1..Len(ops')
    BY <2>2, QueueType
  <2>4. FirstPass' => currStep' = 0
    BY <1>7, PassBegins
  <2>5. ASSUME currStep = 0, NEW i \in 1..Len(ops')
        PROVE  ops'[i].e <= Len(base)
    <3>1. IsPlain(ops'[i]) => ops'[i].e = 0
      BY PlainText
    <3> QED
      BY <1>1, <2>1, <2>2, <2>5, <3>1
  <2> QED
    BY <2>1, <2>3, <2>4, <2>5 DEF PlacesInv
<1>8. CASE Iteration
  <2>1. /\ currStep \in Nat /\ currStep' = currStep + 1 /\ ops' = ops /\ base' = base
        /\ kept' = kept \/ pc' = "idle"
    <3>1. MaxSteps \in Nat /\ currStep \in Nat
      BY BoundsAssumption DEF TypeOK
    <3> QED
      BY <1>8, <3>1, Iterated
  <2>2. currStep' # 0 /\ (FirstPass' => FirstPass /\ kept' = kept)
    <3>1. FirstPass' => FirstPass
      BY <1>8, IterationPass
    <3> QED
      BY <2>1, <3>1 DEF FirstPass
  <2> QED
    BY <2>1, <2>2 DEF PlacesInv, Marking
<1>9. CASE SaveWrites
  <2>1. /\ UNCHANGED <<ops, currStep, base, kept, left>>
        /\ trouble \subseteq trouble' /\ pc = "saving"
    BY <1>9 DEF SaveWrites, editor
  <2>2. FirstPass' => FirstPass
    BY <2>1 DEF FirstPass
  <2> QED
    BY <2>1, <2>2 DEF PlacesInv, Marking
<1>10. CASE ApplyReturns
  <2>1. UNCHANGED <<ops, currStep, base>> /\ pc' = "applied" /\ ~Marking
    BY <1>2, <1>10 DEF ApplyReturns, editor, Marking
  <2> QED
    BY <1>1, <2>1 DEF PlacesInv, FirstPass
<1>11. CASE MarkErrors
  BY <1>11 DEF MarkErrors, PlacesInv, Marking
<1>12. CASE MarkErrorsReturns
  <2>1. currStep' = kept.currStep /\ pc' = "applied" /\ Marking
    BY <1>12 DEF MarkErrorsReturns, Marking
  <2>2. currStep' # 0
    BY <2>1, BoundsAssumption DEF QueueInv
  <2> QED
    BY <2>1, <2>2 DEF PlacesInv, FirstPass
<1> QED
  BY <1>3, <1>4, <1>5, <1>6, <1>7, <1>8, <1>9, <1>10, <1>11, <1>12, StepForms DEF Next, Call, Other

\* A splice that goes through is what its kind says.
LEMMA SpliceStep ==
  ASSUME TypeOK, QueueInv, Step, Iteration, Edit.op \in Splices, trouble' = {}
  PROVE  StepSplice
<1>1. pc = "applying" /\ left > 0 /\ currStep' = currStep + 1 /\ currStep \in Nat
  <2>1. MaxSteps \in Nat /\ currStep \in Nat
    BY BoundsAssumption DEF TypeOK
  <2> QED
    BY <2>1, Iterated
<1>2. currStep' # currStep /\ left # 0
  BY <1>1
<1>3. ~StepPastEnd /\ ~SaveWrites /\ ~ApplyReturns /\ ~MarkErrors /\ ~MarkErrorsReturns
  BY <1>1, <1>2 DEF StepPastEnd, SaveWrites, ApplyReturns, MarkErrors, MarkErrorsReturns, editor
<1>4. ~StepThrows
  BY DEF StepThrows
<1>5. Splices \cap (RowOps \cup Prints \cup {"REPLACE", "VALIDATE_CST", "BACKUP", "SAVE",
                                            "SAVE_VALID_ONLY", "WRITE_TO"}) = {}
  BY DEF Splices, RowOps, Prints
<1>6. ~StepRows /\ ~StepRowsOutside
  BY <1>5 DEF StepRows, StepRowsOutside, Stepping, Iterating
<1>7. ~StepReplace /\ ~StepReplaceFreed /\ ~StepReplaceThrows
  BY <1>5 DEF StepReplace, StepReplaceFreed, StepReplaceThrows, Stepping, Throwing, Iterating
<1>8. ~StepValidate /\ ~StepPrint /\ ~StepBackup /\ ~StepSave
  BY <1>5 DEF StepValidate, StepPrint, StepBackup, StepSave, Stepping, Iterating
<1> QED
  BY <1>3, <1>4, <1>6, <1>7, <1>8 DEF Step

\* Other kinds leave the text alone.
LEMMA OtherStep ==
  ASSUME Iteration, Edit.op \notin TextOps
  PROVE  cont' = cont
<1>1. ~TextStep /\ ~StopStep
  BY DEF TextStep, StopStep, Stepping, Iterating
<1> QED
  BY <1>1 DEF Iteration, StepValidate, StepPrint, StepBackup, StepSave, writer

LEMMA EditsApart ==
  ASSUME QueueInv, TextInv, Apart, NEW i \in DOMAIN ops, ops[i].op \in TextOps
  PROVE  ops[i] \in Edits /\ IsSplice(Chars, ops[i])
<1>1. ops[i] \in Edits
  BY DEF Edits
<1>2. IsEdit(ops[i]) /\ HasText(ops[i])
  BY DEF QueueInv, IsQueue, TextInv
<1>3. /\ ops[i].op \in Splices /\ (ops[i].op = "DELETE" => ops[i].change = <<>>)
      /\ (ops[i].op = "INSERT" => ops[i].s = ops[i].e)
  BY <1>1 DEF Apart
<1> QED
  BY <1>1, <1>2, <1>3 DEF IsSplice, IsEdit, HasText, Strings

\* An edit of the one kind comes where those before it have changed nothing.
LEMMA Before ==
  ASSUME QueueInv, PassInv, Passing, TextInv, Apart, OneKind,
         NEW i \in DOMAIN ops, NEW k \in DOMAIN ops, i < k,
         ops[i].op \in TextOps, ops[k].op \in TextOps
  PROVE  ops[k].s < ops[i].s /\ ops[k].e <= ops[i].s
<1>1. ops[i] \in Edits /\ ops[k] \in Edits
  BY DEF Edits
<1>2. /\ ops[i].s \in Nat /\ ops[i].e \in Nat /\ ops[i].s <= ops[i].e
      /\ ops[k].s \in Nat /\ ops[k].e \in Nat /\ ops[k].s <= ops[k].e
  BY DEF QueueInv, IsQueue, IsEdit
<1>3. i # k
  BY QueueType DEF QueueInv
<1>4. ops[k].s # ops[i].s /\ ~Overlap(ops[k], ops[i])
  BY <1>1, <1>3 DEF Apart
<1>5. ops[k].op = ops[i].op /\ ~Earlier(ops[k], ops[i])
  BY <1>1 DEF OneKind, PassInv
<1>6. ~(ops[k].s > ops[i].s)
  BY <1>5 DEF Earlier
<1>7. ops[k].s < ops[i].s
  BY <1>2, <1>4, <1>6
<1>8. ASSUME ops[i].s < ops[k].e
      PROVE  FALSE
  <2>1. CASE ops[i].s = ops[i].e
    BY <1>4, <1>7, <1>8, <2>1 DEF Overlap
  <2>2. CASE ops[i].s # ops[i].e
    <3>1. ops[i].s \in ops[k].s..ops[k].e - 1 /\ ops[i].s \in ops[i].s..ops[i].e - 1
      BY <1>2, <1>7, <1>8, <2>2
    <3> QED
      BY <1>4, <3>1 DEF Overlap
  <2> QED
    BY <2>1, <2>2
<1> QED
  BY <1>2, <1>7, <1>8

\* and that a pass over edits of one kind has done what those behind it ask.
LEMMA LandStep ==
  ASSUME TypeOK, QueueInv, MarksInv, PassInv, BackupInv, BackupInv', TextInv, TextInv',
         PlacesInv, LandInv, Next
  PROVE  LandInv'
<1> SUFFICES ASSUME FirstPass', ~Marking', trouble' = {}, Apart', OneKind'
             PROVE  cont' = AllAtOnce(base', DoneEdits')
  BY DEF LandInv
<1>1. ASSUME NEW final \in Finals, Apply(final)
      PROVE  cont' = AllAtOnce(base', DoneEdits')
  <2>1. currStep' = 0
    BY <1>1, PassBegins
  <2>2. DoneEdits' = {}
    <3>1. 1..currStep' = {}
      BY <2>1
    <3> QED
      BY <3>1 DEF DoneEdits
  <2>3. cont' = base' /\ base' \in Strings(Chars)
    BY <2>1 DEF BackupInv, TextInv, Strings
  <2> QED
    BY <2>2, <2>3, NothingAtOnce
<1>2. CASE SaveWrites
  <2>1. UNCHANGED <<ops, currStep, cont, base, kept, left>> /\ trouble \subseteq trouble' /\ pc = "saving"
    BY <1>2 DEF SaveWrites, editor
  <2>2. FirstPass /\ ~Marking /\ trouble = {} /\ Apart /\ OneKind /\ DoneEdits' = DoneEdits
    BY <2>1 DEF FirstPass, Marking, Apart, OneKind, Edits, DoneEdits
  <2> QED
    BY <2>1, <2>2 DEF LandInv
<1>3. CASE Iteration /\ Step
  <2>1. /\ currStep \in Nat /\ currStep' = currStep + 1 /\ ops' = ops /\ base' = base
        /\ kept' = kept \/ pc' = "idle"
        /\ currStep + 1 \in DOMAIN ops /\ DOMAIN ops = 1..Len(ops) /\ Len(ops) \in Nat
        /\ trouble \subseteq trouble' /\ pc = "applying"
    <3>1. MaxSteps \in Nat /\ currStep \in Nat /\ Len(ops) \in Nat
      BY BoundsAssumption, QueueType DEF TypeOK, QueueInv
    <3> QED
      BY <1>3, <3>1, Iterated
  <2>2. FirstPass
    BY <1>3, IterationPass
  <2>3. ~Marking /\ trouble = {} /\ Apart /\ OneKind /\ Passing
    <3>1. kept' = kept
      BY <2>1 DEF FirstPass
    <3>2. Edits' = Edits
      BY <2>1 DEF Edits
    <3> QED
      BY <2>1, <2>2, <3>1, <3>2 DEF Marking, Apart, OneKind, FirstPass, Passing
  <2>4. cont = AllAtOnce(base, DoneEdits)
    BY <2>2, <2>3 DEF LandInv
  <2>5. PICK k \in DOMAIN ops : k = currStep + 1
    BY <2>1
  <2>6. \A i : i \in 1..currStep + 1 <=> i \in 1..currStep \/ i = k
    BY <2>1, <2>5
  <2>7. \A i \in 1..currStep : i \in DOMAIN ops /\ i < k
    BY <2>1, <2>5
  <2>8. Edit = ops[k]
    BY <2>5 DEF Edit
  <2>9. CASE ops[k].op \notin TextOps
    <3>1. DoneEdits' = DoneEdits
      BY <2>1, <2>6, <2>9 DEF DoneEdits
    <3> QED
      BY <1>3, <2>1, <2>4, <2>8, <2>9, <3>1, OtherStep
  <2>10. CASE ops[k].op \in TextOps
    <3>1. DoneEdits' = DoneEdits \cup {ops[k]}
      BY <2>1, <2>6, <2>10 DEF DoneEdits
    <3>2. IsSplice(Chars, ops[k]) /\ ops[k].op \in Splices
      BY <2>3, <2>10, EditsApart DEF IsSplice
    <3>3. cont' = Spliced(cont, ops[k])
      <4>1. StepSplice
        BY <1>3, <2>8, <3>2, SpliceStep
      <4> QED
        BY <2>8, <4>1 DEF StepSplice
    <3>4. \A d \in DoneEdits : /\ IsSplice(Chars, d)
                               /\ ops[k].s < d.s /\ ops[k].e <= d.s
      <4> SUFFICES ASSUME NEW i \in 1..currStep, ops[i].op \in TextOps
                   PROVE  /\ IsSplice(Chars, ops[i])
                          /\ ops[k].s < ops[i].s /\ ops[k].e <= ops[i].s
        BY DEF DoneEdits
      <4>1. i \in DOMAIN ops /\ i < k
        BY <2>7
      <4> QED
        BY <2>3, <2>10, <4>1, EditsApart, Before
    <3>5. ops[k].e <= Len(base)
      BY <2>2, <2>3 DEF PlacesInv
    <3>6. PICK D, x, text : D = DoneEdits /\ x = ops[k] /\ text = base
      OBVIOUS
    <3>7. text \in Strings(Chars)
      BY <3>6 DEF TextInv, Strings
    <3>8. /\ \A d \in D : IsSplice(Chars, d)
          /\ IsSplice(Chars, x) /\ Precedes(x, D) /\ x.e <= Len(text)
      BY <3>2, <3>4, <3>5, <3>6 DEF Precedes
    <3>9. AllAtOnce(text, D \cup {x}) = Spliced(AllAtOnce(text, D), x)
      BY <3>7, <3>8, SpliceAtOnce
    <3> QED
      BY <2>1, <2>4, <3>1, <3>3, <3>6, <3>9
  <2> QED
    BY <2>9, <2>10
<1>4. ~MarkErrors
  BY DEF MarkErrors
<1>5. Iteration => Step
  <2> SUFFICES ASSUME Iteration PROVE ~Call
    BY DEF Next
  <2>1. pc = "applying"
    BY Iterated
  <2> QED
    BY <2>1 DEF Call, MayCall, Queue, DelEdit, Reset, GetConflicts, Apply, StepCalled
<1> QED
  BY <1>1, <1>2, <1>3, <1>4, <1>5, NotPassing

\* When apply returns, the pass is at its end.
LEMMA SameKindStep ==
  ASSUME TypeOK, QueueInv, MarksInv, PassInv, TextInv, LandInv, SameKindLands, Next
  PROVE  SameKindLands'
<1> SUFFICES ASSUME Complete', Apart', OneKind'
             PROVE  cont' = AllAtOnce(base', Edits')
  BY DEF SameKindLands
<1>1. pc' = "applied" /\ trouble' = {}
  BY DEF Complete
<1>2. ~Call
  <2>1. \A edit \in Candidates : ~Queue(edit)
    BY <1>1 DEF Queue
  <2>2. \A id \in 1..nextId : ~DelEdit(id)
    BY <1>1 DEF DelEdit
  <2>3. ~Reset /\ ~GetConflicts /\ ~StepCalled
    BY <1>1 DEF Reset, GetConflicts, StepCalled
  <2>4. \A final \in Finals : ~Apply(final)
    BY <1>1 DEF Apply, Start
  <2> QED
    BY <2>1, <2>2, <2>3, <2>4 DEF Call
<1>3. ~Iteration
  BY <1>1, Iterated
<1>4. ~StepPastEnd /\ ~SaveWrites /\ ~MarkErrors
  BY <1>1 DEF StepPastEnd, SaveWrites, MarkErrors
<1>5. ~MarkErrorsReturns
  BY <1>1 DEF MarkErrorsReturns, TextInv, Marking
<1>6. ApplyReturns
  BY <1>2, <1>3, <1>4, <1>5, StepForms DEF Next, Other
<1>7. /\ pc = "applying" /\ left = 0 /\ trouble = {} /\ ~Marking
      /\ UNCHANGED <<ops, currStep, cont, base>>
  BY <1>1, <1>6 DEF ApplyReturns, Marking, Outside, First, editor, writer
<1>8. FirstPass
  BY <1>7 DEF PassInv, Passing
<1>9. Apart /\ OneKind /\ Edits' = Edits
  BY <1>7 DEF Apart, OneKind, Edits
<1>10. cont = AllAtOnce(base, DoneEdits)
  BY <1>7, <1>8, <1>9 DEF LandInv
<1>11. DoneEdits = Edits
  <2>1. currStep \in Nat /\ Len(ops) \in Nat /\ DOMAIN ops = 1..Len(ops)
    BY QueueType, BoundsAssumption DEF TypeOK, QueueInv
  <2>2. currStep = Len(ops)
    BY <1>7, <1>8, <2>1 DEF FirstPass
  <2> QED
    BY <2>1, <2>2 DEF DoneEdits, Edits
<1> QED
  BY <1>7, <1>9, <1>10, <1>11

\* When apply returns from a first pass over edits of one kind that do not
\* overlap, the text is what all of them make of the text they were queued
\* for: executed bottom to top, none moves the text under another.
THEOREM SameKindDoesLand == Spec => []SameKindLands
<1>1. Init => LandsInv
  <2> SUFFICES ASSUME Init PROVE LandsInv
    OBVIOUS
  <2>1. cont = Text /\ base = Text /\ ops = <<>> /\ pc = "idle" /\ kept = Outside
    BY DEF Init
  <2>2. DOMAIN ops = {} /\ Text \in Seq(Chars) /\ ~Marking
    BY <2>1, CharsOf DEF Marking, Outside, Strings
  <2> QED
    BY <2>1, <2>2 DEF LandsInv, TextInv, PlacesInv, LandInv, SameKindLands, Complete, FirstPass
<1>2. IInv /\ IInv' /\ LandsInv /\ [Next]_vars => LandsInv'
  <2> SUFFICES ASSUME IInv, IInv', LandsInv, [Next]_vars
               PROVE  LandsInv'
    OBVIOUS
  <2>1. CASE Next
    <3>1. TextInv'
      BY <2>1, TextStepInv DEF IInv, LandsInv
    <3>2. PlacesInv'
      BY <2>1, PlacesStep DEF IInv, LandsInv
    <3>3. LandInv'
      BY <2>1, <3>1, LandStep DEF IInv, LandsInv
    <3>4. SameKindLands'
      BY <2>1, SameKindStep DEF IInv, LandsInv
    <3> QED
      BY <3>1, <3>2, <3>3, <3>4 DEF LandsInv
  <2>2. CASE UNCHANGED vars
    <3>1. UNCHANGED <<ops, currStep, cont, base, pc, left, trouble, kept>>
      BY <2>2 DEF vars, editor, writer
    <3>2. TextInv' /\ PlacesInv'
      BY <3>1 DEF LandsInv, TextInv, PlacesInv, Marking, FirstPass
    <3>3. Edits' = Edits /\ DoneEdits' = DoneEdits
      BY <3>1 DEF Edits, DoneEdits
    <3>4. LandInv' /\ SameKindLands'
      BY <3>1, <3>3 DEF LandsInv, LandInv, SameKindLands, Complete, Apart, OneKind, Marking,
                        FirstPass
    <3> QED
      BY <3>2, <3>4 DEF LandsInv
  <2> QED
    BY <2>1, <2>2
<1>3. LandsInv => SameKindLands
  BY DEF LandsInv
<1> QED
  BY <1>1, <1>2, <1>3, Invariance, PTL DEF Spec
=============================================================================
