------------------------------ MODULE TextBuffer ------------------------------
(* What FileWriter (src/FileReaderWriter.cpp) does to the text it holds: a   *)
(* sequence of characters addressed by 0-based byte offsets and rows.        *)
EXTENDS Integers, Sequences, FiniteSets, SequencesExt

CONSTANTS Newline, Blank

\* std::string::insert and erase; both throw std::out_of_range past the end,
\* and erase cuts its length to what there is.
InRange(text, offset) == offset <= Len(text)

PutAt(text, offset, s) == SubSeq(text, 1, offset) \o s \o SubSeq(text, offset + 1, Len(text))

Erase(text, from, to) == SubSeq(text, 1, from) \o SubSeq(text, to + 1, Len(text))

\* The offsets at which rows begin
RowOffsets(text) == {0} \cup {i \in 1..Len(text) : text[i] = Newline}

RowCount(text) == Cardinality(RowOffsets(text))
RowOffset(text, row) ==
  CHOOSE o \in RowOffsets(text) : Cardinality({p \in RowOffsets(text) : p < o}) = row

\* The row an offset lies in
RowOf(text, offset) == Cardinality({i \in 1..offset : i <= Len(text) /\ text[i] = Newline})

\* The blanks a row begins with; none when blanks are all that follows.
Indent(text, row) ==
  LET from == RowOffset(text, row)
      dense == {i \in from + 1..Len(text) : text[i] # Blank}
  IN IF dense = {} THEN <<>>
     ELSE SubSeq(text, from + 1, (CHOOSE i \in dense : \A k \in dense : i <= k) - 1)

(* The last row has no successor: its length is computed from a word past    *)
(* the end of rowOffsets, so the indent may be lost.                         *)
Indents(text, row) ==
  IF row + 1 < RowCount(text) THEN {Indent(text, row)} ELSE {Indent(text, row), <<>>}

EndsRow(s) == s[Len(s)] = Newline

\* The texts that insertRowBefore(row, s, preserveIndent = true) may leave
RowInserted(text, row, s) ==
  {PutAt(text, RowOffset(text, row), indent \o s \o IF EndsRow(s) THEN <<>> ELSE <<Newline>>)
     : indent \in Indents(text, row)}
=============================================================================
