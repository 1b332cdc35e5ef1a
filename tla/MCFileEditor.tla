---------------------------- MODULE MCFileEditor ----------------------------
(* Three characters in two rows, the first indented; edits of every kind.  *)
EXTENDS FileEditor

CONSTANTS x, y, sp, nl, new, bad, tag

MCText == <<sp, x, nl, y>>

New(op, s, e, change) == [op |-> op, s |-> s, e |-> e, change |-> change, context |-> <<>>]

Replace(pattern, by) == [New("REPLACE", 0, 0, pattern) EXCEPT !.context = by]

MCCandidates ==
  {New("INSERT", 0, 0, <<new>>), New("INSERT", 2, 2, <<bad, new>>),
   New("WRITE", 1, 3, <<new>>), New("WRITE", 3, 4, <<new, new>>),
   New("DELETE", 0, 2, <<>>),
   New("INSERT_ROW_BEFORE", 0, 1, <<new, nl>>),
   Replace(<<x>>, <<bad>>), Replace(<<y>>, <<new, new, new, new, new>>),
   New("PRINT_CHANGE_AFTER", 1, 4, <<>>)}
  \cup {Plain(op) : op \in {"BACKUP", "VALIDATE_CST", "SAVE_VALID_ONLY"}}

MCFinals == {"none", "SAVE", "MARK"}

\* The batches of editor_mixed
MixedCandidates == {New("WRITE", 3, 4, <<new>>), New("INSERT", 0, 0, <<new>>)}
ApplyOnly == {"none"}
=============================================================================
