------------------------------ MODULE NoteReplay ------------------------------
(***************************************************************************)
(* What a client that replays the change feed ends up with.  The code that *)
(* applies changes on a client is not part of this repository: ApplyChange *)
(* says what each operation type means, and the properties compare it with *)
(* the rows the server keeps.                                              *)
(***************************************************************************)
EXTENDS NoteSync

EmptyDocument == [note |-> Absent, blocks |-> [b \in Blocks |-> Absent]]

\* The note row after a change; a batch's changes all carry its version.
ApplyToNote(note, c) ==
  LET op == c.op
      fresh == [owner |-> c.owner, version |-> 0, deleted |-> FALSE,
                title |-> op.text, props |-> op.props]
      old == IF op.type = "create_note" THEN fresh ELSE note
  IN [old EXCEPT !.version = c.result,
                 !.deleted = IF op.type = "delete_note" THEN TRUE ELSE @,
                 !.props = IF op.type = "modify_note_property" THEN op.props ELSE @,
                 !.title = IF op.type = "modify_note_title" THEN ApplyTextDelta(@, op.delta) ELSE @]

\* The row of block b after a change.
ApplyToBlock(block, b, c) ==
  LET op == c.op
      fresh == [note |-> c.note, deleted |-> FALSE, text |-> op.text, props |-> op.props]
  IN CASE op.type = "create_note" /\ b \in op.blocks -> fresh
       [] op.type = "create_block" /\ b = op.key -> fresh
       [] op.type = "delete_block" /\ b = op.key -> [block EXCEPT !.deleted = TRUE]
       [] op.type = "modify_block" /\ b = op.key ->
            [block EXCEPT !.props = IF op.props = None THEN @ ELSE op.props,
                          !.text = IF op.delta = None THEN @ ELSE ApplyTextDelta(@, op.delta)]
       [] OTHER -> block

\* The row of a category after a change.
ApplyToCategory(row, c) ==
  CASE c.op.type = "create_category" -> [owner |-> c.owner, name |-> c.op.name, deleted |-> FALSE]
    [] c.op.type = "delete_category" -> [row EXCEPT !.deleted = TRUE]
    [] c.op.type = "modify_category" -> [row EXCEPT !.name = c.op.name]

\* What a change makes of a category's row, or of a note and its blocks.
ApplyChange(doc, c) ==
  IF c.note = NilNote
  THEN ApplyToCategory(doc, c)
  ELSE [note |-> ApplyToNote(doc.note, c),
        blocks |-> [b \in Blocks |-> ApplyToBlock(doc.blocks[b], b, c)]]

\* The changes of H before c in the order a pull delivers them, and the last one.
Earlier(H, c) == {d \in H : d.seq < c.seq}
Latest(H) == CHOOSE c \in H : \A d \in H : d.seq <= c.seq

\* What was there before change c, when after[d] is what d has left.
Before(H, start, after, c) ==
  IF Earlier(H, c) = {} THEN start ELSE after[Latest(Earlier(H, c))]

\* What the changes H make of `start`.
Replay(H, start) ==
  LET after[c \in H] == ApplyChange(Before(H, start, after, c), c)
  IN IF H = {} THEN start ELSE after[Latest(H)]

\* Replaying a note's change rows by sequence gives exactly the note and block
\* rows the server stores: no accepted edit is missing from the state and no
\* state change is missing from the log (applyOperationBatch's cached rows,
\* direct writes and final UpdateNoteState / UpdateBlockState agree).
ReplayMatchesState ==
  \A n \in Notes :
    LET doc == Replay({c \in changes : c.note = n}, EmptyDocument) IN
      /\ doc.note = rows[n]
      /\ \A b \in Blocks :
           doc.blocks[b] = IF rows[b] # Absent /\ rows[b].note = n THEN rows[b] ELSE Absent

\* Categories have no version to conflict on: that replaying their changes gives
\* the stored row rests on the category's row lock alone (LockCategoryForOwner).
CategoriesMatchLog ==
  \A k \in Categories :
    rows[k] = Replay({c \in changes : c.note = NilNote /\ c.op.key = k}, Absent)
=============================================================================
