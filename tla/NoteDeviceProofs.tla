--------------------------- MODULE NoteDeviceProofs ---------------------------
(***************************************************************************)
(* Devices, operation ids, owners, hints and cursors, for every value of   *)
(* the constants.                                                          *)
(*                                                                         *)
(* The argument: a request works under the lock of its device's row, so the*)
(* requests of one device follow each other, from the idempotency lookup to*)
(* the commit; every change row that is not committed belongs to a         *)
(* transaction that holds its device; and whatever a page does not return  *)
(* below its nextCursor was such a row when the page was read.             *)
(***************************************************************************)
EXTENDS NoteSyncProofs

-----------------------------------------------------------------------------
(* What the operations of a batch do, as far as devices and notes go.      *)

\* The note a batch has cached belongs to the user of the request.
BatchOwned(p) ==
  pc[p] \in InBatch /\ batch[p].note # Absent =>
    OwnedBy(batch[p].note, User(p)) /\ OwnedBy(Visible(p, batch[p].id), User(p))

\* What an accepted operation of note n leaves in transaction t and batch b.
PreparedNote(p, t, b, base, result) ==
  LET n == Op(p).note IN
    /\ n \in t.held /\ base = Version(Visible(p, n)) /\ result = base + 1
    /\ Visible(p, n) = Absent \/ OwnedBy(Visible(p, n), User(p))
    /\ t.ws[n] = tx[p].ws[n] \/ OwnedBy(t.ws[n], User(p))
    /\ OwnedBy(NoteView(rows, t, n), User(p)) /\ NoteView(rows, t, n).version = base
    /\ OwnedBy(b.note, User(p)) /\ b.note.version = base

\* What an accepted operation leaves in transaction t and batch b.
Prepared(p, t, b, base, result) ==
  /\ pc[p] = "apply"
  /\ t \in TxState /\ t.pend = tx[p].pend /\ t.jobs = tx[p].jobs
  /\ \A k \in Devices \cup Notes : k # Op(p).note \/ k \in Devices =>
       t.ws[k] = tx[p].ws[k] /\ (k \in t.held <=> k \in tx[p].held)
  /\ b \in BatchState /\ b.id = batch[p].id
  /\ base \in Nat /\ result \in Nat
  /\ Op(p).note \in Notes => PreparedNote(p, t, b, base, result)
  /\ Op(p).note \notin Notes => base = 0 /\ result = 0 /\ b.note = Absent

\* The operation is accepted, is rejected against the version its note has, or
\* fails the request.
Accepting(p) == \E t, b, base, result :
                  AcceptOp(p, t, b, base, result) /\ Prepared(p, t, b, base, result)

Rejecting(p) == \E reason, version :
                  /\ pc[p] \in {"apply", "lookup"}
                  /\ RejectOp(p, reason, version)
                  /\ \/ version = 0
                     \/ Op(p).note \in Notes /\ version = Version(Visible(p, Op(p).note))

Failing(p) == pc[p] \in InTx /\ \E reason : reason # "commit_unknown" /\ FailRequest(p, reason)

\* ensureNote finds the user's own note.
LEMMA EnsuredOwned ==
  ASSUME TypeInv, ChainInv, NEW p \in Handlers, BatchOwned(p), pc[p] \in InBatch, NEW n \in Notes,
         batch[p].id = n, EnsureNote(p, n), EnsuredNote(p, n) # Absent
  PROVE  /\ OwnedBy(EnsuredNote(p, n), User(p)) /\ OwnedBy(Visible(p, n), User(p))
         /\ EnsuredNote(p, n).version = Version(Visible(p, n))
<1>1. Visible(p, n) # Absent /\ EnsuredNote(p, n).version = Visible(p, n).version
  BY EnsuredChain
<1>2. CASE batch[p].loaded
  BY <1>1, <1>2 DEF EnsuredNote, BatchOwned, Version
<1>3. CASE ~batch[p].loaded
  BY <1>1, <1>3 DEF EnsuredNote, NoteForOwner, Version
<1> QED
  BY <1>2, <1>3

\* Every accepted edit of an existing note.
LEMMA EditPrepared ==
  ASSUME TypeInv, ChainInv, NEW p \in Handlers, BatchOwned(p), NEW type \in EditTypes, Editing(p, type),
         NEW t \in TxState, t.pend = tx[p].pend, t.jobs = tx[p].jobs,
         \A k \in Devices \cup Notes : t.ws[k] = tx[p].ws[k],
         \A k \in Devices \cup Notes : k \in t.held <=> k \in tx[p].held \/ k = Op(p).note,
         NEW b \in BatchState, b.id = batch[p].id, b.note \in NoteRow,
         b.note.owner = EnsuredNote(p, Op(p).note).owner,
         NEW base, base = EnsuredNote(p, Op(p).note).version, b.note.version = base
  PROVE  Prepared(p, t, b, base, base + 1)
<1> DEFINE n == Op(p).note
<1>1. /\ pc[p] = "apply" /\ n \in Notes /\ n = batch[p].id
      /\ EnsureNote(p, n) /\ EnsuredNote(p, n) # Absent /\ EnsuredNote(p, n) \in NoteRow
  BY EditingTyped DEF Editing
<1>2. /\ OwnedBy(EnsuredNote(p, n), User(p)) /\ OwnedBy(Visible(p, n), User(p))
      /\ base = Version(Visible(p, n))
  BY <1>1, EnsuredOwned DEF InBatch
<1>3. base \in Nat /\ b.note # Absent
  BY AbsentAssumption DEF NoteRow, Row
<1>4. NoteView(rows, t, n) = Visible(p, n)
  BY <1>1 DEF NoteView, Visible
<1>5. n \in t.held
  BY <1>1
<1>6. OwnedBy(b.note, User(p)) /\ Visible(p, n).version = base
  BY <1>2, <1>3 DEF OwnedBy, Version
<1> HIDE DEF n
<1>7. PreparedNote(p, t, b, base, base + 1)
  BY <1>1, <1>2, <1>4, <1>5, <1>6 DEF PreparedNote, n
<1> QED
  BY <1>1, <1>3, <1>7, KeysAssumption DEF Prepared, n

LEMMA EnsuredTxJobs ==
  ASSUME TypeInv, ChainInv, NEW p \in Handlers, NEW type \in EditTypes, Editing(p, type)
  PROVE  Ensured(p, Op(p).note).jobs = tx[p].jobs
<1>1. Ensured(p, Op(p).note) = Lock(tx[p], Op(p).note) /\ tx[p] \in TxState
  BY ChainTypes DEF Ensured, Editing
<1> QED
  BY <1>1 DEF Lock, TxState

LEMMA AcceptEditPrepared ==
  ASSUME TypeInv, ChainInv, NEW p \in Handlers, BatchOwned(p), NEW type \in EditTypes, Editing(p, type),
         NEW note \in NoteRow, note.version = EnsuredNote(p, Op(p).note).version,
         note.owner = EnsuredNote(p, Op(p).note).owner, AcceptEdit(p, note)
  PROVE  Accepting(p)
<1> DEFINE t == Ensured(p, Op(p).note)
           b == Loaded(p, note)
<1>1. /\ t \in TxState /\ t.pend = tx[p].pend /\ t.ws = tx[p].ws /\ t.jobs = tx[p].jobs
      /\ t.held = tx[p].held \cup {Op(p).note}
  BY EnsuredTx, EnsuredTxJobs
<1>2. b \in BatchState /\ b.id = batch[p].id /\ b.note = note
  BY LoadedTyped
<1>3. AcceptOp(p, t, b, note.version, note.version + 1)
  BY DEF AcceptEdit
<1> HIDE DEF t, b
<1>4. Prepared(p, t, b, note.version, note.version + 1)
  BY <1>1, <1>2, EditPrepared
<1> QED
  BY <1>3, <1>4 DEF Accepting

LEMMA ModifyNotePrepared ==
  ASSUME TypeInv, ChainInv, NEW p \in Handlers, BatchOwned(p), ModifyNoteProperty(p) \/ ModifyNoteTitle(p)
  PROVE  Accepting(p) \/ Rejecting(p)
<1> DEFINE old == EnsuredNote(p, Op(p).note)
<1>1. CASE ModifyNoteProperty(p)
  <2> DEFINE note == [old EXCEPT !.props = Op(p).props]
  <2>1. Editing(p, "modify_note_property") /\ AcceptEdit(p, note)
    BY <1>1 DEF ModifyNoteProperty
  <2>2. Op(p) \in Operation /\ Decodes(Op(p)) /\ Op(p).type = "modify_note_property" /\ old \in NoteRow
    BY <2>1, EditingTyped DEF EditTypes
  <2>3. Op(p).props \in Props
    BY <2>2 DEF Operation, Decodes
  <2>4. note \in NoteRow /\ note.version = old.version /\ note.owner = old.owner
    BY <2>2, <2>3 DEF NoteRow
  <2> HIDE DEF note
  <2> QED
    BY <2>1, <2>4, AcceptEditPrepared DEF EditTypes
<1>2. CASE ModifyNoteTitle(p)
  <2> DEFINE note == [old EXCEPT !.title = ApplyTextDelta(@, Op(p).delta)]
  <2>1. Editing(p, "modify_note_title")
    BY <1>2 DEF ModifyNoteTitle
  <2>2. /\ pc[p] = "apply" /\ Op(p) \in Operation /\ Decodes(Op(p)) /\ Op(p).type = "modify_note_title"
        /\ old \in NoteRow
    BY <2>1, EditingTyped DEF EditTypes
  <2>3. CASE RejectOp(p, "invalid", 0)
    BY <2>2, <2>3 DEF Rejecting
  <2>4. CASE DeltaInRange(old.title, Op(p).delta) /\ AcceptEdit(p, note)
    <3>1. Op(p).delta \in TextDeltas(Runes) /\ old.title \in Seq(Runes)
      BY <2>2 DEF Operation, Decodes, NoteRow
    <3>2. ApplyTextDelta(old.title, Op(p).delta) \in Seq(Runes)
      BY <2>4, <3>1, ApplyTextDeltaType
    <3>3. note \in NoteRow /\ note.version = old.version /\ note.owner = old.owner
      BY <2>2, <3>2 DEF NoteRow
    <3> HIDE DEF note
    <3> QED
      BY <2>1, <2>4, <3>3, AcceptEditPrepared DEF EditTypes
  <2> QED
    BY <1>2, <2>3, <2>4 DEF ModifyNoteTitle
<1> QED
  BY <1>1, <1>2

\* An edit of a block: t also writes or locks the row of the block.
LEMMA EditBlockPrepared ==
  ASSUME TypeInv, ChainInv, NEW p \in Handlers, BatchOwned(p), NEW type \in EditTypes, Editing(p, type),
         Op(p).key \in Blocks, NEW t, TypedTx(t), NEW row,
         \/ t = Write(Ensured(p, Op(p).note), Op(p).key, row)
         \/ t = Lock(Ensured(p, Op(p).note), Op(p).key),
         NEW b \in BatchState, b.id = batch[p].id, b.note = EnsuredNote(p, Op(p).note),
         AcceptOp(p, t, b, EnsuredNote(p, Op(p).note).version, EnsuredNote(p, Op(p).note).version + 1)
  PROVE  Accepting(p)
<1> DEFINE u == Ensured(p, Op(p).note)
           note == EnsuredNote(p, Op(p).note)
<1>1. /\ u \in TxState /\ u.pend = tx[p].pend /\ u.ws = tx[p].ws /\ u.jobs = tx[p].jobs
      /\ u.held = tx[p].held \cup {Op(p).note}
  BY EnsuredTx, EnsuredTxJobs
<1>2. note \in NoteRow
  BY EditingTyped
<1> HIDE DEF u
<1>3. t \in TxState
  BY DEF TypedTx
<1>4. t = Write(u, Op(p).key, row) \/ t = Lock(u, Op(p).key)
  BY DEF u
<1>5. /\ t.pend = tx[p].pend /\ t.jobs = tx[p].jobs /\ t.held = u.held \cup {Op(p).key}
      /\ \A m \in Keys : m # Op(p).key => t.ws[m] = u.ws[m]
  BY <1>1, <1>4 DEF Write, Lock, TxState
<1>6. \A m \in Devices \cup Notes : m # Op(p).key /\ t.ws[m] = tx[p].ws[m]
  BY <1>1, <1>5, KeysAssumption DEF Keys
<1>7. \A m \in Devices \cup Notes : m \in t.held <=> m \in tx[p].held \/ m = Op(p).note
  BY <1>1, <1>5, <1>6
<1> HIDE DEF note
<1>8. Prepared(p, t, b, note.version, note.version + 1)
  BY <1>2, <1>3, <1>5, <1>6, <1>7, EditPrepared DEF note
<1> QED
  BY <1>8 DEF Accepting, note

LEMMA CreateBlockPrepared ==
  ASSUME TypeInv, ChainInv, NEW p \in Handlers, BatchOwned(p), CreateBlock(p)
  PROVE  Accepting(p) \/ Rejecting(p)
<1> DEFINE op == Op(p)
           note == EnsuredNote(p, op.note)
           block == [note |-> op.note, deleted |-> FALSE, text |-> op.text, props |-> op.props]
           t == Write(Ensured(p, op.note), op.key, block)
           l == Loaded(p, note)
           b == [l EXCEPT !.blocks = [@ EXCEPT ![op.key] = block]]
<1>1. Editing(p, "create_block") /\ "create_block" \in EditTypes
  BY DEF CreateBlock, EditTypes
<1>2. /\ pc[p] = "apply" /\ op \in Operation /\ Decodes(op) /\ op.type = "create_block"
      /\ op.note \in Notes /\ note \in NoteRow
  BY <1>1, EditingTyped
<1>3. CASE RejectOp(p, "invalid", 0)
  BY <1>2, <1>3 DEF Rejecting
<1>4. CASE AcceptOp(p, t, b, note.version, note.version + 1)
  <2>1. op.key \in Blocks /\ op.props \in Props /\ op.text \in Seq(Runes)
    BY <1>2 DEF Operation, Decodes
  <2>2. block \in BlockRow
    BY <1>2, <2>1 DEF BlockRow
  <2> HIDE DEF block
  <2>3. op.key \in Keys /\ TypedRow(op.key, block)
    BY <2>1, <2>2, KeysAssumption DEF Keys, TypedRow
  <2>4. TypedTx(t)
    BY <1>2, <2>3, EnsuredNoteTyped, WriteTyped
  <2>5. l \in BatchState /\ l.id = batch[p].id /\ l.note = note
    BY <1>2, LoadedTyped
  <2> HIDE DEF l, note
  <2>6. b \in BatchState /\ b.id = batch[p].id /\ b.note = note
    BY <2>1, <2>2, <2>5 DEF BatchState
  <2> HIDE DEF b
  <2> QED
    BY <1>1, <1>4, <2>1, <2>4, <2>6, EditBlockPrepared DEF note
<1> QED
  BY <1>3, <1>4 DEF CreateBlock

LEMMA DeleteBlockPrepared ==
  ASSUME TypeInv, ChainInv, NEW p \in Handlers, BatchOwned(p), DeleteBlock(p)
  PROVE  Accepting(p) \/ Rejecting(p)
<1> DEFINE op == Op(p)
           note == EnsuredNote(p, op.note)
           block == BatchBlock(p, op.key, op.note)
           gone == [block EXCEPT !.deleted = TRUE]
           t == Write(Ensured(p, op.note), op.key, gone)
           l == Loaded(p, note)
           b == [l EXCEPT !.blocks = [@ EXCEPT ![op.key] = gone], !.dirty = @ \ {op.key}]
<1>1. Editing(p, "delete_block") /\ "delete_block" \in EditTypes
  BY DEF DeleteBlock, EditTypes
<1>2. /\ pc[p] = "apply" /\ Decodes(op) /\ op.type = "delete_block"
      /\ op.note \in Notes /\ note \in NoteRow
  BY <1>1, EditingTyped
<1>3. CASE RejectOp(p, "not_found", 0)
  BY <1>2, <1>3 DEF Rejecting
<1>4. CASE block # Absent /\ AcceptOp(p, t, b, note.version, note.version + 1)
  <2>1. op.key \in Blocks
    BY <1>2 DEF Decodes
  <2>2. block \in BlockRow
    BY <1>4, <2>1, BatchBlockTyped
  <2>3. gone \in BlockRow
    BY <2>2 DEF BlockRow
  <2> HIDE DEF gone
  <2>4. op.key \in Keys /\ TypedRow(op.key, gone)
    BY <2>1, <2>3, KeysAssumption DEF Keys, TypedRow
  <2>5. TypedTx(t)
    BY <1>2, <2>4, EnsuredNoteTyped, WriteTyped
  <2>6. l \in BatchState /\ l.id = batch[p].id /\ l.note = note
    BY <1>2, LoadedTyped
  <2> HIDE DEF l, note
  <2>7. b \in BatchState /\ b.id = batch[p].id /\ b.note = note
    BY <2>1, <2>3, <2>6 DEF BatchState
  <2> HIDE DEF b
  <2> QED
    BY <1>1, <1>4, <2>1, <2>5, <2>7, EditBlockPrepared DEF note
<1> QED
  BY <1>3, <1>4 DEF DeleteBlock

LEMMA ModifyBlockPrepared ==
  ASSUME TypeInv, ChainInv, NEW p \in Handlers, BatchOwned(p), ModifyBlock(p)
  PROVE  Accepting(p) \/ Rejecting(p)
<1> DEFINE op == Op(p)
           note == EnsuredNote(p, op.note)
           block == BatchBlock(p, op.key, op.note)
           edited == [block EXCEPT !.props = IF op.props = None THEN @ ELSE op.props,
                                   !.text = IF op.delta = None THEN @ ELSE ApplyTextDelta(@, op.delta)]
           t == Lock(Ensured(p, op.note), op.key)
           l == Loaded(p, note)
           b == [l EXCEPT !.blocks = [@ EXCEPT ![op.key] = edited], !.dirty = @ \cup {op.key}]
<1>1. Editing(p, "modify_block") /\ "modify_block" \in EditTypes
  BY DEF ModifyBlock, EditTypes
<1>2. /\ pc[p] = "apply" /\ op \in Operation /\ Decodes(op) /\ op.type = "modify_block"
      /\ op.note \in Notes /\ note \in NoteRow
  BY <1>1, EditingTyped
<1>3. CASE RejectOp(p, "not_found", 0) \/ RejectOp(p, "invalid", 0)
  BY <1>2, <1>3 DEF Rejecting
<1>4. CASE /\ block # Absent /\ (op.delta # None => DeltaInRange(block.text, op.delta))
           /\ AcceptOp(p, t, b, note.version, note.version + 1)
  <2>1. /\ op.key \in Blocks /\ op.props \in Props \cup {None}
        /\ op.delta \in TextDeltas(Runes) \cup {None}
    BY <1>2 DEF Operation, Decodes
  <2>2. block \in BlockRow
    BY <1>4, <2>1, BatchBlockTyped
  <2>3. op.delta # None => ApplyTextDelta(block.text, op.delta) \in Seq(Runes)
    BY <1>4, <2>1, <2>2, ApplyTextDeltaType DEF BlockRow
  <2>4. edited \in BlockRow
    BY <2>1, <2>2, <2>3 DEF BlockRow
  <2> HIDE DEF edited
  <2>5. TypedTx(t)
    BY <1>2, <2>1, EnsuredNoteTyped, LockTyped DEF Keys
  <2>6. l \in BatchState /\ l.id = batch[p].id /\ l.note = note
    BY <1>2, LoadedTyped
  <2> HIDE DEF l, note
  <2>7. b \in BatchState /\ b.id = batch[p].id /\ b.note = note
    BY <2>1, <2>4, <2>6 DEF BatchState
  <2> HIDE DEF b
  <2> QED
    BY <1>1, <1>4, <2>1, <2>5, <2>7, EditBlockPrepared DEF note
<1> QED
  BY <1>3, <1>4 DEF ModifyBlock

LEMMA CreateNotePrepared ==
  ASSUME TypeInv, ChainInv, NEW p \in Handlers, BatchOwned(p), CreateNote(p)
  PROVE  Accepting(p) \/ Rejecting(p)
<1> DEFINE op == Op(p)
           n == op.note
           note == [owner |-> User(p), version |-> 0, deleted |-> FALSE,
                    title |-> op.text, props |-> op.props]
           block == [note |-> n, deleted |-> FALSE, text |-> op.text, props |-> op.props]
           ws == [k \in Keys |-> IF k = n THEN note
                                 ELSE IF k \in op.blocks THEN block ELSE tx[p].ws[k]]
           t == [tx[p] EXCEPT !.ws = ws, !.held = @ \cup {n} \cup op.blocks]
           bs == [x \in Blocks |-> IF x \in op.blocks THEN block ELSE batch[p].blocks[x]]
           b == [Loaded(p, note) EXCEPT !.blocks = bs]
<1>1. Applying(p, {"create_note"})
  BY DEF CreateNote
<1>2. /\ pc[p] = "apply" /\ n \in Notes /\ n = batch[p].id
      /\ op \in Operation /\ User(p) \in Users /\ op.type = "create_note"
  BY <1>1, ApplyingTyped, KeysAssumption DEF CategoryTypes
<1>3. batch[p] \in BatchState /\ tx[p] \in TxState
  BY ChainTypes
<1>4. CASE \E reason : RejectOp(p, reason, 0)
  BY <1>2, <1>4 DEF Rejecting
<1>5. CASE batch[p].note # Absent /\ RejectOp(p, "conflict", batch[p].note.version)
  <2>1. HandlerChain(p, rows, changes, tx[p], save[p], pc[p], batch[p]) /\ NoteView(rows, tx[p], n) = Visible(p, n)
    BY DEF ChainInv, NoteView, Visible
  <2>2. batch[p].note.version = Version(Visible(p, n))
    BY <1>2, <1>5, <2>1 DEF HandlerChain, InBatch, Version
  <2> QED
    BY <1>2, <1>5, <2>2 DEF Rejecting
<1>6. CASE /\ op.base = 0 /\ batch[p].note = Absent /\ Visible(p, n) = Absent
           /\ AcceptOp(p, t, b, 0, 1)
  <2>1. Decodes(op)
    BY <1>1, <1>2, <1>6, ApplyingTyped
  <2>2. op.props \in Props /\ op.text \in Seq(Runes) /\ op.blocks \subseteq Blocks
    BY <1>2, <2>1 DEF Operation, Decodes
  <2>3. note \in NoteRow /\ block \in BlockRow /\ note.version = 0 /\ note.owner = User(p)
    BY <1>2, <2>2 DEF NoteRow, BlockRow
  <2>4. note # Absent
    BY <2>3, AbsentAssumption DEF Row
  <2> HIDE DEF note, block
  <2>5. ws \in [Keys -> Row \cup {Absent}]
    BY <1>3, <2>3 DEF TxState, Row
  <2>6. /\ n \in Keys /\ op.blocks \subseteq Keys
        /\ \A k \in Devices \cup Notes : k \in Keys /\ k \notin op.blocks
    BY <1>2, <2>2, KeysAssumption DEF Keys
  <2>7. ws[n] = note /\ \A k \in Devices \cup Notes : k # n => ws[k] = tx[p].ws[k]
    BY <2>6
  <2> HIDE DEF ws, n
  <2>8. /\ t \in TxState /\ t.ws = ws /\ t.pend = tx[p].pend /\ t.jobs = tx[p].jobs
        /\ t.held = tx[p].held \cup {n} \cup op.blocks
    BY <1>3, <2>5, <2>6 DEF TxState
  <2>9. bs \in [Blocks -> BlockRow \cup {Absent}]
    BY <1>3, <2>3 DEF BatchState
  <2>10. /\ Loaded(p, note) \in BatchState /\ Loaded(p, note).id = batch[p].id
         /\ Loaded(p, note).note = note
    BY <2>3, LoadedTyped
  <2> HIDE DEF bs
  <2>11. b \in BatchState /\ b.id = batch[p].id /\ b.note = note
    BY <2>9, <2>10 DEF BatchState
  <2> HIDE DEF t, b
  <2>12. \A k \in Devices \cup Notes : k # n => t.ws[k] = tx[p].ws[k] /\ (k \in t.held <=> k \in tx[p].held)
    BY <2>6, <2>7, <2>8
  <2>13. NoteView(rows, t, n) = note /\ Version(Visible(p, n)) = 0 /\ t.ws[n] = note /\ n \in t.held
    BY <1>6, <2>4, <2>7, <2>8 DEF NoteView, Version
  <2>14. OwnedBy(note, User(p))
    BY <2>3, <2>4 DEF OwnedBy
  <2>15. PreparedNote(p, t, b, 0, 1)
    BY <1>6, <2>3, <2>11, <2>13, <2>14 DEF PreparedNote, n
  <2>16. Prepared(p, t, b, 0, 1)
    BY <1>2, <2>8, <2>11, <2>12, <2>15, KeysAssumption DEF Prepared, n
  <2> QED
    BY <1>6, <2>16 DEF Accepting
<1>7. /\ [tx[p] EXCEPT !.ws = [k \in Keys |-> IF k = n THEN note
                                       ELSE IF k \in op.blocks THEN block ELSE @[k]],
                       !.held = @ \cup {n} \cup op.blocks] = t
      /\ [Loaded(p, note) EXCEPT !.blocks = [x \in Blocks |->
                                       IF x \in op.blocks THEN block ELSE @[x]]] = b
  BY <1>3 DEF Loaded, BatchState, TxState
<1> QED
  BY <1>3, <1>4, <1>5, <1>6, <1>7 DEF CreateNote

LEMMA DeleteNotePrepared ==
  ASSUME TypeInv, ChainInv, NEW p \in Handlers, BatchOwned(p), DeleteNote(p)
  PROVE  \/ Accepting(p)
         \/ /\ pc[p] = "apply" /\ pc' = [pc EXCEPT ![p] = "lookup"]
            /\ UNCHANGED <<store, req, todo, batch, failure, reply, world>>
<1> DEFINE n == Op(p).note
           row == Visible(p, n)
           gone == [row EXCEPT !.deleted = TRUE]
           note == IF batch[p].note = Absent THEN gone
                   ELSE [batch[p].note EXCEPT !.deleted = TRUE]
<1>1. Applying(p, {"delete_note"})
  BY DEF DeleteNote
<1>2. pc[p] = "apply" /\ n \in Notes /\ n = batch[p].id /\ n \in Keys
  BY <1>1, ApplyingTyped DEF CategoryTypes, Keys
<1>3. row \in NoteRow \cup {Absent} /\ tx[p] \in TxState /\ batch[p] \in BatchState
  BY <1>2, ChainTypes
<1>4. batch[p].note \in NoteRow \cup {Absent}
  BY <1>3 DEF BatchState
<1>5. CASE /\ OwnedBy(row, User(p))
           /\ AcceptOp(p, Write(tx[p], n, gone), Loaded(p, note), note.version, note.version + 1)
  <2>1. row \in NoteRow /\ row # Absent /\ row.owner = User(p)
    BY <1>3, <1>5 DEF OwnedBy
  <2>2. gone \in NoteRow /\ gone.version = row.version /\ gone.owner = User(p)
    BY <2>1 DEF NoteRow
  <2>3. HandlerChain(p, rows, changes, tx[p], save[p], pc[p], batch[p]) /\ NoteView(rows, tx[p], n) = row
    BY DEF ChainInv, NoteView, Visible
  <2>4. batch[p].note # Absent => batch[p].note.version = row.version /\ batch[p].note.owner = User(p)
    BY <1>2, <2>3 DEF HandlerChain, InBatch, BatchOwned, OwnedBy
  <2>5. note \in NoteRow /\ note.version = row.version /\ note.owner = User(p)
    BY <1>4, <2>2, <2>4 DEF NoteRow
  <2>6. gone # Absent /\ note # Absent /\ gone \in Row
    BY <2>2, <2>5, AbsentAssumption DEF Row
  <2>7. row.version \in Nat /\ Version(row) = row.version
    BY <2>1 DEF NoteRow, Version
  <2> DEFINE t == Write(tx[p], n, gone)
             b == Loaded(p, note)
             base == row.version
  <2>8. AcceptOp(p, t, b, base, base + 1)
    BY <1>5, <2>5
  <2> HIDE DEF note, gone, row, n
  <2>9. /\ t \in TxState /\ t.pend = tx[p].pend /\ t.jobs = tx[p].jobs /\ t.held = tx[p].held \cup {n}
        /\ t.ws[n] = gone /\ \A k \in Devices \cup Notes : k # n => t.ws[k] = tx[p].ws[k]
    BY <1>2, <1>3, <2>6 DEF Write, TxState, Keys
  <2>10. b \in BatchState /\ b.id = batch[p].id /\ b.note = note
    BY <2>5, LoadedTyped
  <2> HIDE DEF t, b
  <2>11. NoteView(rows, t, n) = gone
    BY <2>6, <2>9 DEF NoteView
  <2>12. OwnedBy(gone, User(p)) /\ OwnedBy(note, User(p))
    BY <2>2, <2>5, <2>6 DEF OwnedBy
  <2>13. PreparedNote(p, t, b, base, base + 1)
    BY <1>5, <2>2, <2>5, <2>7, <2>9, <2>10, <2>11, <2>12 DEF PreparedNote, n, row
  <2>14. Prepared(p, t, b, base, base + 1)
    BY <1>2, <2>7, <2>9, <2>10, <2>13, KeysAssumption DEF Prepared, n
  <2> QED
    BY <2>8, <2>14 DEF Accepting
<1> QED
  BY <1>2, <1>5 DEF DeleteNote

LEMMA RejectionsPrepared ==
  ASSUME TypeInv, ChainInv, NEW p \in Handlers, BatchOwned(p),
         RejectMalformed(p) \/ RejectExisting(p) \/ DeleteNoteLookup(p) \/ RejectCategory(p)
  PROVE  Rejecting(p)
<1>1. CASE RejectMalformed(p) \/ RejectCategory(p)
  BY <1>1 DEF RejectMalformed, RejectCategory, Applying, Rejecting
<1>2. CASE RejectExisting(p)
  <2> DEFINE n == Op(p).note
  <2>1. Applying(p, EditTypes) /\ EnsureNote(p, n)
    BY <1>2 DEF RejectExisting
  <2>2. pc[p] = "apply" /\ n \in Notes /\ n = batch[p].id
    BY <2>1, ApplyingTyped DEF CategoryTypes, EditTypes
  <2>3. EnsuredNote(p, n) # Absent => EnsuredNote(p, n).version = Version(Visible(p, n))
    BY <2>1, <2>2, EnsuredOwned DEF InBatch
  <2> QED
    BY <1>2, <2>2, <2>3 DEF RejectExisting, Rejecting
<1>3. CASE DeleteNoteLookup(p)
  <2> DEFINE n == Op(p).note
  <2>1. pc[p] = "lookup"
    BY <1>3 DEF DeleteNoteLookup
  <2>2. n \in Notes
    <3>1. HandlerInv(p) /\ n = batch[p].id
      BY <2>1, CurrentRequest DEF TypeInv
    <3> QED
      BY <2>1, <3>1 DEF HandlerInv, HandlerOK, BatchState
  <2>3. NoteForOwner(p, n, User(p)) # Absent => NoteForOwner(p, n, User(p)).version = Version(Visible(p, n))
    BY DEF NoteForOwner, Version
  <2> QED
    BY <1>3, <2>1, <2>2, <2>3 DEF DeleteNoteLookup, Rejecting
<1> QED
  BY <1>1, <1>2, <1>3

LEMMA WriteFacts ==
  ASSUME NEW t \in TxState, NEW k \in Keys, NEW row \in Row
  PROVE  /\ Write(t, k, row) \in TxState /\ Write(t, k, row).pend = t.pend /\ Write(t, k, row).jobs = t.jobs
         /\ Write(t, k, row).held = t.held \cup {k}
         /\ \A m \in Keys : m # k => Write(t, k, row).ws[m] = t.ws[m]
  BY DEF Write, TxState

LEMMA AcceptCategoryPrepared ==
  ASSUME TypeInv, ChainInv, NEW p \in Handlers, NEW types, types \subseteq CategoryTypes,
         Applying(p, types), NEW row \in CategoryRow,
         AcceptOp(p, Write(tx[p], Op(p).key, row), batch[p], 0, 0)
  PROVE  Accepting(p)
<1> DEFINE t == Write(tx[p], Op(p).key, row)
<1>1. /\ pc[p] = "apply" /\ Op(p).note = NilNote /\ batch[p].id = NilNote
      /\ Op(p).type \in CategoryTypes
  BY ApplyingTyped
<1>2. Op(p).key \in Categories
  BY <1>1, ApplyingTyped DEF Decodes, CategoryTypes
<1>3. NilNote \notin Notes /\ batch[p] \in BatchState /\ batch[p].note = Absent
  BY <1>1, KeysAssumption, ChainTypes
<1>4. /\ t \in TxState /\ t.pend = tx[p].pend /\ t.jobs = tx[p].jobs /\ t.held = tx[p].held \cup {Op(p).key}
      /\ \A k \in Devices \cup Notes : k \in Keys /\ k # Op(p).key /\ t.ws[k] = tx[p].ws[k]
  <2>1. tx[p] \in TxState /\ Op(p).key \in Keys /\ row \in Row
    BY <1>2, ChainTypes DEF Keys, Row
  <2>2. \A k \in Devices \cup Notes : k \in Keys /\ k # Op(p).key
    BY <1>2, KeysAssumption DEF Keys
  <2> QED
    BY <2>1, <2>2, WriteFacts
<1> HIDE DEF t
<1>5. Prepared(p, t, batch[p], 0, 0)
  BY <1>1, <1>3, <1>4 DEF Prepared
<1> QED
  BY <1>5 DEF Accepting, t

LEMMA CategoryPrepared ==
  ASSUME TypeInv, ChainInv, NEW p \in Handlers,
         CreateCategory(p) \/ DeleteCategory(p) \/ ModifyCategory(p)
  PROVE  Accepting(p) \/ Failing(p)
<1>1. PICK type \in CategoryTypes :
        Applying(p, {type}) /\ type \in {"create_category", "delete_category", "modify_category"}
  BY DEF CreateCategory, DeleteCategory, ModifyCategory, CategoryTypes
<1>2. /\ pc[p] = "apply" /\ Op(p) \in Operation /\ Decodes(Op(p)) /\ User(p) \in Users
      /\ Op(p).type = type /\ Op(p).key \in Categories
  BY <1>1, ApplyingTyped DEF Decodes, CategoryTypes
<1>3. pc[p] \in InTx
  BY <1>2 DEF InTx
<1>4. CASE CreateCategory(p)
  <2> DEFINE row == [owner |-> User(p), name |-> Op(p).name, deleted |-> FALSE]
  <2>1. Op(p).type = "create_category"
    BY <1>4 DEF CreateCategory, Applying
  <2>2. row \in CategoryRow
    BY <1>2, <2>1 DEF Operation, Decodes, CategoryRow
  <2>3. \/ FailRequest(p, "unique_violation")
        \/ AcceptOp(p, Write(tx[p], Op(p).key, row), batch[p], 0, 0)
    BY <1>4 DEF CreateCategory
  <2> HIDE DEF row
  <2> QED
    BY <1>1, <1>3, <2>2, <2>3, AcceptCategoryPrepared DEF Failing
<1>5. CASE DeleteCategory(p)
  <2> DEFINE row == [Visible(p, Op(p).key) EXCEPT !.deleted = TRUE]
  <2>1. Visible(p, Op(p).key) \in CategoryRow
    BY <1>2, <1>5, ActiveCategoryTyped DEF DeleteCategory
  <2>2. row \in CategoryRow
    BY <2>1 DEF CategoryRow
  <2>3. AcceptOp(p, Write(tx[p], Op(p).key, row), batch[p], 0, 0)
    BY <1>5 DEF DeleteCategory
  <2> HIDE DEF row
  <2> QED
    BY <1>1, <2>2, <2>3, AcceptCategoryPrepared
<1>6. CASE ModifyCategory(p)
  <2> DEFINE row == [Visible(p, Op(p).key) EXCEPT !.name = Op(p).name]
  <2>1. Visible(p, Op(p).key) \in CategoryRow
    BY <1>2, <1>6, ActiveCategoryTyped DEF ModifyCategory
  <2>2. Op(p).type = "modify_category"
    BY <1>6 DEF ModifyCategory, Applying
  <2>3. row \in CategoryRow
    BY <1>2, <2>1, <2>2 DEF CategoryRow, Operation, Decodes
  <2>4. \/ FailRequest(p, "unique_violation")
        \/ AcceptOp(p, Write(tx[p], Op(p).key, row), batch[p], 0, 0)
    BY <1>6 DEF ModifyCategory
  <2> HIDE DEF row
  <2> QED
    BY <1>1, <1>3, <2>3, <2>4, AcceptCategoryPrepared DEF Failing
<1> QED
  BY <1>4, <1>5, <1>6

\* The steps that apply an operation.
ApplyStep(p) ==
  \/ RejectMalformed(p) \/ RejectExisting(p)
  \/ CreateNote(p) \/ DeleteNote(p) \/ DeleteNoteLookup(p)
  \/ ModifyNoteProperty(p) \/ ModifyNoteTitle(p)
  \/ CreateBlock(p) \/ DeleteBlock(p) \/ ModifyBlock(p)
  \/ CreateCategory(p) \/ RejectCategory(p) \/ DeleteCategory(p) \/ ModifyCategory(p)

LEMMA ApplyStepPrepared ==
  ASSUME TypeInv, ChainInv, NEW p \in Handlers, BatchOwned(p), ApplyStep(p)
  PROVE  \/ Accepting(p) \/ Rejecting(p) \/ Failing(p)
         \/ /\ pc[p] = "apply" /\ pc' = [pc EXCEPT ![p] = "lookup"]
            /\ UNCHANGED <<store, req, todo, batch, failure, reply, world>>
<1>1. CASE RejectMalformed(p) \/ RejectExisting(p) \/ DeleteNoteLookup(p) \/ RejectCategory(p)
  BY <1>1, RejectionsPrepared
<1>2. CASE CreateNote(p)
  BY <1>2, CreateNotePrepared
<1>3. CASE DeleteNote(p)
  BY <1>3, DeleteNotePrepared
<1>4. CASE ModifyNoteProperty(p) \/ ModifyNoteTitle(p)
  BY <1>4, ModifyNotePrepared
<1>5. CASE CreateBlock(p) \/ DeleteBlock(p) \/ ModifyBlock(p)
  BY <1>5, CreateBlockPrepared, DeleteBlockPrepared, ModifyBlockPrepared
<1>6. CASE CreateCategory(p) \/ DeleteCategory(p) \/ ModifyCategory(p)
  BY <1>6, CategoryPrepared
<1> QED
  BY <1>1, <1>2, <1>3, <1>4, <1>5, <1>6 DEF ApplyStep

-----------------------------------------------------------------------------
(* The shape of every step: what it makes of the handler that takes it.    *)

\* The other handlers stand still.
Alone(p) ==
  \A q \in Handlers \ {p} :
    /\ tx'[q] = tx[q] /\ save'[q] = save[q] /\ pc'[q] = pc[q] /\ req'[q] = req[q]
    /\ todo'[q] = todo[q] /\ batch'[q] = batch[q] /\ failure'[q] = failure[q] /\ reply'[q] = reply[q]

\* Nothing is committed, published or received.
Silent == UNCHANGED <<rows, changes, outbox, snapshots, hints, client>>

\* No row, handler, hint or client changes: stuttering, and UpdatesAvailable.
Still == UNCHANGED <<rows, changes, seq, outbox, snapshots, tx, save, pc, req, todo, batch, failure, reply,
                     hints, client>>

\* The request, and what it is answered, stay.
SameRequest(p) == req'[p] = req[p] /\ reply'[p] = reply[p]
SameBatch(p) == save'[p] = save[p] /\ todo'[p] = todo[p] /\ batch'[p] = batch[p]

\* Advance and NextBatch, of one handler.
Advances(p) ==
  /\ todo'[p] = Tail(todo[p])
  /\ pc'[p] = IF Tail(todo[p]) # <<>> /\ Head(Tail(todo[p])).note = Op(p).note THEN "find" ELSE "flush"

OpensBatch(p, ops) ==
  /\ todo'[p] = ops /\ save'[p] = tx'[p]
  /\ batch'[p] = NewBatch(IF ops = <<>> THEN NilNote ELSE Head(ops).note)
  /\ pc'[p] = IF ops = <<>> THEN "commit" ELSE "find"

\* The transaction only takes locks, none of a device, and of notes only n.
OnlyLocks(p, n) ==
  /\ tx'[p] \in TxState /\ tx'[p].ws = tx[p].ws /\ tx'[p].pend = tx[p].pend /\ tx'[p].jobs = tx[p].jobs
  /\ \A k \in Devices \cup Notes : k # n \/ k \in Devices => (k \in tx'[p].held <=> k \in tx[p].held)
  /\ n \in tx[p].held => n \in tx'[p].held

ReceiveShape(p) ==
  /\ pc[p] = "idle" /\ pc'[p] \in {"lock", "failed"}
  /\ req'[p] \in Request
  /\ req'[p].kind = "pull" => req'[p].cursor = client[req'[p].device].cursor
  /\ pc'[p] = "failed" => failure'[p].reason # "commit_unknown"
  /\ tx'[p] = tx[p] /\ SameBatch(p) /\ reply'[p] = reply[p] /\ seq' = seq /\ Silent

FailShape(p) ==
  /\ pc[p] \in InTx /\ pc'[p] = "failed" /\ tx'[p] = EmptyTx
  /\ failure'[p].reason # "commit_unknown"
  /\ SameBatch(p) /\ SameRequest(p) /\ seq' = seq /\ Silent

LockShape(p) ==
  /\ pc[p] = "lock" /\ OwnedBy(rows[req[p].device], User(p)) /\ ~rows[req[p].device].revoked
  /\ Free(p, req[p].device) /\ tx'[p] = Lock(tx[p], req[p].device)
  /\ \/ req[p].kind = "push" /\ OpensBatch(p, SortedOperations(req[p].ops))
     \/ req[p].kind = "pull" /\ pc'[p] = "page" /\ SameBatch(p)
  /\ SameRequest(p) /\ seq' = seq /\ Silent

\* FindProcessed, and the UPDATE of delete_note that matches nothing.
QuietShape(p) ==
  /\ \/ pc[p] = "find" /\ pc'[p] = "apply" /\ ~Processed(p, req[p].device, Op(p).id)
     \/ pc[p] = "apply" /\ pc'[p] = "lookup"
  /\ tx'[p] = tx[p] /\ SameBatch(p) /\ SameRequest(p) /\ seq' = seq /\ Silent

RetryShape(p) ==
  /\ pc[p] = "find" /\ Processed(p, req[p].device, Op(p).id) /\ Advances(p)
  /\ OnlyLocks(p, Op(p).note) /\ save'[p] = save[p]
  /\ batch'[p].id = batch[p].id /\ batch'[p].changed = batch[p].changed /\ batch'[p].cursor = batch[p].cursor
  /\ batch'[p].note # Absent =>
       /\ OwnedBy(batch'[p].note, User(p)) /\ OwnedBy(Visible(p, batch[p].id), User(p))
       /\ batch[p].id \in Notes
  /\ SameRequest(p) /\ seq' = seq /\ Silent

AcceptShape(p) ==
  /\ \E t, b, base, result :
       /\ Prepared(p, t, b, base, result)
       /\ tx'[p] = Logged(t, NewChange(p, Op(p), base, result))
       /\ batch'[p] = Marked(b, NewChange(p, Op(p), base, result))
  /\ Advances(p) /\ save'[p] = save[p]
  /\ SameRequest(p) /\ seq' = seq + 1 /\ Silent

RejectShape(p) ==
  /\ pc[p] \in {"apply", "lookup"} /\ pc'[p] = "rejected" /\ tx'[p] = save[p]
  /\ failure'[p].id = Op(p).id
  /\ \/ failure'[p].version = 0
     \/ Op(p).note \in Notes /\ failure'[p].version = Version(Visible(p, Op(p).note))
  /\ SameBatch(p) /\ SameRequest(p) /\ seq' = seq /\ Silent

\* The batch writes its note, or has nothing to write.
FlushShape(p) ==
  /\ pc[p] = "flush" /\ OpensBatch(p, todo[p])
  /\ tx'[p] \in TxState /\ tx'[p].pend = tx[p].pend /\ tx'[p].held = tx[p].held
  /\ \A k \in Devices \cup Notes : k # batch[p].id \/ k \in Devices => tx'[p].ws[k] = tx[p].ws[k]
  /\ batch[p].id \in Notes =>
       IF batch[p].changed /\ batch[p].note # Absent
       THEN /\ OwnedBy(tx'[p].ws[batch[p].id], batch[p].note.owner)
            /\ tx'[p].ws[batch[p].id].version = batch[p].note.version + 1
       ELSE tx'[p].ws[batch[p].id] = tx[p].ws[batch[p].id]
  /\ tx[p].jobs \subseteq tx'[p].jobs
  /\ batch[p].changed /\ batch[p].note # Absent /\ SnapshotDue(p, batch[p].id) =>
       \E j \in tx'[p].jobs : j.note = batch[p].id /\ j.version = batch[p].note.version + 1
  /\ req'[p] = req[p]
  /\ \E a \in Accepted : /\ a.note = batch[p].id /\ a.seq = batch[p].cursor
                         /\ reply'[p] = [reply[p] EXCEPT !.accepted = @ \cup {a}]
  /\ seq' = seq /\ Silent

\* Rejection r returns the document of its note, which is now locked.
CurrentDocument(p, r) ==
  /\ batch[p].id \in Notes /\ batch[p].id \in tx'[p].held /\ Free(p, batch[p].id)
  /\ r.snapshot = Version(Visible(p, batch[p].id)) /\ r.cursor = LastAppliedCursor(p, batch[p].id)
  /\ r.version \in {r.snapshot, failure[p].version}

RejectBatchShape(p) ==
  /\ pc[p] = "rejected" /\ OpensBatch(p, AfterBatch(todo[p], batch[p].id))
  /\ OnlyLocks(p, batch[p].id)
  /\ req'[p] = req[p]
  /\ \E r : /\ r.note = batch[p].id /\ reply'[p] = [reply[p] EXCEPT !.rejected = @ \cup {r}]
            /\ r.snapshot # None => CurrentDocument(p, r)
  /\ seq' = seq /\ Silent

CommitShape(p) ==
  /\ pc[p] = "commit" /\ pc'[p] = IF req[p].kind = "push" THEN "publish" ELSE "respond"
  /\ tx'[p] = EmptyTx /\ SameBatch(p) /\ SameRequest(p)
  /\ rows' = [k \in Keys |-> Visible(p, k)] /\ changes' = changes \cup tx[p].pend
  /\ outbox' = outbox \cup tx[p].jobs /\ UNCHANGED <<seq, snapshots, hints, client>>

PublishShape(p) ==
  /\ pc[p] = "publish" /\ pc'[p] = "done" /\ tx'[p] = tx[p] /\ SameBatch(p) /\ SameRequest(p)
  /\ \/ hints' = hints
     \/ /\ CommittedCursor(p) > 0
        /\ hints' = hints \cup {[user |-> User(p), device |-> req[p].device, cursor |-> CommittedCursor(p)]}
  /\ UNCHANGED <<rows, changes, seq, outbox, snapshots, client>>

PageShape(p) ==
  LET d == req[p].device
      page == FirstBySequence(RemoteChanges(p, User(p), d, req[p].cursor), PullLimit)
      next == NextCursor(req[p].cursor, page)
  IN
    /\ pc[p] = "page" /\ pc'[p] = "commit"
    /\ tx'[p] = Write(tx[p], d, [rows[d] EXCEPT !.cursor = AdvancedCursor(@, next)])
    /\ reply'[p] = [reply[p] EXCEPT !.page = page, !.next = next,
                                    !.raced = {c.seq : c \in UNION {tx[q].pend : q \in Handlers}}]
    /\ req'[p] = req[p] /\ SameBatch(p) /\ seq' = seq /\ Silent

RespondShape(p) ==
  LET d == req[p].device IN
    /\ pc[p] = "respond" /\ pc'[p] = "done" /\ tx'[p] = tx[p] /\ SameBatch(p) /\ SameRequest(p)
    /\ \/ client' = client
       \/ /\ client[d].cursor = req[p].cursor
          /\ client' = [client EXCEPT ![d] =
                          [cursor |-> reply[p].next, seen |-> @.seen \cup reply[p].page,
                           raced |-> @.raced \cup reply[p].raced]]
    /\ UNCHANGED <<rows, changes, seq, outbox, snapshots, hints>>

\* The answer of COMMIT is lost.
UnknownShape(p) ==
  /\ pc[p] \in {"publish", "respond"} /\ pc'[p] = "failed" /\ failure'[p].reason = "commit_unknown"
  /\ tx'[p] = tx[p] /\ SameBatch(p) /\ SameRequest(p) /\ seq' = seq /\ Silent

\* A device row is inserted, or revoked while nobody holds it.
DeviceShape(d) ==
  /\ \/ /\ rows[d] = Absent
        /\ rows' = [rows EXCEPT ![d] = [owner |-> Owner[d], revoked |-> FALSE, cursor |-> 0]]
     \/ /\ rows[d] # Absent /\ \A q \in Handlers : d \notin tx[q].held
        /\ rows' = [rows EXCEPT ![d] = [rows[d] EXCEPT !.revoked = TRUE]]
  /\ UNCHANGED <<changes, seq, outbox, snapshots, tx, save, pc, req, todo, batch, failure, reply, hints, client>>

OperationShape(p) == RetryShape(p) \/ QuietShape(p) \/ AcceptShape(p) \/ RejectShape(p)
BatchShape(p) == LockShape(p) \/ OperationShape(p) \/ FlushShape(p) \/ RejectBatchShape(p) \/ FailShape(p)
RequestShape(p) ==
  ReceiveShape(p) \/ CommitShape(p) \/ PublishShape(p) \/ PageShape(p) \/ RespondShape(p)
    \/ UnknownShape(p)

StepShape ==
  \/ \E p \in Handlers : Alone(p) /\ (BatchShape(p) \/ RequestShape(p))
  \/ \E d \in Devices : DeviceShape(d)
  \/ Still

LEMMA ShapeTypes ==
  ASSUME TypeInv
  PROVE  /\ tx \in [Handlers -> TxState] /\ save \in [Handlers -> TxState] /\ pc \in [Handlers -> PCs]
         /\ req \in [Handlers -> Request \cup {Absent}] /\ todo \in [Handlers -> Seq(Operation)]
         /\ batch \in [Handlers -> BatchState] /\ failure \in [Handlers -> Failure]
         /\ reply \in [Handlers -> Reply] /\ client \in [Devices -> ClientState]
         /\ rows \in [Keys -> Row \cup {Absent}]
  BY DEF TypeInv, HandlerFunctions, StoreInv

LEMMA FailingShape ==
  ASSUME TypeInv, NEW p \in Handlers, Failing(p)
  PROVE  Alone(p) /\ FailShape(p)
  BY ShapeTypes DEF Failing, FailRequest, RollbackTx, world, Alone, FailShape, SameBatch, SameRequest, Silent

LEMMA AcceptingShape ==
  ASSUME TypeInv, NEW p \in Handlers, Accepting(p)
  PROVE  Alone(p) /\ AcceptShape(p)
<1>1. PICK t, b, base, result : AcceptOp(p, t, b, base, result) /\ Prepared(p, t, b, base, result)
  BY DEF Accepting
<1> DEFINE x == NewChange(p, Op(p), base, result)
<1>2. /\ tx' = [tx EXCEPT ![p] = Logged(t, x)] /\ batch' = [batch EXCEPT ![p] = Marked(b, x)]
      /\ Advance(p) /\ UNCHANGED <<rows, changes, outbox, snapshots, save, req, failure, reply, hints, client>>
      /\ seq' = seq + 1
  BY <1>1 DEF AcceptOp, Logged, Marked, world, NewChange
<1> HIDE DEF x
<1>3. tx'[p] = Logged(t, x) /\ batch'[p] = Marked(b, x) /\ Advances(p)
  BY <1>2, ShapeTypes DEF Advance, Advances
<1>4. Alone(p)
  BY <1>2, ShapeTypes DEF Alone, Advance
<1> QED
  BY <1>1, <1>2, <1>3, <1>4 DEF AcceptShape, SameRequest, Silent, x

LEMMA RejectingShape ==
  ASSUME TypeInv, NEW p \in Handlers, Rejecting(p)
  PROVE  Alone(p) /\ RejectShape(p)
  BY ShapeTypes DEF Rejecting, RejectOp, RollbackToSavepoint, world, Alone, RejectShape, SameBatch,
                    SameRequest, Silent

LEMMA QuietShapes ==
  ASSUME TypeInv, NEW p \in Handlers,
         \/ FindProcessed(p)
         \/ /\ pc[p] = "apply" /\ pc' = [pc EXCEPT ![p] = "lookup"]
            /\ UNCHANGED <<store, req, todo, batch, failure, reply, world>>
  PROVE  Alone(p) /\ QuietShape(p)
  BY ShapeTypes DEF FindProcessed, store, world, Alone, QuietShape, SameBatch, SameRequest, Silent

LEMMA RetryOpShape ==
  ASSUME TypeInv, ChainInv, NEW p \in Handlers, BatchOwned(p), RetryOp(p)
  PROVE  Alone(p) /\ RetryShape(p)
<1> DEFINE n == Op(p).note
           b == Loaded(p, EnsuredNote(p, n))
<1>1. /\ pc[p] = "find" /\ Advance(p) /\ Processed(p, req[p].device, Op(p).id)
      /\ UNCHANGED <<rows, changes, seq, outbox, snapshots, save, req, failure, reply, hints, client>>
  BY DEF RetryOp, world
<1>2. n = batch[p].id /\ n \in Notes \cup {NilNote} /\ NilNote \notin Notes
  BY <1>1, CurrentRequest, KeysAssumption DEF Operation
<1>3. tx[p] \in TxState /\ batch[p] \in BatchState /\ (n = NilNote => batch[p].note = Absent)
  BY <1>2, ChainTypes
<1>4. CASE n = NilNote
  <2>1. tx' = tx /\ batch' = batch
    BY <1>4 DEF RetryOp
  <2>2. Alone(p) /\ Advances(p)
    BY <1>1, <2>1, ShapeTypes DEF Alone, Advance, Advances
  <2> QED
    BY <1>1, <1>3, <1>4, <2>1, <2>2 DEF RetryShape, OnlyLocks, SameRequest, Silent
<1>5. CASE n \in Notes
  <2>1. EnsureNote(p, n) /\ tx' = [tx EXCEPT ![p] = Ensured(p, n)] /\ batch' = [batch EXCEPT ![p] = b]
    BY <1>2, <1>5 DEF RetryOp
  <2>2. /\ b.id = batch[p].id /\ b.changed = batch[p].changed /\ b.cursor = batch[p].cursor
        /\ b.note = EnsuredNote(p, n)
    BY <1>3 DEF Loaded, BatchState
  <2>3. Ensured(p, n) = tx[p] \/ Ensured(p, n) = Lock(tx[p], n)
    BY DEF Ensured
  <2>4. EnsuredNote(p, n) # Absent => OwnedBy(EnsuredNote(p, n), User(p)) /\ OwnedBy(Visible(p, n), User(p))
    BY <1>1, <1>2, <1>5, <2>1, EnsuredOwned DEF InBatch
  <2>5. n \in Keys
    BY <1>5 DEF Keys
  <2> HIDE DEF b
  <2>6. Alone(p) /\ Advances(p) /\ tx'[p] = Ensured(p, n) /\ batch'[p] = b
    BY <1>1, <2>1, ShapeTypes DEF Alone, Advance, Advances
  <2>7. OnlyLocks(p, n)
    BY <1>3, <1>5, <2>3, <2>5, <2>6, KeysAssumption DEF OnlyLocks, Lock, TxState
  <2> QED
    BY <1>1, <1>2, <1>5, <2>2, <2>4, <2>6, <2>7 DEF RetryShape, SameRequest, Silent
<1> QED
  BY <1>2, <1>4, <1>5

LEMMA NextBatchShape ==
  ASSUME TypeInv, NEW p \in Handlers, NEW t, tx' = [tx EXCEPT ![p] = t], NEW ops, NextBatch(p, ops),
         UNCHANGED <<req, failure>>, NEW a, reply' = [reply EXCEPT ![p] = a]
  PROVE  Alone(p) /\ OpensBatch(p, ops) /\ tx'[p] = t /\ reply'[p] = a /\ req'[p] = req[p]
  BY ShapeTypes DEF NextBatch, Alone, OpensBatch

LEMMA LockDeviceShape ==
  ASSUME TypeInv, NEW p \in Handlers, LockDevice(p)
  PROVE  Alone(p) /\ (LockShape(p) \/ FailShape(p))
<1> DEFINE d == req[p].device
           ops == SortedOperations(req[p].ops)
<1>1. pc[p] = "lock" /\ pc[p] \in InTx
  BY DEF LockDevice, InTx
<1>2. CASE \E reason : reason # "commit_unknown" /\ FailRequest(p, reason)
  BY <1>1, <1>2, FailingShape DEF Failing
<1>3. CASE /\ OwnedBy(rows[d], User(p)) /\ RowGranted(p, d) /\ ~rows[d].revoked
           /\ tx' = [tx EXCEPT ![p] = Lock(@, d)]
           /\ UNCHANGED <<rows, changes, seq, outbox, snapshots, req, failure, reply, world>>
           /\ \/ req[p].kind = "push" /\ NextBatch(p, ops)
              \/ req[p].kind = "pull" /\ pc' = [pc EXCEPT ![p] = "page"] /\ UNCHANGED <<save, todo, batch>>
  <2>1. Free(p, d) /\ tx' = [tx EXCEPT ![p] = Lock(tx[p], d)] /\ Silent /\ seq' = seq /\ SameRequest(p)
    BY <1>3, ShapeTypes DEF RowGranted, Silent, world, SameRequest
  <2>2. CASE req[p].kind = "push" /\ NextBatch(p, ops)
    <3>1. Alone(p) /\ OpensBatch(p, ops) /\ tx'[p] = Lock(tx[p], d)
      BY <1>3, <2>1, <2>2, ShapeTypes DEF NextBatch, Alone, OpensBatch
    <3> QED
      BY <1>1, <1>3, <2>1, <2>2, <3>1 DEF LockShape
  <2>3. CASE req[p].kind = "pull" /\ pc' = [pc EXCEPT ![p] = "page"] /\ UNCHANGED <<save, todo, batch>>
    <3>1. Alone(p) /\ SameBatch(p) /\ pc'[p] = "page" /\ tx'[p] = Lock(tx[p], d)
      BY <1>3, <2>1, <2>3, ShapeTypes DEF Alone, SameBatch
    <3> QED
      BY <1>1, <1>3, <2>1, <2>3, <3>1 DEF LockShape
  <2> QED
    BY <1>3, <2>2, <2>3
<1> QED
  BY <1>2, <1>3 DEF LockDevice

LEMMA FlushBatchShape ==
  ASSUME TypeInv, ChainInv, NEW p \in Handlers, FlushBatch(p)
  PROVE  Alone(p) /\ FlushShape(p)
<1> DEFINE b == batch[p]
           n == b.id
           note == [b.note EXCEPT !.version = @ + 1]
           t == EnqueueSnapshotIfNeeded(p, Flushed(p, n, note), n, note.version)
<1>1. /\ pc[p] = "flush" /\ pc[p] \in InBatch /\ pc[p] # "idle" /\ NextBatch(p, todo[p])
      /\ UNCHANGED <<rows, changes, seq, outbox, snapshots, req, failure, hints, client>>
  BY DEF FlushBatch, InBatch, world
<1>2. Silent
  BY <1>1 DEF Silent
<1>3. HandlerChain(p, rows, changes, tx[p], save[p], pc[p], b)
  BY DEF ChainInv
<1>4. b \in BatchState /\ tx[p] \in TxState /\ (n = NilNote => b.note = Absent) /\ reply[p] \in Reply
  BY ChainTypes, ShapeTypes
<1>5. CASE /\ b.changed /\ b.note # Absent /\ tx' = [tx EXCEPT ![p] = t]
           /\ reply' = [reply EXCEPT ![p].accepted = @ \cup {[note |-> n, version |-> note.version, seq |-> b.cursor]}]
  <2> DEFINE a == [note |-> n, version |-> note.version, seq |-> b.cursor]
             r == [reply[p] EXCEPT !.accepted = @ \cup {a}]
  <2>1. n \in Notes /\ b.note \in NoteRow /\ n \in tx[p].held
    BY <1>1, <1>3, <1>4, <1>5 DEF BatchState, HandlerChain
  <2>2. /\ note \in NoteRow /\ note.version = b.note.version + 1 /\ note.owner = b.note.owner
        /\ note.version \in Nat
    BY <2>1 DEF NoteRow
  <2>3. note # Absent
    BY <2>2, AbsentAssumption DEF Row
  <2>4. a \in Accepted /\ a.note = n /\ a.seq = b.cursor
    BY <1>4, <2>2 DEF Accepted, BatchState
  <2> HIDE DEF note
  <2>5. t \in TxState /\ t.pend = tx[p].pend
    BY <1>1, <2>1, <2>2, FlushedTyped DEF TypedTx
  <2>6. /\ Flushed(p, n, note).held = tx[p].held
        /\ Flushed(p, n, note).ws = [k \in Keys |-> IF k = n THEN note
                          ELSE IF k \in b.dirty THEN b.blocks[k] ELSE tx[p].ws[k]]
    BY <1>4 DEF Flushed, TxState
  <2>7. t.held = Flushed(p, n, note).held /\ t.ws = Flushed(p, n, note).ws
    BY DEF EnqueueSnapshotIfNeeded, Flushed
  <2>7a. /\ tx[p].jobs \subseteq t.jobs
         /\ SnapshotDue(p, n) => \E j \in t.jobs : j.note = n /\ j.version = note.version
    <3> DEFINE j == [note |-> n, owner |-> User(p), version |-> note.version]
    <3>1. Flushed(p, n, note).jobs = tx[p].jobs
      BY <1>4 DEF Flushed, TxState
    <3>2. ~SnapshotDue(p, n) => t = Flushed(p, n, note)
      BY DEF EnqueueSnapshotIfNeeded
    <3>3. SnapshotDue(p, n) => t = [Flushed(p, n, note) EXCEPT !.jobs = @ \cup {j}]
      BY DEF EnqueueSnapshotIfNeeded
    <3>4. j.note = n /\ j.version = note.version
      OBVIOUS
    <3> HIDE DEF j, t
    <3>5. SnapshotDue(p, n) => t.jobs = tx[p].jobs \cup {j}
      BY <1>4, <3>1, <3>3 DEF Flushed, TxState
    <3> QED
      BY <3>1, <3>2, <3>4, <3>5
  <2>8. \A k \in Devices \cup Notes : k \in Keys /\ k \notin b.dirty
    BY <1>4, KeysAssumption DEF BatchState, Keys
  <2>9. t.held = tx[p].held /\ t.ws[n] = note /\ \A k \in Devices \cup Notes : k # n => t.ws[k] = tx[p].ws[k]
    BY <2>1, <2>6, <2>7, <2>8
  <2>10. reply' = [reply EXCEPT ![p] = r]
    BY <1>4, <1>5, ShapeTypes
  <2> HIDE DEF t, a, r
  <2>11. Alone(p) /\ OpensBatch(p, todo[p]) /\ tx'[p] = t /\ reply'[p] = r /\ req'[p] = req[p]
    BY <1>1, <1>5, <2>10, NextBatchShape
  <2>12. \E e \in Accepted : /\ e.note = batch[p].id /\ e.seq = batch[p].cursor
                             /\ reply'[p] = [reply[p] EXCEPT !.accepted = @ \cup {e}]
    BY <2>4, <2>11 DEF r
  <2>13. OwnedBy(t.ws[n], b.note.owner) /\ t.ws[n].version = b.note.version + 1
    BY <2>2, <2>3, <2>9 DEF OwnedBy
  <2> QED
    BY <1>1, <1>2, <1>5, <2>1, <2>2, <2>5, <2>9, <2>11, <2>12, <2>13, <2>7a, KeysAssumption DEF FlushShape
<1>6. CASE /\ ~(b.changed /\ b.note # Absent) /\ tx' = tx
           /\ reply' = [reply EXCEPT ![p].accepted =
                 @ \cup {[note |-> n, version |-> IF b.note = Absent THEN 0 ELSE b.note.version, seq |-> b.cursor]}]
  <2> DEFINE a == [note |-> n, version |-> IF b.note = Absent THEN 0 ELSE b.note.version, seq |-> b.cursor]
             r == [reply[p] EXCEPT !.accepted = @ \cup {a}]
  <2>1. a \in Accepted /\ a.note = n /\ a.seq = b.cursor
    BY <1>4 DEF Accepted, BatchState, NoteRow
  <2>2. reply' = [reply EXCEPT ![p] = r] /\ tx' = [tx EXCEPT ![p] = tx[p]]
    BY <1>4, <1>6, ShapeTypes
  <2> HIDE DEF a, r
  <2>3. Alone(p) /\ OpensBatch(p, todo[p]) /\ tx'[p] = tx[p] /\ reply'[p] = r /\ req'[p] = req[p]
    BY <1>1, <2>2, NextBatchShape
  <2>4. \E e \in Accepted : /\ e.note = batch[p].id /\ e.seq = batch[p].cursor
                             /\ reply'[p] = [reply[p] EXCEPT !.accepted = @ \cup {e}]
    BY <2>1, <2>3 DEF r
  <2> QED
    BY <1>1, <1>2, <1>4, <1>6, <2>3, <2>4 DEF FlushShape
<1> QED
  BY <1>5, <1>6 DEF FlushBatch

LEMMA RejectBatchShapes ==
  ASSUME TypeInv, NEW p \in Handlers, RejectBatch(p)
  PROVE  Alone(p) /\ RejectBatchShape(p)
<1> DEFINE n == batch[p].id
           f == failure[p]
           rest == AfterBatch(todo[p], n)
           answer(v, s, c) == [note |-> n, id |-> f.id, reason |-> f.reason, version |-> v, snapshot |-> s, cursor |-> c]
           note == IF n = NilNote THEN Absent ELSE NoteForOwner(p, n, User(p))
<1>1. /\ pc[p] = "rejected" /\ NextBatch(p, rest)
      /\ UNCHANGED <<rows, changes, seq, outbox, snapshots, req, failure, hints, client>>
  BY DEF RejectBatch, world
<1>2. Silent /\ tx[p] \in TxState /\ batch[p] \in BatchState /\ reply[p] \in Reply
  BY <1>1, ShapeTypes DEF Silent
<1>3. PICK t, v, z, c :
        /\ tx' = [tx EXCEPT ![p] = t]
        /\ t = tx[p] \/ (n \in Notes /\ t = Lock(tx[p], n))
        /\ reply' = [reply EXCEPT ![p] = [reply[p] EXCEPT !.rejected = @ \cup {answer(v, z, c)}]]
        /\ z # None => /\ n \in Notes /\ t = Lock(tx[p], n) /\ Free(p, n)
                       /\ z = Version(Visible(p, n)) /\ c = LastAppliedCursor(p, n) /\ v \in {z, f.version}
  <2>1. CASE tx' = tx /\ reply' = [reply EXCEPT ![p].rejected = @ \cup {answer(f.version, None, 0)}]
    <3>1. tx' = [tx EXCEPT ![p] = tx[p]]
      BY <2>1, ShapeTypes
    <3> HIDE DEF answer
    <3>2. reply' = [reply EXCEPT ![p] = [reply[p] EXCEPT !.rejected = @ \cup {answer(f.version, None, 0)}]]
      BY <1>2, <2>1, ShapeTypes
    <3> QED
      BY <3>1, <3>2
  <2>2. CASE /\ note # Absent /\ Free(p, n) /\ tx' = [tx EXCEPT ![p] = Lock(@, n)]
             /\ reply' = [reply EXCEPT ![p].rejected =
                            @ \cup {answer(IF f.version = 0 THEN note.version ELSE f.version,
                                           note.version, LastAppliedCursor(p, n))}]
    <3>1. n \in Notes /\ tx' = [tx EXCEPT ![p] = Lock(tx[p], n)]
      BY <1>2, <2>2 DEF BatchState
    <3>2. note = Visible(p, n) /\ note.version = Version(Visible(p, n))
      BY <2>2 DEF NoteForOwner, Version
    <3> DEFINE v == IF f.version = 0 THEN note.version ELSE f.version
    <3>3. v \in {note.version, f.version}
      OBVIOUS
    <3> HIDE DEF answer, v, note
    <3>4. reply' = [reply EXCEPT ![p] = [reply[p] EXCEPT !.rejected =
                                            @ \cup {answer(v, note.version, LastAppliedCursor(p, n))}]]
      BY <1>2, <2>2, ShapeTypes DEF v
    <3> QED
      BY <2>2, <3>1, <3>2, <3>3, <3>4
  <2> QED
    BY <2>1, <2>2 DEF RejectBatch
<1> DEFINE r == answer(v, z, c)
<1>4. r.note = n /\ r.snapshot = z /\ r.version = v /\ r.cursor = c
  OBVIOUS
<1> HIDE DEF r, answer
<1> HIDE DEF rest
<1>5. /\ Alone(p) /\ OpensBatch(p, rest) /\ tx'[p] = t /\ req'[p] = req[p]
      /\ reply'[p] = [reply[p] EXCEPT !.rejected = @ \cup {r}]
  BY <1>1, <1>3, NextBatchShape DEF r
<1>6. OnlyLocks(p, n)
  <2>1. n \in Notes => n \in Keys
    BY DEF Keys
  <2> QED
    BY <1>2, <1>3, <1>5, <2>1, KeysAssumption DEF OnlyLocks, Lock, TxState
<1>7. r.snapshot # None => CurrentDocument(p, r)
  <2>1. n \in Lock(tx[p], n).held
    BY <1>2 DEF Lock, TxState
  <2> QED
    BY <1>3, <1>4, <1>5, <2>1 DEF CurrentDocument
<1> QED
  BY <1>1, <1>2, <1>4, <1>5, <1>6, <1>7 DEF RejectBatchShape, rest

LEMMA ReceiveShapes ==
  ASSUME TypeInv, NEW p \in Handlers, NEW r \in Requests, Receive(p, r)
  PROVE  Alone(p) /\ ReceiveShape(p)
<1> DEFINE s == IF r.kind = "pull" THEN [r EXCEPT !.cursor = client[r.device].cursor] ELSE r
<1> DEFINE bad == [NoFailure EXCEPT !.reason = IF r.valid THEN "too_large" ELSE "invalid"]
<1>1. /\ pc[p] = "idle" /\ req' = [req EXCEPT ![p] = s]
      /\ \/ pc' = [pc EXCEPT ![p] = "lock"] /\ failure' = [failure EXCEPT ![p] = failure[p]]
         \/ pc' = [pc EXCEPT ![p] = "failed"] /\ failure' = [failure EXCEPT ![p] = bad]
      /\ UNCHANGED <<rows, changes, seq, outbox, snapshots, tx, save, todo, batch, reply, hints, client>>
  BY ShapeTypes DEF Receive, store, world
<1>2. r \in Request
  BY RequestsAssumption
<1>3. r.device \in Devices /\ client[r.device].cursor \in Nat
  BY <1>2, ShapeTypes DEF Request, ClientState
<1>4. s \in Request /\ (s.kind = "pull" => s.cursor = client[s.device].cursor)
  BY <1>2, <1>3 DEF Request
<1>6. bad.reason # "commit_unknown"
  BY DEF NoFailure
<1> HIDE DEF s, bad
<1>5. /\ Alone(p) /\ req'[p] = s /\ pc'[p] \in {"lock", "failed"}
      /\ pc'[p] = "failed" => failure'[p].reason # "commit_unknown"
  BY <1>1, <1>6, ShapeTypes DEF Alone
<1> QED
  BY <1>1, <1>4, <1>5 DEF ReceiveShape, SameBatch, Silent

LEMMA EndShapes ==
  ASSUME TypeInv, NEW p \in Handlers
  PROVE  /\ Commit(p) => Alone(p) /\ CommitShape(p)
         /\ Publish(p) => Alone(p) /\ PublishShape(p)
         /\ Respond(p) => Alone(p) /\ RespondShape(p)
         /\ CommitUnknown(p) => Alone(p) /\ UnknownShape(p)
<1>1. ASSUME Commit(p) PROVE Alone(p) /\ CommitShape(p)
  BY <1>1, ShapeTypes DEF Commit, CommitTx, world, Alone, CommitShape, SameBatch, SameRequest
<1>2. ASSUME Publish(p) PROVE Alone(p) /\ PublishShape(p)
  BY <1>2, ShapeTypes DEF Publish, store, Alone, PublishShape, SameBatch, SameRequest
<1>3. ASSUME Respond(p) PROVE Alone(p) /\ RespondShape(p)
  BY <1>3, ShapeTypes DEF Respond, store, Alone, RespondShape, SameBatch, SameRequest
<1>4. ASSUME CommitUnknown(p) PROVE Alone(p) /\ UnknownShape(p)
  BY <1>4, ShapeTypes DEF CommitUnknown, NoFailure, store, world, Alone, UnknownShape, SameBatch, SameRequest, Silent
<1> QED
  BY <1>1, <1>2, <1>3, <1>4

LEMMA PullPageShape ==
  ASSUME TypeInv, NEW p \in Handlers, PullPage(p)
  PROVE  Alone(p) /\ PageShape(p)
<1> DEFINE d == req[p].device
           page == FirstBySequence(RemoteChanges(p, User(p), d, req[p].cursor), PullLimit)
           next == NextCursor(req[p].cursor, page)
           raced == {c.seq : c \in UNION {tx[q].pend : q \in Handlers}}
           t == Write(tx[p], d, [rows[d] EXCEPT !.cursor = AdvancedCursor(@, next)])
           a == [reply[p] EXCEPT !.page = page, !.next = next, !.raced = raced]
<1>1. /\ pc[p] = "page" /\ tx' = [tx EXCEPT ![p] = t] /\ reply' = [reply EXCEPT ![p] = a]
      /\ pc' = [pc EXCEPT ![p] = "commit"]
      /\ UNCHANGED <<rows, changes, seq, outbox, snapshots, save, req, todo, batch, failure, hints, client>>
  BY DEF PullPage, world
<1> HIDE DEF t, a
<1>2. Alone(p) /\ tx'[p] = t /\ reply'[p] = a /\ pc'[p] = "commit"
  BY <1>1, ShapeTypes DEF Alone
<1>3. req'[p] = req[p] /\ SameBatch(p) /\ Silent
  BY <1>1 DEF SameBatch, Silent
<1> QED
  BY <1>1, <1>2, <1>3 DEF PageShape, t, a

\* Every step of the service has one of these shapes.
LEMMA StepShapes ==
  ASSUME TypeInv, ChainInv, \A p \in Handlers : BatchOwned(p), [Next]_vars
  PROVE  StepShape
<1>1. ASSUME NEW p \in Handlers, HandlerStep(p) PROVE Alone(p) /\ (BatchShape(p) \/ RequestShape(p))
  <2>1. CASE LockDevice(p)
    BY <2>1, LockDeviceShape DEF BatchShape
  <2>2. CASE FindProcessed(p) \/ RetryOp(p)
    BY <2>2, QuietShapes, RetryOpShape DEF BatchShape, OperationShape
  <2>3. CASE ApplyStep(p)
    <3>1. CASE Accepting(p) \/ Rejecting(p) \/ Failing(p)
      BY <3>1, AcceptingShape, RejectingShape, FailingShape DEF BatchShape, OperationShape
    <3>2. CASE /\ pc[p] = "apply" /\ pc' = [pc EXCEPT ![p] = "lookup"]
               /\ UNCHANGED <<store, req, todo, batch, failure, reply, world>>
      BY <3>2, QuietShapes DEF BatchShape, OperationShape
    <3> QED
      BY <2>3, <3>1, <3>2, ApplyStepPrepared
  <2>4. CASE FlushBatch(p) \/ RejectBatch(p)
    BY <2>4, FlushBatchShape, RejectBatchShapes DEF BatchShape
  <2>5. CASE Commit(p) \/ Publish(p) \/ PullPage(p) \/ Respond(p)
    BY <2>5, EndShapes, PullPageShape DEF RequestShape
  <2> QED
    BY <1>1, <2>1, <2>2, <2>3, <2>4, <2>5 DEF HandlerStep, ApplyStep
<1>2. ASSUME NEW p \in Handlers, NEW r \in Requests, Receive(p, r) PROVE Alone(p) /\ RequestShape(p)
  BY <1>2, ReceiveShapes DEF RequestShape
<1>3. ASSUME NEW p \in Handlers, Abort(p) \/ CommitUnknown(p)
      PROVE  Alone(p) /\ (BatchShape(p) \/ RequestShape(p))
  BY <1>3, FailingShape, EndShapes DEF Abort, Failing, BatchShape, RequestShape
<1>4. ASSUME NEW d, RegisterDevice(d) \/ RevokeDevice(d) PROVE DeviceShape(d)
  BY <1>4 DEF RegisterDevice, RevokeDevice, handler, world, DeviceShape
<1>5. Revocable \subseteq Devices
  BY OwnerAssumption
<1>6. CheckStep \/ UNCHANGED vars => Still
  BY CheckStepLeaves DEF Still, vars
<1> QED
  BY <1>1, <1>2, <1>3, <1>4, <1>5, <1>6 DEF Next, CheckStep, StepShape

-----------------------------------------------------------------------------
(* Devices: who holds their rows, and what they may commit.                *)

\* The device row is locked, and the transaction is at work.
Working == {"find", "apply", "lookup", "flush", "rejected", "page", "commit"}
PushWork == {"find", "apply", "lookup", "flush", "rejected"}

\* Transaction t of request r holds r's device and no other.
HoldsDevice(t, r) == \A d \in Devices : d \in t.held <=> d = r.device

WritesNoDevice(t) == \A d \in Devices : t.ws[d] = Absent

\* UpdateDeviceCursor, waiting to be committed.
MovedCursor(R, t, r, a) ==
  LET row == t.ws[r.device] IN
    /\ OwnedBy(row, r.user) /\ ~row.revoked
    /\ row.cursor \in {R[r.device].cursor, a.next}
    /\ R[r.device].cursor <= row.cursor /\ a.next <= row.cursor
    /\ \A d \in Devices : d # r.device => t.ws[d] = Absent

\* Handler p, with everything it owns as parameters.
DeviceOK(p, R, t, sv, c, r, a) ==
  /\ c \notin Working => t = EmptyTx
  /\ c \in Working => HoldsDevice(t, r) /\ OwnedBy(R[r.device], r.user) /\ ~R[r.device].revoked
  /\ \A x \in t.pend : x.by = p /\ x.device = r.device /\ x.owner = r.user
  /\ IsFiniteSet(t.pend)
  /\ c = "commit" /\ r.kind = "pull" => MovedCursor(R, t, r, a)
  /\ c \in Working /\ ~(c = "commit" /\ r.kind = "pull") => WritesNoDevice(t)
  /\ c \in PushWork => /\ r.kind = "push" /\ sv.pend \subseteq t.pend
                       /\ HoldsDevice(sv, r) /\ WritesNoDevice(sv)
  /\ c = "page" => r.kind = "pull"
  /\ c = "publish" => r.kind = "push"
  /\ c = "respond" => r.kind = "pull"
  /\ c # "idle" /\ r.kind = "pull" => t.pend = {} /\ a.accepted = {}
  /\ c \in {"idle", "lock", "page"} => a = NoReply

\* No device row is locked twice.
DevicesExclusive ==
  \A p, q \in Handlers : p # q => \A d \in Devices : d \notin tx[p].held \/ d \notin tx[q].held

\* A device row belongs to the user who registered it, and so does every change
\* that is committed through it.
DeviceRowsOK ==
  /\ \A d \in Devices : rows[d] # Absent => rows[d].owner = Owner[d]
  /\ \A c \in changes : OwnedBy(rows[c.device], c.owner)
  /\ IsFiniteSet(changes)

DevicesOK(p) == DeviceOK(p, rows, tx[p], save[p], pc[p], req[p], reply[p])

DevicesInv == DevicesExclusive /\ DeviceRowsOK /\ \A p \in Handlers : DevicesOK(p)

LEMMA EmptyTxFacts ==
  /\ EmptyTx \in TxState /\ EmptyTx.pend = {} /\ EmptyTx.held = {} /\ EmptyTx.jobs = {}
  /\ \A k \in Keys : EmptyTx.ws[k] = Absent
  BY DEF EmptyTx, TxState

\* A handler that stands still, while the device rows others hold are left alone.
LEMMA DeviceStays ==
  ASSUME NEW p, NEW R, NEW S, NEW t, NEW sv, NEW c, NEW r, NEW a, DeviceOK(p, R, t, sv, c, r, a),
         c # "idle" => r \in Request, \A d \in Devices : d \in t.held => S[d] = R[d]
  PROVE  DeviceOK(p, S, t, sv, c, r, a)
<1>1. c \in Working => S[r.device] = R[r.device]
  BY DEF DeviceOK, HoldsDevice, Working, Request
<1> QED
  BY <1>1 DEF DeviceOK, MovedCursor, Working

\* A step of handler p keeps the invariant if it leaves p well formed, and what
\* the others hold alone.
LEMMA DeviceFrame ==
  ASSUME TypeInv, DevicesInv, NEW p \in Handlers, Alone(p), DeviceRowsOK',
         DeviceOK(p, rows', tx'[p], save'[p], pc'[p], req'[p], reply'[p]),
         \A q \in Handlers \ {p} : \A d \in Devices : d \in tx[q].held => rows'[d] = rows[d],
         \A d \in Devices : d \in tx'[p].held => d \in tx[p].held \/ Free(p, d)
  PROVE  DevicesInv'
<1>1. ASSUME NEW q \in Handlers \ {p} PROVE DevicesOK(q)'
  <2>1. pc[q] # "idle" => req[q] \in Request
    BY DEF TypeInv, HandlerInv, HandlerOK
  <2>2. DeviceOK(q, rows', tx[q], save[q], pc[q], req[q], reply[q])
    BY <2>1, DeviceStays DEF DevicesInv, DevicesOK
  <2> QED
    BY <2>2 DEF Alone, DevicesOK
<1>2. DevicesExclusive'
  BY DEF DevicesInv, DevicesExclusive, Alone, Free
<1> QED
  BY <1>1, <1>2 DEF DevicesInv, DevicesOK

\* The same, for a step that commits nothing.
LEMMA DeviceSilent ==
  ASSUME TypeInv, DevicesInv, NEW p \in Handlers, Alone(p), Silent,
         DeviceOK(p, rows, tx'[p], save'[p], pc'[p], req'[p], reply'[p]),
         \A d \in Devices : d \in tx'[p].held => d \in tx[p].held \/ Free(p, d)
  PROVE  DevicesInv'
<1>1. rows' = rows /\ DeviceRowsOK'
  BY DEF Silent, DevicesInv, DeviceRowsOK
<1> QED
  BY <1>1, DeviceFrame

\* What the invariant says of the handler that takes the step.
LEMMA DeviceHandler ==
  ASSUME TypeInv, DevicesInv, NEW p \in Handlers
  PROVE  /\ DeviceOK(p, rows, tx[p], save[p], pc[p], req[p], reply[p])
         /\ tx[p] \in TxState /\ save[p] \in TxState
         /\ pc[p] # "idle" => req[p] \in Request
         /\ batch[p] \in BatchState /\ reply[p] \in Reply
         /\ \A d \in Devices : d \in Keys /\ d \notin Notes
  BY KeysAssumption DEF DevicesInv, DevicesOK, TypeInv, HandlerInv, HandlerOK, TypedTx, Keys

LEMMA DevicesReceive ==
  ASSUME TypeInv, DevicesInv, NEW p \in Handlers, Alone(p), ReceiveShape(p)
  PROVE  DevicesInv'
<1>1. tx[p] = EmptyTx /\ reply[p] = NoReply /\ tx'[p] = EmptyTx /\ reply'[p] = NoReply
      /\ pc'[p] \in {"lock", "failed"} /\ Silent
  BY DeviceHandler DEF ReceiveShape, DeviceOK, Working
<1>2. DeviceOK(p, rows, tx'[p], save'[p], pc'[p], req'[p], reply'[p])
  BY <1>1, EmptyTxFacts, FS_EmptySet DEF DeviceOK, Working, PushWork, NoReply
<1> QED
  BY <1>1, <1>2, EmptyTxFacts, DeviceSilent

LEMMA DevicesFail ==
  ASSUME TypeInv, DevicesInv, NEW p \in Handlers, Alone(p), FailShape(p)
  PROVE  DevicesInv'
<1>1. tx'[p] = EmptyTx /\ req'[p] = req[p] /\ reply'[p] = reply[p] /\ pc'[p] = "failed" /\ Silent
      /\ pc[p] # "idle"
  BY DEF FailShape, SameRequest, InTx
<1>2. req[p].kind = "pull" => reply[p].accepted = {}
  BY <1>1, DeviceHandler DEF DeviceOK
<1>3. DeviceOK(p, rows, tx'[p], save'[p], pc'[p], req'[p], reply'[p])
  BY <1>1, <1>2, EmptyTxFacts, FS_EmptySet DEF DeviceOK, Working, PushWork
<1> QED
  BY <1>1, <1>3, EmptyTxFacts, DeviceSilent

LEMMA DevicesLock ==
  ASSUME TypeInv, DevicesInv, NEW p \in Handlers, Alone(p), LockShape(p)
  PROVE  DevicesInv'
<1> DEFINE d == req[p].device
           t == Lock(EmptyTx, d)
<1>1. /\ pc[p] = "lock" /\ OwnedBy(rows[d], User(p)) /\ ~rows[d].revoked /\ Free(p, d)
      /\ req'[p] = req[p] /\ reply'[p] = reply[p] /\ Silent
  BY DEF LockShape, SameRequest
<1>2. tx[p] = EmptyTx /\ reply[p] = NoReply /\ req[p] \in Request
  BY <1>1, DeviceHandler DEF DeviceOK, Working
<1>3. tx'[p] = t
  BY <1>2 DEF LockShape
<1>4. /\ t \in TxState /\ t.pend = {} /\ t.held = {d} /\ \A k \in Keys : t.ws[k] = Absent
  BY <1>2, EmptyTxFacts DEF Lock, TxState, Request, Keys
<1> HIDE DEF t
<1>5. HoldsDevice(t, req[p]) /\ WritesNoDevice(t)
  BY <1>2, <1>4 DEF HoldsDevice, WritesNoDevice, Keys
<1>6. \/ req[p].kind = "push" /\ save'[p] = t /\ pc'[p] \in {"find", "commit"}
      \/ req[p].kind = "pull" /\ pc'[p] = "page"
  BY <1>3 DEF LockShape, OpensBatch
<1>7. DeviceOK(p, rows, t, save'[p], pc'[p], req[p], NoReply)
  BY <1>1, <1>4, <1>5, <1>6, FS_EmptySet DEF DeviceOK, Working, PushWork, User, NoReply
<1>8. \A e \in Devices : e \in tx'[p].held => Free(p, e)
  BY <1>1, <1>3, <1>4
<1> QED
  BY <1>1, <1>2, <1>3, <1>7, <1>8, DeviceSilent

LEMMA DevicesQuiet ==
  ASSUME TypeInv, DevicesInv, NEW p \in Handlers, Alone(p), QuietShape(p)
  PROVE  DevicesInv'
<1>1. /\ tx'[p] = tx[p] /\ save'[p] = save[p] /\ req'[p] = req[p] /\ reply'[p] = reply[p] /\ Silent
      /\ pc[p] \in {"find", "apply"} /\ pc'[p] \in {"apply", "lookup"}
  BY DEF QuietShape, SameRequest, SameBatch
<1>2. DeviceOK(p, rows, tx[p], save[p], pc'[p], req[p], reply[p])
  BY <1>1, DeviceHandler DEF DeviceOK, Working, PushWork
<1> QED
  BY <1>1, <1>2, DeviceSilent

\* A step within a batch that adds at most rows of the request to the log.
LEMMA DevicesWithinBatch ==
  ASSUME TypeInv, DevicesInv, NEW p \in Handlers, Alone(p), Silent,
         pc[p] \in PushWork, pc'[p] \in PushWork, req'[p] = req[p], save'[p] = save[p],
         tx[p].pend \subseteq tx'[p].pend, IsFiniteSet(tx'[p].pend),
         \A x \in tx'[p].pend : x \in tx[p].pend \/ (x.by = p /\ x.device = req[p].device /\ x.owner = User(p)),
         \A d \in Devices : tx'[p].ws[d] = tx[p].ws[d] /\ (d \in tx'[p].held <=> d \in tx[p].held)
  PROVE  DevicesInv'
<1>1. DeviceOK(p, rows, tx[p], save[p], pc[p], req[p], reply[p])
  BY DeviceHandler
<1>2. /\ HoldsDevice(tx[p], req[p]) /\ WritesNoDevice(tx[p]) /\ req[p].kind = "push"
      /\ save[p].pend \subseteq tx[p].pend /\ HoldsDevice(save[p], req[p]) /\ WritesNoDevice(save[p])
      /\ OwnedBy(rows[req[p].device], req[p].user) /\ ~rows[req[p].device].revoked
      /\ \A x \in tx[p].pend : x.by = p /\ x.device = req[p].device /\ x.owner = req[p].user
  BY <1>1 DEF DeviceOK, Working, PushWork
<1>3. HoldsDevice(tx'[p], req[p]) /\ WritesNoDevice(tx'[p])
  BY <1>2 DEF HoldsDevice, WritesNoDevice
<1>4. pc'[p] \in Working /\ pc'[p] \notin {"idle", "lock", "page", "commit", "publish", "respond"}
  BY DEF PushWork, Working
<1>5. save[p].pend \subseteq tx'[p].pend
  BY <1>2
<1>6. \A x \in tx'[p].pend : x.by = p /\ x.device = req[p].device /\ x.owner = req[p].user
  BY <1>2 DEF User
<1>7. DeviceOK(p, rows, tx'[p], save[p], pc'[p], req[p], reply'[p])
  BY <1>2, <1>3, <1>4, <1>5, <1>6 DEF DeviceOK
<1> QED
  BY <1>7, DeviceSilent

LEMMA DevicesRetry ==
  ASSUME TypeInv, DevicesInv, NEW p \in Handlers, Alone(p), RetryShape(p)
  PROVE  DevicesInv'
<1>1. /\ pc[p] = "find" /\ pc'[p] \in {"find", "flush"} /\ req'[p] = req[p] /\ save'[p] = save[p] /\ Silent
      /\ tx'[p].pend = tx[p].pend /\ tx'[p].ws = tx[p].ws
      /\ \A d \in Devices : d \in tx'[p].held <=> d \in tx[p].held
  BY DEF RetryShape, Advances, SameRequest, OnlyLocks
<1>2. IsFiniteSet(tx'[p].pend)
  BY <1>1, DeviceHandler DEF DeviceOK
<1> QED
  BY <1>1, <1>2, DevicesWithinBatch DEF PushWork

\* What an accepted operation adds.
LEMMA AcceptFacts ==
  ASSUME TypeInv, NEW p \in Handlers, AcceptShape(p)
  PROVE  \E x \in Change :
           /\ pc[p] = "apply" /\ pc'[p] \in {"find", "flush"} /\ req'[p] = req[p] /\ reply'[p] = reply[p]
           /\ save'[p] = save[p] /\ seq' = seq + 1 /\ Silent
           /\ tx'[p].pend = tx[p].pend \cup {x} /\ batch'[p].cursor = x.seq /\ batch'[p].id = batch[p].id
           /\ x.seq = seq + 1 /\ x.owner = User(p) /\ x.device = req[p].device /\ x.by = p
           /\ x.note = Op(p).note /\ x.op = Op(p)
           /\ \A d \in Devices : tx'[p].ws[d] = tx[p].ws[d] /\ (d \in tx'[p].held <=> d \in tx[p].held)
<1>1. PICK t, b, base, result :
        /\ Prepared(p, t, b, base, result)
        /\ tx'[p] = Logged(t, NewChange(p, Op(p), base, result))
        /\ batch'[p] = Marked(b, NewChange(p, Op(p), base, result))
  BY DEF AcceptShape
<1> DEFINE x == NewChange(p, Op(p), base, result)
<1>2. /\ pc[p] = "apply" /\ t \in TxState /\ t.pend = tx[p].pend /\ b \in BatchState /\ b.id = batch[p].id
      /\ base \in Nat /\ result \in Nat
      /\ \A k \in Devices : t.ws[k] = tx[p].ws[k] /\ (k \in t.held <=> k \in tx[p].held)
  BY <1>1 DEF Prepared
<1>3. /\ Op(p) \in Operation /\ Op(p).note \in Notes \cup {NilNote}
      /\ User(p) \in Users /\ req[p].device \in Devices /\ seq \in Nat
  BY <1>2, CurrentRequest DEF TypeInv, StoreInv, Operation
<1>4. /\ x \in Change /\ x.seq = seq + 1 /\ x.owner = User(p) /\ x.device = req[p].device /\ x.by = p
      /\ x.note = Op(p).note /\ x.op = Op(p)
  BY <1>2, <1>3 DEF NewChange, Change
<1> HIDE DEF x
<1>5. /\ tx'[p].pend = tx[p].pend \cup {x} /\ tx'[p].ws = t.ws /\ tx'[p].held = t.held
      /\ batch'[p].cursor = x.seq /\ batch'[p].id = batch[p].id
  BY <1>1, <1>2 DEF Logged, Marked, TxState, BatchState, x
<1>6. /\ pc'[p] \in {"find", "flush"} /\ req'[p] = req[p] /\ reply'[p] = reply[p] /\ save'[p] = save[p]
      /\ seq' = seq + 1 /\ Silent
  BY DEF AcceptShape, Advances, SameRequest
<1> QED
  BY <1>2, <1>4, <1>5, <1>6

LEMMA DevicesAccept ==
  ASSUME TypeInv, DevicesInv, NEW p \in Handlers, Alone(p), AcceptShape(p)
  PROVE  DevicesInv'
<1>1. PICK x \in Change :
           /\ pc[p] = "apply" /\ pc'[p] \in {"find", "flush"} /\ req'[p] = req[p]
           /\ save'[p] = save[p] /\ Silent /\ tx'[p].pend = tx[p].pend \cup {x}
           /\ x.owner = User(p) /\ x.device = req[p].device /\ x.by = p
           /\ \A d \in Devices : tx'[p].ws[d] = tx[p].ws[d] /\ (d \in tx'[p].held <=> d \in tx[p].held)
  BY AcceptFacts
<1>2. IsFiniteSet(tx[p].pend \cup {x})
  BY DeviceHandler, FS_AddElement DEF DeviceOK
<1> QED
  BY <1>1, <1>2, DevicesWithinBatch DEF PushWork

LEMMA DevicesReject ==
  ASSUME TypeInv, DevicesInv, NEW p \in Handlers, Alone(p), RejectShape(p)
  PROVE  DevicesInv'
<1>1. /\ pc[p] \in {"apply", "lookup"} /\ pc'[p] = "rejected" /\ tx'[p] = save[p] /\ req'[p] = req[p]
      /\ save'[p] = save[p] /\ Silent
  BY DEF RejectShape, SameBatch, SameRequest
<1>2. DeviceOK(p, rows, tx[p], save[p], pc[p], req[p], reply[p]) /\ pc[p] \in PushWork /\ pc[p] \in Working
  BY <1>1, DeviceHandler DEF PushWork, Working
<1>3. /\ HoldsDevice(tx[p], req[p]) /\ req[p].kind = "push"
      /\ save[p].pend \subseteq tx[p].pend /\ HoldsDevice(save[p], req[p]) /\ WritesNoDevice(save[p])
      /\ OwnedBy(rows[req[p].device], req[p].user) /\ ~rows[req[p].device].revoked
      /\ \A x \in tx[p].pend : x.by = p /\ x.device = req[p].device /\ x.owner = req[p].user
      /\ IsFiniteSet(tx[p].pend)
  BY <1>2 DEF DeviceOK
<1>4. IsFiniteSet(save[p].pend)
  BY <1>3, FS_Subset
<1>5. \A x \in save[p].pend : x.by = p /\ x.device = req[p].device /\ x.owner = req[p].user
  BY <1>3
<1>6. DeviceOK(p, rows, save[p], save[p], pc'[p], req[p], reply'[p])
  BY <1>1, <1>3, <1>4, <1>5 DEF DeviceOK, PushWork, Working
<1>7. \A d \in Devices : d \in tx'[p].held => d \in tx[p].held
  BY <1>1, <1>3 DEF HoldsDevice
<1> QED
  BY <1>1, <1>6, <1>7, DeviceSilent

\* The next batch is opened, or the request has none left.
LEMMA DevicesOpens ==
  ASSUME TypeInv, DevicesInv, NEW p \in Handlers, Alone(p), Silent, pc[p] \in PushWork,
         NEW ops, OpensBatch(p, ops), req'[p] = req[p], tx'[p].pend = tx[p].pend,
         \A d \in Devices : tx'[p].ws[d] = tx[p].ws[d] /\ (d \in tx'[p].held <=> d \in tx[p].held)
  PROVE  DevicesInv'
<1>1. pc'[p] \in {"find", "commit"} /\ save'[p] = tx'[p]
  BY DEF OpensBatch
<1>2. DeviceOK(p, rows, tx[p], save[p], pc[p], req[p], reply[p]) /\ pc[p] \in Working
  BY DeviceHandler DEF PushWork, Working
<1>3. /\ HoldsDevice(tx[p], req[p]) /\ WritesNoDevice(tx[p]) /\ req[p].kind = "push"
      /\ OwnedBy(rows[req[p].device], req[p].user) /\ ~rows[req[p].device].revoked
      /\ \A x \in tx[p].pend : x.by = p /\ x.device = req[p].device /\ x.owner = req[p].user
      /\ IsFiniteSet(tx[p].pend)
  BY <1>2 DEF DeviceOK, PushWork
<1>4. HoldsDevice(tx'[p], req[p]) /\ WritesNoDevice(tx'[p])
  BY <1>3 DEF HoldsDevice, WritesNoDevice
<1>5. DeviceOK(p, rows, tx'[p], tx'[p], pc'[p], req[p], reply'[p])
  BY <1>1, <1>3, <1>4 DEF DeviceOK, PushWork, Working
<1> QED
  BY <1>1, <1>5, DeviceSilent

LEMMA DevicesFlush ==
  ASSUME TypeInv, DevicesInv, NEW p \in Handlers, Alone(p), FlushShape(p)
  PROVE  DevicesInv'
<1>1. /\ pc[p] \in PushWork /\ OpensBatch(p, todo[p]) /\ Silent /\ req'[p] = req[p]
      /\ tx'[p].pend = tx[p].pend /\ tx'[p].held = tx[p].held
      /\ \A d \in Devices : tx'[p].ws[d] = tx[p].ws[d]
  BY DEF FlushShape, PushWork
<1> QED
  BY <1>1, DevicesOpens

LEMMA DevicesRejectBatch ==
  ASSUME TypeInv, DevicesInv, NEW p \in Handlers, Alone(p), RejectBatchShape(p)
  PROVE  DevicesInv'
<1>1. /\ pc[p] \in PushWork /\ OpensBatch(p, AfterBatch(todo[p], batch[p].id)) /\ Silent /\ req'[p] = req[p]
      /\ tx'[p].pend = tx[p].pend /\ tx'[p].ws = tx[p].ws
      /\ \A d \in Devices : d \in tx'[p].held <=> d \in tx[p].held
  BY DEF RejectBatchShape, PushWork, OnlyLocks
<1> QED
  BY <1>1, DevicesOpens

\* What a commit makes of the device rows and of the log.
LEMMA CommitFacts ==
  ASSUME TypeInv, DevicesInv, NEW p \in Handlers, CommitShape(p)
  PROVE  /\ \A d \in Devices : d # req[p].device => rows'[d] = rows[d]
         /\ req[p] \in Request /\ req[p].device \in tx[p].held
         /\ OwnedBy(rows[req[p].device], User(p)) /\ ~rows[req[p].device].revoked
         /\ OwnedBy(rows'[req[p].device], User(p)) /\ ~rows'[req[p].device].revoked
         /\ req[p].kind = "push" => rows'[req[p].device] = rows[req[p].device]
         /\ req[p].kind = "pull" =>
              /\ rows'[req[p].device] = tx[p].ws[req[p].device] /\ MovedCursor(rows, tx[p], req[p], reply[p])
              /\ tx[p].pend = {}
         /\ changes' = changes \cup tx[p].pend
         /\ \A x \in tx[p].pend : x.by = p /\ x.device = req[p].device /\ x.owner = User(p)
<1> DEFINE d == req[p].device
<1>1. pc[p] = "commit" /\ rows' = [k \in Keys |-> Visible(p, k)] /\ changes' = changes \cup tx[p].pend
  BY DEF CommitShape
<1>2. DeviceOK(p, rows, tx[p], save[p], pc[p], req[p], reply[p]) /\ req[p] \in Request
  BY <1>1, DeviceHandler
<1>3. /\ HoldsDevice(tx[p], req[p]) /\ OwnedBy(rows[d], User(p)) /\ ~rows[d].revoked
      /\ req[p].kind = "pull" => MovedCursor(rows, tx[p], req[p], reply[p])
      /\ req[p].kind = "pull" => tx[p].pend = {}
      /\ req[p].kind = "push" => WritesNoDevice(tx[p])
      /\ \A x \in tx[p].pend : x.by = p /\ x.device = req[p].device /\ x.owner = User(p)
  BY <1>1, <1>2 DEF DeviceOK, Working, User
<1>4. \A e \in Devices : e \in Keys /\ rows'[e] = IF tx[p].ws[e] # Absent THEN tx[p].ws[e] ELSE rows[e]
  BY <1>1 DEF Visible, Keys
<1>5. d \in Devices /\ req[p].kind \in {"push", "pull"}
  BY <1>2 DEF Request
<1>6. \A e \in Devices : e # d => tx[p].ws[e] = Absent
  BY <1>3, <1>5 DEF MovedCursor, WritesNoDevice
<1>7. req[p].kind = "push" => tx[p].ws[d] = Absent
  BY <1>3, <1>5 DEF WritesNoDevice
<1>8. req[p].kind = "pull" => OwnedBy(tx[p].ws[d], User(p)) /\ ~tx[p].ws[d].revoked /\ tx[p].ws[d] # Absent
  BY <1>3 DEF MovedCursor, OwnedBy, User
<1> QED
  BY <1>1, <1>2, <1>3, <1>4, <1>5, <1>6, <1>7, <1>8 DEF HoldsDevice

LEMMA DevicesCommit ==
  ASSUME TypeInv, DevicesInv, NEW p \in Handlers, Alone(p), CommitShape(p)
  PROVE  DevicesInv'
<1> DEFINE d == req[p].device
<1>1. /\ \A e \in Devices : e # d => rows'[e] = rows[e]
      /\ req[p] \in Request /\ d \in tx[p].held
      /\ OwnedBy(rows[d], User(p)) /\ OwnedBy(rows'[d], User(p))
      /\ changes' = changes \cup tx[p].pend
      /\ \A x \in tx[p].pend : x.by = p /\ x.device = d /\ x.owner = User(p)
  BY CommitFacts
<1>2. d \in Devices /\ req[p].kind \in {"push", "pull"}
  BY <1>1 DEF Request
<1>3. /\ pc[p] = "commit" /\ tx'[p] = EmptyTx /\ req'[p] = req[p] /\ reply'[p] = reply[p]
      /\ pc'[p] = IF req[p].kind = "push" THEN "publish" ELSE "respond"
  BY DEF CommitShape, SameRequest
<1>4. ASSUME NEW e \in Devices, rows'[e] # Absent PROVE rows'[e].owner = Owner[e]
  BY <1>1, <1>4 DEF DevicesInv, DeviceRowsOK, OwnedBy
<1>5. ASSUME NEW x \in changes' PROVE OwnedBy(rows'[x.device], x.owner)
  <2>1. x.device \in Devices
    BY <1>1, <1>5, ChainTypes DEF Change
  <2>2. CASE x \in changes
    BY <1>1, <2>1, <2>2 DEF DevicesInv, DeviceRowsOK, OwnedBy
  <2>3. CASE x \in tx[p].pend
    BY <1>1, <2>3
  <2> QED
    BY <1>1, <2>2, <2>3
<1>6. IsFiniteSet(changes')
  BY <1>1, DeviceHandler, FS_Union DEF DevicesInv, DeviceRowsOK, DeviceOK
<1>7. DeviceRowsOK'
  BY <1>4, <1>5, <1>6 DEF DeviceRowsOK
<1>8. req[p].kind = "pull" => reply[p].accepted = {}
  BY <1>3, DeviceHandler DEF DeviceOK
<1>9. DeviceOK(p, rows', tx'[p], save'[p], pc'[p], req'[p], reply'[p])
  BY <1>2, <1>3, <1>8, EmptyTxFacts, FS_EmptySet DEF DeviceOK, Working, PushWork
<1>10. \A q \in Handlers \ {p} : \A e \in Devices : e \in tx[q].held => rows'[e] = rows[e]
  BY <1>1 DEF DevicesInv, DevicesExclusive
<1> QED
  BY <1>3, <1>7, <1>9, <1>10, EmptyTxFacts, DeviceFrame

LEMMA DevicesAnswer ==
  ASSUME TypeInv, DevicesInv, NEW p \in Handlers, Alone(p),
         PublishShape(p) \/ RespondShape(p) \/ UnknownShape(p)
  PROVE  DevicesInv'
<1>1. /\ pc[p] \in {"publish", "respond"} /\ pc'[p] \in {"done", "failed"} /\ tx'[p] = tx[p] /\ req'[p] = req[p]
      /\ reply'[p] = reply[p] /\ rows' = rows /\ changes' = changes
  BY DEF PublishShape, RespondShape, UnknownShape, SameRequest, Silent
<1>2. tx[p] = EmptyTx /\ (req[p].kind = "pull" => reply[p].accepted = {})
  BY <1>1, DeviceHandler DEF DeviceOK, Working
<1>3. DeviceOK(p, rows, tx'[p], save'[p], pc'[p], req'[p], reply'[p])
  BY <1>1, <1>2, EmptyTxFacts, FS_EmptySet DEF DeviceOK, Working, PushWork
<1>4. DeviceRowsOK'
  BY <1>1 DEF DevicesInv, DeviceRowsOK
<1> QED
  BY <1>1, <1>3, <1>4, DeviceFrame

\* ORDER BY ... LIMIT leaves nothing out below a row it returns.
LEMMA FirstBySequenceBelow ==
  ASSUME NEW S, S \subseteq Change, IsFiniteSet(S), NEW k \in Nat,
         NEW y \in FirstBySequence(S, k), NEW x \in S, x.seq <= y.seq
  PROVE  x \in FirstBySequence(S, k)
<1> DEFINE A == {e \in S : e.seq < x.seq}
           B == {e \in S : e.seq < y.seq}
<1>1. y \in S /\ Cardinality(B) < k
  BY DEF FirstBySequence
<1>2. A \subseteq B
  <2>1. \A e \in S : e.seq \in Nat
    BY DEF Change
  <2> QED
    BY <1>1, <2>1
<1>3. IsFiniteSet(B) /\ IsFiniteSet(A)
  BY FS_Subset
<1>4. Cardinality(A) <= Cardinality(B) /\ Cardinality(A) \in Nat /\ Cardinality(B) \in Nat
  BY <1>2, <1>3, FS_Subset, FS_CardinalityType
<1>5. Cardinality(A) < k
  BY <1>1, <1>4
<1> QED
  BY <1>5 DEF FirstBySequence

\* nextCursor is the highest sequence of the page, or where it started from.
LEMMA NextCursorIs ==
  ASSUME NEW start \in Nat, NEW s \in Nat, NEW page, page \subseteq Change, \A c \in page : c.seq <= s
  PROVE  NextCursor(start, page) = start \/ \E y \in page : y.seq = NextCursor(start, page)
<1> DEFINE S == {start} \cup {c.seq : c \in page}
<1>1. S \subseteq Nat /\ S # {} /\ (\A e \in S : e <= start + s) /\ start + s \in Nat
  BY DEF Change
<1>2. \A e \in S : e = start \/ \E y \in page : y.seq = e
  OBVIOUS
<1> HIDE DEF S
<1>3. Max(S) \in S
  BY <1>1, MaxOfBounded
<1> QED
  BY <1>2, <1>3 DEF NextCursor, S

LEMMA AdvancedCursorIs ==
  ASSUME NEW old \in Nat, NEW new \in Nat
  PROVE  /\ AdvancedCursor(old, new) \in {old, new}
         /\ old <= AdvancedCursor(old, new) /\ new <= AdvancedCursor(old, new)
<1>1. /\ {old, new} \subseteq Nat /\ {old, new} # {} /\ \A e \in {old, new} : e <= old + new
      /\ old + new \in Nat
  OBVIOUS
<1>2. Max({old, new}) \in {old, new} /\ \A e \in {old, new} : e <= Max({old, new})
  BY <1>1, MaxOfBounded
<1> QED
  BY <1>2 DEF AdvancedCursor

\* What a pull reads and writes.
LEMMA PageFacts ==
  ASSUME TypeInv, DevicesInv, NEW p \in Handlers, PageShape(p)
  PROVE  /\ pc[p] = "page" /\ pc'[p] = "commit" /\ req'[p] = req[p] /\ req[p] \in Request
         /\ req[p].kind = "pull" /\ reply[p] = NoReply /\ seq' = seq /\ Silent /\ seq \in Nat
         /\ OwnedBy(rows[req[p].device], User(p)) /\ rows[req[p].device] \in DeviceRow
         /\ reply'[p] \in Reply /\ reply'[p].accepted = {} /\ req[p].cursor <= reply'[p].next
         /\ reply'[p].next = req[p].cursor \/ \E y \in reply'[p].page : y.seq = reply'[p].next
         /\ \A x \in reply'[p].page :
              /\ x \in changes /\ x.seq > req[p].cursor /\ x.seq <= reply'[p].next /\ x.seq <= seq
              /\ x.owner = User(p) /\ x.device # req[p].device
         /\ \A x \in changes : x.owner = User(p) /\ x.device # req[p].device
              /\ x.seq > req[p].cursor /\ x.seq <= reply'[p].next => x \in reply'[p].page
         /\ \A q \in Handlers : \A x \in tx[q].pend : x.seq \in reply'[p].raced
         /\ tx'[p].pend = {} /\ HoldsDevice(tx'[p], req[p]) /\ MovedCursor(rows, tx'[p], req[p], reply'[p])
<1> DEFINE d == req[p].device
           S == RemoteChanges(p, User(p), d, req[p].cursor)
           page == FirstBySequence(S, PullLimit)
           next == NextCursor(req[p].cursor, page)
           raced == {c.seq : c \in UNION {tx[q].pend : q \in Handlers}}
           row == [rows[d] EXCEPT !.cursor = AdvancedCursor(@, next)]
<1>1. /\ pc[p] = "page" /\ pc'[p] = "commit" /\ req'[p] = req[p] /\ seq' = seq /\ Silent
      /\ tx'[p] = Write(tx[p], d, row)
      /\ reply'[p] = [reply[p] EXCEPT !.page = page, !.next = next, !.raced = raced]
  BY DEF PageShape
<1>2. /\ req[p] \in Request /\ tx[p] \in TxState
      /\ DeviceOK(p, rows, tx[p], save[p], pc[p], req[p], reply[p])
  BY <1>1, DeviceHandler
<1>3. /\ req[p].kind = "pull" /\ reply[p] = NoReply /\ tx[p].pend = {} /\ HoldsDevice(tx[p], req[p])
      /\ WritesNoDevice(tx[p]) /\ OwnedBy(rows[d], User(p)) /\ ~rows[d].revoked
  BY <1>1, <1>2 DEF DeviceOK, Working, User
<1>4. /\ d \in Devices /\ d \in Keys /\ req[p].cursor \in Nat /\ User(p) \in Users
      /\ PullLimit \in Nat /\ seq \in Nat /\ changes \subseteq Change /\ \A x \in changes : x.seq <= seq
  BY <1>2, LimitsAssumption DEF Request, User, Keys, TypeInv, StoreInv
<1>5. rows[d] \in DeviceRow
  BY <1>3, <1>4 DEF TypeInv, StoreInv, TypedRow, OwnedBy
<1>6. S = {x \in changes : x.owner = User(p) /\ x.seq > req[p].cursor /\ x.device # d}
  BY <1>3 DEF RemoteChanges, VisibleChanges
<1>7. S \subseteq Change /\ IsFiniteSet(S) /\ \A x \in S : x.seq <= seq
  BY <1>4, <1>6, FS_Subset DEF DevicesInv, DeviceRowsOK
<1> HIDE DEF S
<1>8. page \subseteq S /\ \A y \in page : \A x \in S : x.seq <= y.seq => x \in page
  BY <1>4, <1>7, FirstBySequenceBelow DEF FirstBySequence
<1> HIDE DEF page
<1>9. page \subseteq Change /\ \A x \in page : x.seq <= seq
  BY <1>7, <1>8
<1>10. /\ next \in Nat /\ req[p].cursor <= next /\ \A x \in page : x.seq <= next
       /\ next = req[p].cursor \/ \E y \in page : y.seq = next
  BY <1>4, <1>9, NextCursorTyped, NextCursorIs
<1> HIDE DEF next
<1>11. raced \subseteq Nat /\ \A q \in Handlers : \A x \in tx[q].pend : x.seq \in raced
  <2>1. \A q \in Handlers : \A c \in tx[q].pend : c.seq \in Nat
    BY DEF TypeInv, HandlerInv, HandlerOK, TypedTx, TxState, Change
  <2> QED
    BY <2>1
<1> HIDE DEF raced
<1>12. /\ reply'[p] \in Reply /\ reply'[p].accepted = {} /\ reply'[p].page = page /\ reply'[p].next = next
       /\ reply'[p].raced = raced
  <2>1. reply[p] \in Reply /\ reply[p].accepted = {}
    BY <1>3, DeviceHandler DEF NoReply
  <2> QED
    BY <1>1, <1>9, <1>10, <1>11, <2>1 DEF Reply
<1>13. ASSUME NEW x \in S, x.seq <= next PROVE x \in page
  <2>1. x.seq > req[p].cursor /\ x.seq \in Nat
    BY <1>6, <1>7 DEF Change
  <2>2. PICK y \in page : y.seq = next
    BY <1>4, <1>10, <1>13, <2>1
  <2> QED
    BY <1>8, <1>13, <2>2
<1>14. rows[d].cursor \in Nat
  BY <1>5 DEF DeviceRow
<1>15. /\ row \in DeviceRow /\ row.owner = rows[d].owner /\ row.revoked = rows[d].revoked
       /\ row.cursor \in {rows[d].cursor, next} /\ rows[d].cursor <= row.cursor /\ next <= row.cursor
  BY <1>5, <1>10, <1>14, AdvancedCursorIs DEF DeviceRow
<1>16. row # Absent
  BY <1>15, AbsentAssumption DEF Row
<1> HIDE DEF row
<1>17. /\ tx'[p].pend = {} /\ tx'[p].held = tx[p].held \cup {d} /\ tx'[p].ws[d] = row
       /\ \A e \in Devices : e # d => tx'[p].ws[e] = Absent
  BY <1>1, <1>2, <1>3, <1>4 DEF Write, TxState, WritesNoDevice
<1>18. HoldsDevice(tx'[p], req[p])
  BY <1>3, <1>17 DEF HoldsDevice
<1>19. MovedCursor(rows, tx'[p], req[p], reply'[p])
  BY <1>3, <1>12, <1>15, <1>16, <1>17 DEF MovedCursor, OwnedBy, User
<1>20. \A x \in page : x \in changes /\ x.seq > req[p].cursor /\ x.owner = User(p) /\ x.device # d
  BY <1>6, <1>8
<1>21. \A x \in changes : x.owner = User(p) /\ x.device # d /\ x.seq > req[p].cursor /\ x.seq <= next
         => x \in page
  BY <1>6, <1>13
<1> HIDE DEF d
<1> QED
  BY <1>1, <1>2, <1>3, <1>4, <1>5, <1>9, <1>10, <1>11, <1>12, <1>17, <1>18, <1>19, <1>20, <1>21 DEF d

LEMMA DevicesPage ==
  ASSUME TypeInv, DevicesInv, NEW p \in Handlers, Alone(p), PageShape(p)
  PROVE  DevicesInv'
<1>1. /\ pc'[p] = "commit" /\ req'[p] = req[p] /\ req[p] \in Request /\ req[p].kind = "pull" /\ Silent
      /\ tx'[p].pend = {} /\ HoldsDevice(tx'[p], req[p]) /\ MovedCursor(rows, tx'[p], req[p], reply'[p])
      /\ reply'[p].accepted = {} /\ pc[p] = "page"
  BY PageFacts
<1>2. HoldsDevice(tx[p], req[p]) /\ OwnedBy(rows[req[p].device], req[p].user) /\ ~rows[req[p].device].revoked
  BY <1>1, DeviceHandler DEF DeviceOK, Working
<1>3. DeviceOK(p, rows, tx'[p], save'[p], pc'[p], req'[p], reply'[p])
  BY <1>1, <1>2, FS_EmptySet DEF DeviceOK, Working, PushWork
<1>4. \A d \in Devices : d \in tx'[p].held => d \in tx[p].held
  BY <1>1, <1>2 DEF HoldsDevice
<1> QED
  BY <1>1, <1>3, <1>4, DeviceSilent

LEMMA DevicesDevice ==
  ASSUME TypeInv, DevicesInv, NEW d \in Devices, DeviceShape(d)
  PROVE  DevicesInv'
<1>1. /\ UNCHANGED <<changes, seq, tx, save, pc, req, reply>> /\ rows \in [Keys -> Row \cup {Absent}] /\ d \in Keys
  BY ShapeTypes DEF DeviceShape, Keys
<1>2. \A e \in Keys : e # d => rows'[e] = rows[e]
  BY <1>1 DEF DeviceShape
<1>3. /\ rows'[d] # Absent => rows'[d].owner = Owner[d]
      /\ \A u : OwnedBy(rows[d], u) => OwnedBy(rows'[d], u)
  <2>1. CASE /\ rows[d] = Absent
             /\ rows' = [rows EXCEPT ![d] = [owner |-> Owner[d], revoked |-> FALSE, cursor |-> 0]]
    BY <1>1, <2>1 DEF OwnedBy
  <2>2. CASE /\ rows[d] # Absent /\ rows' = [rows EXCEPT ![d] = [rows[d] EXCEPT !.revoked = TRUE]]
    <3> DEFINE row == [rows[d] EXCEPT !.revoked = TRUE]
    <3>1. rows[d] \in DeviceRow /\ rows'[d] = row
      BY <1>1, <2>2 DEF TypeInv, StoreInv, TypedRow
    <3>2. row \in DeviceRow /\ row.owner = rows[d].owner
      BY <3>1 DEF DeviceRow
    <3>3. row # Absent
      BY <3>2, AbsentAssumption DEF Row
    <3> HIDE DEF row
    <3> QED
      BY <2>2, <3>1, <3>2, <3>3 DEF OwnedBy, DevicesInv, DeviceRowsOK
  <2> QED
    BY <2>1, <2>2 DEF DeviceShape
<1>4. DeviceRowsOK'
  <2>1. \A x \in changes : x.device \in Devices
    BY DEF TypeInv, StoreInv, Change
  <2>2. \A e \in Devices : e \in Keys
    BY DEF Keys
  <2> QED
    BY <1>1, <1>2, <1>3, <2>1, <2>2 DEF DevicesInv, DeviceRowsOK
<1>5. ASSUME NEW q \in Handlers PROVE DevicesOK(q)'
  <2>1. /\ pc[q] # "idle" => req[q] \in Request
        /\ DeviceOK(q, rows, tx[q], save[q], pc[q], req[q], reply[q]) /\ \A e \in Devices : e \in Keys
    BY DeviceHandler
  <2>2. tx[q].held # {} => pc[q] \in Working
    BY <2>1, EmptyTxFacts DEF DeviceOK
  <2>3. d \in tx[q].held => rows'[d] = rows[d]
    <3>1. SUFFICES ASSUME d \in tx[q].held PROVE FALSE
      OBVIOUS
    <3>2. rows[d] # Absent
      BY <2>1, <2>2, <3>1 DEF DeviceOK, HoldsDevice, OwnedBy
    <3> QED
      BY <3>1, <3>2 DEF DeviceShape
  <2>4. DeviceOK(q, rows', tx[q], save[q], pc[q], req[q], reply[q])
    BY <1>2, <2>1, <2>3, DeviceStays
  <2> QED
    BY <1>1, <2>4 DEF DevicesOK
<1>6. DevicesExclusive'
  BY <1>1 DEF DevicesInv, DevicesExclusive
<1> QED
  BY <1>4, <1>5, <1>6 DEF DevicesInv

\* Every step keeps the device rows exclusive.
LEMMA DevicesStep ==
  ASSUME TypeInv, DevicesInv, StepShape
  PROVE  DevicesInv'
<1>1. ASSUME NEW p \in Handlers, Alone(p), BatchShape(p) PROVE DevicesInv'
  BY <1>1, DevicesLock, DevicesRetry, DevicesQuiet, DevicesAccept, DevicesReject, DevicesFlush,
     DevicesRejectBatch, DevicesFail DEF BatchShape, OperationShape
<1>2. ASSUME NEW p \in Handlers, Alone(p), RequestShape(p) PROVE DevicesInv'
  BY <1>2, DevicesReceive, DevicesCommit, DevicesAnswer, DevicesPage DEF RequestShape
<1>3. ASSUME NEW d \in Devices, DeviceShape(d) PROVE DevicesInv'
  BY <1>3, DevicesDevice
<1>4. CASE Still
  BY <1>4 DEF Still, DevicesInv, DevicesExclusive, DeviceRowsOK, DevicesOK
<1> QED
  BY <1>1, <1>2, <1>3, <1>4 DEF StepShape

-----------------------------------------------------------------------------
(* Operation ids.                                                          *)

\* Every change row there is, committed or not.
Logs == changes \cup UNION {tx[p].pend : p \in Handlers}

\* No two change rows have a sequence, or a device and an operation id, in common.
DistinctLogs ==
  \A x, y \in Logs : x = y \/ (x.seq # y.seq /\ (x.device # y.device \/ x.op.id # y.op.id))

\* No row of C is operation id of the device of request r.
Fresh(C, r, id) == ~\E c \in C : c.device = r.device /\ c.op.id = id

\* A handler with program counter c, request r, operations td and failure f
\* applies an operation that is neither committed nor logged by itself.
IdOK(C, t, c, r, td, f) ==
  /\ c \in {"apply", "lookup"} => Fresh(C \cup t.pend, r, Head(td).id)
  /\ c = "rejected" => Fresh(C, r, f.id)

IdsOK(p) == IdOK(changes, tx[p], pc[p], req[p], todo[p], failure[p])

IdsInv == DistinctLogs /\ (\A x \in Logs : x.seq > 0) /\ \A p \in Handlers : IdsOK(p)

\* Only an accepted operation adds a change row.
LEMMA LogShapes ==
  ASSUME TypeInv, DevicesInv, NEW p \in Handlers, BatchShape(p) \/ RequestShape(p)
  PROVE  \/ AcceptShape(p)
         \/ tx'[p].pend \subseteq tx[p].pend /\ changes' \subseteq changes \cup tx[p].pend /\ seq' = seq
<1>1. CASE LockShape(p)
  <2>1. tx'[p].pend = tx[p].pend
    BY <1>1, DeviceHandler DEF LockShape, Lock, TxState
  <2> QED
    BY <1>1, <2>1 DEF LockShape, Silent
<1>2. CASE OperationShape(p)
  <2>1. CASE RetryShape(p) \/ QuietShape(p)
    BY <2>1 DEF RetryShape, OnlyLocks, QuietShape, Silent
  <2>2. CASE RejectShape(p)
    <3>1. save[p].pend \subseteq tx[p].pend
      BY <2>2, DeviceHandler DEF RejectShape, DeviceOK, PushWork
    <3> QED
      BY <2>2, <3>1 DEF RejectShape, Silent
  <2> QED
    BY <1>2, <2>1, <2>2 DEF OperationShape
<1>3. CASE FlushShape(p) \/ RejectBatchShape(p)
  BY <1>3 DEF FlushShape, RejectBatchShape, OnlyLocks, Silent
<1>4. CASE FailShape(p)
  BY <1>4, EmptyTxFacts DEF FailShape, Silent
<1>5. CASE ReceiveShape(p) \/ PublishShape(p) \/ RespondShape(p) \/ UnknownShape(p)
  BY <1>5 DEF ReceiveShape, PublishShape, RespondShape, UnknownShape, Silent
<1>6. CASE CommitShape(p)
  BY <1>6, EmptyTxFacts DEF CommitShape
<1>7. CASE PageShape(p)
  BY <1>7, PageFacts DEF Silent
<1> QED
  BY <1>1, <1>2, <1>3, <1>4, <1>5, <1>6, <1>7 DEF BatchShape, RequestShape

\* Where a handler is when it has logged something, and what it holds.
LEMMA LoggedHolds ==
  ASSUME TypeInv, DevicesInv, NEW q \in Handlers, NEW x \in tx[q].pend
  PROVE  /\ pc[q] \in Working /\ req[q] \in Request /\ x.device = req[q].device /\ x.owner = User(q)
         /\ x.by = q /\ x.device \in Devices /\ x.device \in tx[q].held /\ req[q].kind = "push"
<1>1. DeviceOK(q, rows, tx[q], save[q], pc[q], req[q], reply[q]) /\ (pc[q] # "idle" => req[q] \in Request)
  BY DeviceHandler
<1>2. pc[q] \in Working
  BY <1>1, EmptyTxFacts DEF DeviceOK
<1>3. pc[q] # "idle" /\ req[q] \in Request /\ HoldsDevice(tx[q], req[q])
  BY <1>1, <1>2 DEF Working, DeviceOK
<1>4. req[q].device \in Devices /\ req[q].kind \in {"push", "pull"}
  BY <1>3 DEF Request
<1>5. x.device = req[q].device /\ x.owner = User(q) /\ x.by = q /\ (req[q].kind = "pull" => tx[q].pend = {})
  BY <1>1, <1>3 DEF DeviceOK, User
<1> QED
  BY <1>2, <1>3, <1>4, <1>5 DEF HoldsDevice

\* What a handler logs and commits is of another device than what another applies.
LEMMA IdsOthers ==
  ASSUME TypeInv, DevicesInv, IdsInv, NEW p \in Handlers, Alone(p), changes' \subseteq changes \cup tx[p].pend,
         NEW q \in Handlers \ {p}
  PROVE  IdsOK(q)'
<1>1. IdOK(changes, tx[q], pc[q], req[q], todo[q], failure[q])
  BY DEF IdsInv, IdsOK
<1>2. ASSUME pc[q] \in {"apply", "lookup", "rejected"}, NEW c \in tx[p].pend PROVE c.device # req[q].device
  <2>1. c.device \in Devices /\ c.device \in tx[p].held
    BY <1>2, LoggedHolds
  <2>2. HoldsDevice(tx[q], req[q])
    BY <1>2, DeviceHandler DEF DeviceOK, Working
  <2> QED
    BY <2>1, <2>2 DEF HoldsDevice, DevicesInv, DevicesExclusive
<1>3. IdOK(changes', tx[q], pc[q], req[q], todo[q], failure[q])
  BY <1>1, <1>2 DEF IdOK, Fresh
<1> QED
  BY <1>3 DEF Alone, IdsOK

LEMMA IdsAccept ==
  ASSUME TypeInv, DevicesInv, IdsInv, NEW p \in Handlers, Alone(p), AcceptShape(p)
  PROVE  IdsInv'
<1>1. PICK x \in Change :
           /\ pc[p] = "apply" /\ pc'[p] \in {"find", "flush"} /\ Silent
           /\ tx'[p].pend = tx[p].pend \cup {x} /\ x.seq = seq + 1 /\ x.device = req[p].device
           /\ x.op = Op(p)
  BY AcceptFacts
<1>2. Logs' \subseteq Logs \cup {x}
  <2>1. ASSUME NEW y \in Logs' PROVE y \in Logs \cup {x}
    <3>1. CASE y \in changes'
      BY <1>1, <3>1 DEF Silent, Logs
    <3>2. ASSUME NEW q \in Handlers, y \in tx'[q].pend PROVE y \in Logs \cup {x}
      <4>1. y \in tx[q].pend \cup {x}
        BY <1>1, <3>2 DEF Alone
      <4> QED
        BY <4>1 DEF Logs
    <3> QED
      BY <2>1, <3>1, <3>2 DEF Logs
  <2> QED
    BY <2>1
<1>3. \A y \in Logs : y.seq \in Nat /\ y.seq <= seq /\ seq \in Nat
  BY ChainTypes DEF Logs
<1>4. \A y \in Logs : x.seq # y.seq
  BY <1>1, <1>3
<1>5. ASSUME NEW y \in Logs, x.device = y.device PROVE x.op.id # y.op.id
  <2>1. CASE y \in changes \cup tx[p].pend
    BY <1>1, <1>5, <2>1 DEF IdsInv, IdsOK, IdOK, Fresh, Op
  <2>2. ASSUME NEW q \in Handlers \ {p}, y \in tx[q].pend PROVE FALSE
    <3>1. y.device \in Devices /\ y.device \in tx[q].held
      BY <2>2, LoggedHolds
    <3>2. HoldsDevice(tx[p], req[p])
      BY <1>1, DeviceHandler DEF DeviceOK, Working
    <3> QED
      BY <1>1, <1>5, <3>1, <3>2 DEF HoldsDevice, DevicesInv, DevicesExclusive
  <2> QED
    BY <1>5, <2>1, <2>2 DEF Logs
<1>6. DistinctLogs'
  <2>1. ASSUME NEW y \in Logs', NEW z \in Logs'
        PROVE  y = z \/ (y.seq # z.seq /\ (y.device # z.device \/ y.op.id # z.op.id))
    <3>1. CASE y \in Logs /\ z \in Logs
      BY <3>1 DEF IdsInv, DistinctLogs
    <3>2. CASE y = x /\ z \in Logs
      BY <1>4, <1>5, <3>2
    <3>3. CASE y \in Logs /\ z = x
      BY <1>4, <1>5, <3>3
    <3> QED
      BY <1>2, <3>1, <3>2, <3>3
  <2> QED
    BY <2>1 DEF DistinctLogs
<1>7. \A y \in Logs' : y.seq > 0
  <2>1. x.seq > 0
    BY <1>1 DEF TypeInv, StoreInv
  <2> QED
    BY <1>2, <2>1 DEF IdsInv
<1>8. IdsOK(p)'
  BY <1>1 DEF IdsOK, IdOK
<1>9. changes' \subseteq changes \cup tx[p].pend
  BY <1>1 DEF Silent
<1> QED
  BY <1>6, <1>7, <1>8, <1>9, IdsOthers DEF IdsInv

\* Where nothing is added, nothing becomes equal.
LEMMA LogsShrink ==
  ASSUME IdsInv, Logs' \subseteq Logs
  PROVE  DistinctLogs' /\ \A x \in Logs' : x.seq > 0
<1>1. ASSUME NEW y \in Logs', NEW z \in Logs'
      PROVE  y = z \/ (y.seq # z.seq /\ (y.device # z.device \/ y.op.id # z.op.id))
  BY DEF IdsInv, DistinctLogs
<1> QED
  BY <1>1 DEF IdsInv, DistinctLogs

\* The handler that takes any other step.
LEMMA IdsOwn ==
  ASSUME TypeInv, DevicesInv, IdsInv, NEW p \in Handlers, BatchShape(p) \/ RequestShape(p), ~AcceptShape(p)
  PROVE  IdsOK(p)'
<1>1. CASE QuietShape(p)
  <2>1. tx'[p] = tx[p] /\ todo'[p] = todo[p] /\ req'[p] = req[p] /\ changes' = changes
        /\ pc'[p] \in {"apply", "lookup"}
    BY <1>1 DEF QuietShape, SameBatch, SameRequest, Silent
  <2>2. Fresh(changes \cup tx[p].pend, req[p], Op(p).id)
    BY <1>1 DEF QuietShape, Processed, VisibleChanges, Fresh, IdsInv, IdsOK, IdOK, Op
  <2> QED
    BY <2>1, <2>2 DEF IdsOK, IdOK, Op
<1>2. CASE RejectShape(p)
  <2>1. /\ pc[p] \in {"apply", "lookup"} /\ pc'[p] = "rejected" /\ failure'[p].id = Op(p).id
        /\ req'[p] = req[p] /\ changes' = changes
    BY <1>2 DEF RejectShape, SameRequest, Silent
  <2>2. Fresh(changes, req[p], Op(p).id)
    BY <2>1 DEF Fresh, IdsInv, IdsOK, IdOK, Op
  <2> QED
    BY <2>1, <2>2 DEF IdsOK, IdOK
<1>3. CASE ~QuietShape(p) /\ ~RejectShape(p)
  <2>1. pc'[p] \notin {"apply", "lookup", "rejected"}
    BY <1>3 DEF BatchShape, RequestShape, OperationShape, LockShape, RetryShape, FlushShape, RejectBatchShape,
                FailShape, ReceiveShape, CommitShape, PublishShape, PageShape, RespondShape, UnknownShape, Advances, OpensBatch
  <2> QED
    BY <2>1 DEF IdsOK, IdOK
<1> QED
  BY <1>1, <1>2, <1>3

LEMMA IdsStep ==
  ASSUME TypeInv, DevicesInv, IdsInv, StepShape
  PROVE  IdsInv'
<1>1. ASSUME NEW p \in Handlers, Alone(p), BatchShape(p) \/ RequestShape(p), ~AcceptShape(p) PROVE IdsInv'
  <2>1. tx'[p].pend \subseteq tx[p].pend /\ changes' \subseteq changes \cup tx[p].pend
    BY <1>1, LogShapes
  <2>2. ASSUME NEW y \in Logs' PROVE y \in Logs
    <3>1. CASE y \in changes'
      BY <2>1, <3>1 DEF Logs
    <3>2. ASSUME NEW q \in Handlers, y \in tx'[q].pend PROVE y \in Logs
      <4>1. y \in tx[q].pend
        BY <1>1, <2>1, <3>2 DEF Alone
      <4> QED
        BY <4>1 DEF Logs
    <3> QED
      BY <2>2, <3>1, <3>2 DEF Logs
  <2>3. DistinctLogs' /\ \A x \in Logs' : x.seq > 0
    BY <2>2, LogsShrink
  <2> QED
    BY <1>1, <2>1, <2>3, IdsOwn, IdsOthers DEF IdsInv
<1>2. CASE UNCHANGED <<changes, tx, pc, req, todo, failure>>
  BY <1>2 DEF IdsInv, DistinctLogs, Logs, IdsOK
<1>3. ASSUME NEW p \in Handlers, Alone(p), AcceptShape(p) PROVE IdsInv'
  BY <1>3, IdsAccept
<1> QED
  BY <1>1, <1>2, <1>3 DEF StepShape, DeviceShape, Still

-----------------------------------------------------------------------------
(* Hints.                                                                  *)

\* The sequence s is that of a change row of S, or no sequence at all.
SequenceIn(s, S) == s = 0 \/ \E x \in S : x.seq = s
AllIn(a, S) == \A e \in a.accepted : SequenceIn(e.seq, S)

\* The committed changes of a request's device.
CommittedBy(C, r) == {x \in C : x.owner = r.user /\ x.device = r.device}

\* The sequences a push answers with are those of change rows: below its
\* savepoint, in its transaction, and in the end committed.
HintOK(C, t, sv, c, r, b, a) ==
  /\ c \in PushWork => AllIn(a, sv.pend)
  /\ c = "commit" => AllIn(a, t.pend)
  /\ c = "publish" => AllIn(a, CommittedBy(C, r))
  /\ c \in InBatch => SequenceIn(b.cursor, t.pend)

HintsOK(p) == HintOK(changes, tx[p], save[p], pc[p], req[p], batch[p], reply[p])

HintsInv == HintsCommitted /\ \A p \in Handlers : HintsOK(p)

LEMMA AllInMonotonic ==
  ASSUME NEW a, NEW S, NEW T, S \subseteq T, AllIn(a, S)
  PROVE  AllIn(a, T)
  BY DEF AllIn, SequenceIn

\* Nothing that is committed is ever taken back.
LEMMA ChangesGrow ==
  ASSUME StepShape
  PROVE  changes \subseteq changes'
  BY DEF StepShape, BatchShape, RequestShape, OperationShape, LockShape, RetryShape, QuietShape, AcceptShape,
         RejectShape, FlushShape, RejectBatchShape, FailShape, ReceiveShape, CommitShape, PublishShape,
         PageShape, RespondShape, UnknownShape, DeviceShape, Silent, Still

LEMMA HintsWithinBatch ==
  ASSUME TypeInv, DevicesInv, HintsInv, NEW p \in Handlers, OperationShape(p)
  PROVE  HintsOK(p)' /\ hints' = hints
<1>1. HintOK(changes, tx[p], save[p], pc[p], req[p], batch[p], reply[p])
  BY DEF HintsInv, HintsOK
<1>2. CASE RetryShape(p)
  <2>1. /\ pc[p] = "find" /\ pc'[p] \in {"find", "flush"} /\ tx'[p].pend = tx[p].pend /\ save'[p] = save[p]
        /\ reply'[p] = reply[p] /\ batch'[p].cursor = batch[p].cursor /\ hints' = hints
    BY <1>2 DEF RetryShape, Advances, OnlyLocks, SameRequest, Silent
  <2> QED
    BY <1>1, <2>1 DEF HintOK, HintsOK, PushWork, InBatch
<1>3. CASE QuietShape(p)
  <2>1. /\ pc[p] \in {"find", "apply"} /\ pc'[p] \in {"apply", "lookup"} /\ tx'[p] = tx[p] /\ save'[p] = save[p]
        /\ reply'[p] = reply[p] /\ batch'[p] = batch[p] /\ hints' = hints
    BY <1>3 DEF QuietShape, SameBatch, SameRequest, Silent
  <2> QED
    BY <1>1, <2>1 DEF HintOK, HintsOK, PushWork, InBatch
<1>4. CASE AcceptShape(p)
  <2>1. PICK x \in Change :
           /\ pc[p] = "apply" /\ pc'[p] \in {"find", "flush"} /\ save'[p] = save[p] /\ reply'[p] = reply[p]
           /\ tx'[p].pend = tx[p].pend \cup {x} /\ batch'[p].cursor = x.seq /\ Silent
    BY <1>4, AcceptFacts
  <2> QED
    BY <1>1, <2>1 DEF HintOK, HintsOK, PushWork, InBatch, SequenceIn, Silent
<1>5. CASE RejectShape(p)
  <2>1. /\ pc[p] \in {"apply", "lookup"} /\ pc'[p] = "rejected" /\ save'[p] = save[p]
        /\ reply'[p] = reply[p] /\ hints' = hints
    BY <1>5 DEF RejectShape, SameBatch, SameRequest, Silent
  <2> QED
    BY <1>1, <2>1 DEF HintOK, HintsOK, PushWork, InBatch
<1> QED
  BY <1>2, <1>3, <1>4, <1>5 DEF OperationShape

\* The next batch starts with no sequence, under a savepoint with all the others.
LEMMA HintsOpens ==
  ASSUME NEW p \in Handlers, NEW ops, OpensBatch(p, ops), AllIn(reply'[p], tx'[p].pend)
  PROVE  HintsOK(p)'
<1>1. pc'[p] \in {"find", "commit"} /\ save'[p] = tx'[p] /\ batch'[p].cursor = 0
  BY DEF OpensBatch, NewBatch
<1> QED
  BY <1>1 DEF HintsOK, HintOK, PushWork, InBatch, SequenceIn

LEMMA HintsBetweenBatches ==
  ASSUME TypeInv, DevicesInv, HintsInv, NEW p \in Handlers, LockShape(p) \/ FlushShape(p) \/ RejectBatchShape(p)
  PROVE  HintsOK(p)' /\ hints' = hints
<1>1. HintOK(changes, tx[p], save[p], pc[p], req[p], batch[p], reply[p])
  BY DEF HintsInv, HintsOK
<1>2. DeviceOK(p, rows, tx[p], save[p], pc[p], req[p], reply[p]) /\ reply[p] \in Reply
  BY DeviceHandler
<1>3. CASE LockShape(p)
  <2>1. reply'[p] = NoReply /\ hints' = hints
    BY <1>2, <1>3 DEF LockShape, SameRequest, DeviceOK, Silent
  <2>2. AllIn(reply'[p], tx'[p].pend)
    BY <2>1 DEF AllIn, NoReply
  <2>3. CASE pc'[p] = "page"
    BY <2>1, <2>3 DEF HintsOK, HintOK, PushWork, InBatch
  <2> QED
    BY <1>3, <2>1, <2>2, <2>3, HintsOpens DEF LockShape
<1>4. CASE FlushShape(p)
  <2>1. PICK a \in Accepted : a.seq = batch[p].cursor /\ reply'[p] = [reply[p] EXCEPT !.accepted = @ \cup {a}]
    BY <1>4 DEF FlushShape
  <2>2. /\ pc[p] = "flush" /\ OpensBatch(p, todo[p]) /\ tx'[p].pend = tx[p].pend /\ hints' = hints
    BY <1>4 DEF FlushShape, Silent
  <2>3. AllIn(reply[p], tx[p].pend) /\ SequenceIn(a.seq, tx[p].pend)
    BY <1>1, <1>2, <2>1, <2>2, AllInMonotonic DEF HintOK, DeviceOK, PushWork, InBatch
  <2>4. reply'[p].accepted = reply[p].accepted \cup {a}
    BY <1>2, <2>1 DEF Reply
  <2>5. AllIn(reply'[p], tx'[p].pend)
    BY <2>2, <2>3, <2>4 DEF AllIn
  <2> QED
    BY <2>2, <2>5, HintsOpens
<1>5. CASE RejectBatchShape(p)
  <2>1. PICK r : reply'[p] = [reply[p] EXCEPT !.rejected = @ \cup {r}]
    BY <1>5 DEF RejectBatchShape
  <2>2. /\ pc[p] = "rejected" /\ OpensBatch(p, AfterBatch(todo[p], batch[p].id))
        /\ tx'[p].pend = tx[p].pend /\ hints' = hints
    BY <1>5 DEF RejectBatchShape, OnlyLocks, Silent
  <2>3. AllIn(reply[p], tx[p].pend)
    BY <1>1, <1>2, <2>2, AllInMonotonic DEF HintOK, DeviceOK, PushWork
  <2>4. reply'[p].accepted = reply[p].accepted
    BY <1>2, <2>1 DEF Reply
  <2>5. AllIn(reply'[p], tx'[p].pend)
    BY <2>2, <2>3, <2>4 DEF AllIn
  <2> QED
    BY <2>2, <2>5, HintsOpens
<1> QED
  BY <1>3, <1>4, <1>5

LEMMA HintsEnd ==
  ASSUME TypeInv, DevicesInv, HintsInv, NEW p \in Handlers, FailShape(p) \/ RequestShape(p), ~PublishShape(p)
  PROVE  HintsOK(p)' /\ hints' = hints
<1>1. CASE CommitShape(p)
  <2>1. /\ pc[p] = "commit" /\ reply'[p] = reply[p] /\ req'[p] = req[p] /\ hints' = hints
        /\ pc'[p] \in {"publish", "respond"}
    BY <1>1 DEF CommitShape, SameRequest
  <2>2. tx[p].pend \subseteq CommittedBy(changes', req[p])
    BY <1>1, CommitFacts DEF CommittedBy, User
  <2>3. AllIn(reply[p], tx[p].pend)
    BY <2>1 DEF HintsInv, HintsOK, HintOK
  <2>4. AllIn(reply[p], CommittedBy(changes', req[p]))
    BY <2>2, <2>3, AllInMonotonic
  <2> QED
    BY <2>1, <2>4 DEF HintsOK, HintOK, PushWork, InBatch
<1>2. CASE PageShape(p)
  <2>1. pc'[p] = "commit" /\ reply'[p].accepted = {} /\ hints' = hints
    BY <1>2, PageFacts DEF Silent
  <2> QED
    BY <2>1 DEF HintsOK, HintOK, PushWork, InBatch, AllIn
<1>3. CASE ~CommitShape(p) /\ ~PageShape(p)
  <2>1. pc'[p] \in {"lock", "failed", "done"} /\ hints' = hints
    BY <1>3 DEF FailShape, RequestShape, ReceiveShape, RespondShape, UnknownShape, Silent
  <2> QED
    BY <2>1 DEF HintsOK, HintOK, PushWork, InBatch
<1> QED
  BY <1>1, <1>2, <1>3

LEMMA HintsPublish ==
  ASSUME TypeInv, DevicesInv, HintsInv, NEW p \in Handlers, PublishShape(p)
  PROVE  HintsOK(p)' /\ HintsCommitted'
<1> DEFINE h == [user |-> User(p), device |-> req[p].device, cursor |-> CommittedCursor(p)]
<1>1. pc[p] = "publish" /\ pc'[p] = "done" /\ changes' = changes
  BY DEF PublishShape
<1>2. HintsOK(p)'
  BY <1>1 DEF HintsOK, HintOK, PushWork, InBatch
<1>3. AllIn(reply[p], CommittedBy(changes, req[p]))
  BY <1>1 DEF HintsInv, HintsOK, HintOK
<1>4. ASSUME CommittedCursor(p) > 0
      PROVE  \E c \in changes : c.seq = CommittedCursor(p) /\ c.owner = User(p) /\ c.device = req[p].device
  <2> DEFINE S == {0} \cup {a.seq : a \in reply[p].accepted}
  <2>1. seq \in Nat /\ \A a \in reply[p].accepted : a.seq \in Nat /\ a.seq <= seq
    BY DEF TypeInv, StoreInv, HandlerInv, HandlerOK, Reply, Accepted
  <2>2. S \subseteq Nat /\ S # {} /\ \A s \in S : s <= seq
    BY <2>1
  <2>3. \A s \in S : s = 0 \/ \E a \in reply[p].accepted : a.seq = s
    OBVIOUS
  <2> HIDE DEF S
  <2>4. Max(S) \in S
    BY <2>1, <2>2, MaxOfBounded
  <2>5. PICK a \in reply[p].accepted : a.seq = CommittedCursor(p)
    BY <1>4, <2>3, <2>4 DEF CommittedCursor, S
  <2>6. PICK c \in CommittedBy(changes, req[p]) : c.seq = a.seq
    BY <1>3, <1>4, <2>5 DEF AllIn, SequenceIn
  <2> QED
    BY <2>5, <2>6 DEF CommittedBy, User
<1>5. HintsCommitted'
  <2>1. ASSUME NEW g \in hints'
        PROVE  \E c \in changes : c.seq = g.cursor /\ c.owner = g.user /\ c.device = g.device
    <3>1. CASE g \in hints
      BY <3>1 DEF HintsInv, HintsCommitted
    <3>2. CASE CommittedCursor(p) > 0 /\ g = h
      BY <1>4, <3>2
    <3> QED
      BY <2>1, <3>1, <3>2 DEF PublishShape
  <2> QED
    BY <1>1, <2>1 DEF HintsCommitted
<1> QED
  BY <1>2, <1>5

LEMMA HintsStep ==
  ASSUME TypeInv, DevicesInv, HintsInv, StepShape
  PROVE  HintsInv'
<1>1. changes \subseteq changes'
  BY ChangesGrow
<1>2. ASSUME hints' = hints PROVE HintsCommitted'
  BY <1>1, <1>2 DEF HintsInv, HintsCommitted
<1>3. ASSUME NEW q \in Handlers
      PROVE  HintOK(changes', tx[q], save[q], pc[q], req[q], batch[q], reply[q])
  <2>1. CommittedBy(changes, req[q]) \subseteq CommittedBy(changes', req[q])
    BY <1>1 DEF CommittedBy
  <2> QED
    BY <2>1, AllInMonotonic DEF HintsInv, HintsOK, HintOK
<1>4. ASSUME NEW p \in Handlers, Alone(p), NEW q \in Handlers \ {p} PROVE HintsOK(q)'
  BY <1>3, <1>4 DEF Alone, HintsOK
<1>5. ASSUME NEW p \in Handlers, Alone(p), BatchShape(p) \/ RequestShape(p) PROVE HintsInv'
  <2>1. CASE PublishShape(p)
    BY <1>4, <1>5, <2>1, HintsPublish DEF HintsInv
  <2>2. CASE ~PublishShape(p)
    <3>1. HintsOK(p)' /\ hints' = hints
      BY <1>5, <2>2, HintsWithinBatch, HintsBetweenBatches, HintsEnd DEF BatchShape
    <3> QED
      BY <1>2, <1>4, <1>5, <3>1 DEF HintsInv
  <2> QED
    BY <2>1, <2>2
<1>6. CASE UNCHANGED <<changes, tx, save, pc, req, batch, reply, hints>>
  BY <1>6 DEF HintsInv, HintsCommitted, HintsOK
<1> QED
  BY <1>5, <1>6 DEF StepShape, DeviceShape, Still

-----------------------------------------------------------------------------
(* Owners.                                                                 *)

\* Transaction t of user u has written and logged u's notes only.
TxOwned(R, t, u) ==
  /\ \A n \in Notes : t.ws[n] # Absent => OwnedBy(t.ws[n], u) /\ (R[n] # Absent => OwnedBy(R[n], u))
  /\ \A x \in t.pend : x.note \in Notes => OwnedBy(NoteView(R, t, x.note), u)

\* A handler works on the notes of its request's user, at its savepoint too.
OwnerOK(R, t, sv, c, r, b) ==
  /\ c \in Working => TxOwned(R, t, r.user)
  /\ c \in InBatch => TxOwned(R, sv, r.user)
  /\ c \in InBatch /\ b.note # Absent => OwnedBy(b.note, r.user) /\ OwnedBy(NoteView(R, t, b.id), r.user)

OwnersOK(p) == OwnerOK(rows, tx[p], save[p], pc[p], req[p], batch[p])

\* Every committed change of a note is its owner's.
NotesOwned == \A c \in changes : c.note \in Notes => OwnedBy(rows[c.note], c.owner)

OwnersInv == NotesOwned /\ \A p \in Handlers : OwnersOK(p)

LEMMA OwnersGiveBatch ==
  ASSUME OwnersInv, NEW p \in Handlers
  PROVE  BatchOwned(p)
  BY DEF OwnersInv, OwnersOK, OwnerOK, BatchOwned, User, Visible, NoteView

\* A transaction sees the same of the notes it has locked, if those rows stay.
LEMMA TxOwnedStays ==
  ASSUME NEW R, NEW S, NEW t, NEW u, TxOwned(R, t, u), TxLocks(t), \A n \in Notes : n \in t.held => S[n] = R[n]
  PROVE  TxOwned(S, t, u)
  BY DEF TxOwned, TxLocks, NoteView

LEMMA OwnersOthers ==
  ASSUME TypeInv, ChainInv, OwnersInv, NEW q \in Handlers, \A n \in Notes : n \in tx[q].held => rows'[n] = rows[n]
  PROVE  OwnerOK(rows', tx[q], save[q], pc[q], req[q], batch[q])
<1>1. HandlerChain(q, rows, changes, tx[q], save[q], pc[q], batch[q])
  BY DEF ChainInv
<1>2. OwnerOK(rows, tx[q], save[q], pc[q], req[q], batch[q])
  BY DEF OwnersInv, OwnersOK
<1>3. pc[q] \in Working => TxOwned(rows', tx[q], req[q].user)
  BY <1>1, <1>2, TxOwnedStays DEF OwnerOK, HandlerChain
<1>4. pc[q] \in InBatch => TxOwned(rows', save[q], req[q].user)
  <2>1. pc[q] \in InBatch => TxLocks(save[q]) /\ \A n \in Notes : n \in save[q].held => n \in tx[q].held
    BY <1>1 DEF HandlerChain
  <2> QED
    BY <1>2, <2>1, TxOwnedStays DEF OwnerOK
<1>5. ASSUME pc[q] \in InBatch, batch[q].note # Absent
      PROVE  OwnedBy(batch[q].note, req[q].user) /\ OwnedBy(NoteView(rows', tx[q], batch[q].id), req[q].user)
  <2>1. batch[q].id \in tx[q].held /\ batch[q].id \in Notes
    BY <1>1, <1>5, ChainTypes DEF HandlerChain, BatchState
  <2> QED
    BY <1>2, <1>5, <2>1 DEF OwnerOK, NoteView
<1> QED
  BY <1>3, <1>4, <1>5 DEF OwnerOK

\* A step of handler p that commits nothing.
LEMMA OwnersSilent ==
  ASSUME TypeInv, ChainInv, OwnersInv, NEW p \in Handlers, Alone(p), rows' = rows, changes' = changes,
         OwnerOK(rows, tx'[p], save'[p], pc'[p], req'[p], batch'[p])
  PROVE  OwnersInv'
<1>1. ASSUME NEW q \in Handlers \ {p} PROVE OwnersOK(q)'
  BY OwnersOthers DEF Alone, OwnersOK
<1>2. NotesOwned'
  BY DEF OwnersInv, NotesOwned
<1> QED
  BY <1>1, <1>2 DEF OwnersInv, OwnersOK

LEMMA OwnersAccept ==
  ASSUME TypeInv, ChainInv, OwnersInv, NEW p \in Handlers, Alone(p), AcceptShape(p)
  PROVE  OwnersInv'
<1>1. PICK t, b, base, result :
        /\ Prepared(p, t, b, base, result)
        /\ tx'[p] = Logged(t, NewChange(p, Op(p), base, result))
        /\ batch'[p] = Marked(b, NewChange(p, Op(p), base, result))
  BY DEF AcceptShape
<1> DEFINE x == NewChange(p, Op(p), base, result)
           n == Op(p).note
           u == User(p)
<1>2. /\ pc[p] = "apply" /\ t \in TxState /\ t.pend = tx[p].pend /\ b \in BatchState /\ b.id = batch[p].id
      /\ \A k \in Notes : k # n => t.ws[k] = tx[p].ws[k]
      /\ n \in Notes => PreparedNote(p, t, b, base, result)
      /\ n \notin Notes => b.note = Absent
  BY <1>1 DEF Prepared
<1>3. n = batch[p].id /\ n \in Notes \cup {NilNote} /\ x.note = n
  BY <1>2, CurrentRequest DEF Operation, NewChange
<1>4. OwnerOK(rows, tx[p], save[p], pc[p], req[p], batch[p]) /\ pc[p] \in Working /\ pc[p] \in InBatch
  BY <1>2 DEF OwnersInv, OwnersOK, Working, InBatch
<1>5. TxOwned(rows, tx[p], u) /\ TxOwned(rows, save[p], u)
  BY <1>4 DEF OwnerOK, User
<1> HIDE DEF x
<1>6. /\ tx'[p].pend = tx[p].pend \cup {x} /\ tx'[p].ws = t.ws
      /\ batch'[p].id = n /\ batch'[p].note = b.note
  BY <1>1, <1>2, <1>3 DEF Logged, Marked, TxState, BatchState, x
<1>7. n \in Notes => /\ Visible(p, n) = Absent \/ OwnedBy(Visible(p, n), u)
                     /\ t.ws[n] = tx[p].ws[n] \/ OwnedBy(t.ws[n], u)
                     /\ OwnedBy(NoteView(rows, t, n), u) /\ OwnedBy(b.note, u)
  BY <1>2 DEF PreparedNote
<1> HIDE DEF n, u
<1>8. ASSUME NEW m \in Notes, t.ws[m] # Absent
      PROVE  OwnedBy(t.ws[m], u) /\ (rows[m] # Absent => OwnedBy(rows[m], u))
  <2>1. CASE m # n
    BY <1>2, <1>5, <1>8, <2>1 DEF TxOwned, n
  <2>2. CASE m = n
    <3>1. OwnedBy(t.ws[n], u)
      BY <1>5, <1>7, <1>8, <2>2 DEF TxOwned
    <3>2. rows[n] # Absent => OwnedBy(rows[n], u)
      BY <1>5, <1>7, <2>2 DEF TxOwned, Visible
    <3> QED
      BY <2>2, <3>1, <3>2
  <2> QED
    BY <2>1, <2>2
<1>9. ASSUME NEW y \in tx[p].pend \cup {x}, y.note \in Notes PROVE OwnedBy(NoteView(rows, t, y.note), u)
  <2>1. CASE y.note = n
    BY <1>7, <1>9, <2>1
  <2>2. CASE y.note # n
    <3>1. y \in tx[p].pend
      BY <1>3, <1>9, <2>2 DEF n
    <3>2. OwnedBy(NoteView(rows, tx[p], y.note), u)
      BY <1>5, <1>9, <3>1 DEF TxOwned
    <3> QED
      BY <1>2, <1>9, <2>2, <3>2 DEF NoteView, n
  <2> QED
    BY <2>1, <2>2
<1>10. TxOwned(rows, tx'[p], u)
  BY <1>6, <1>8, <1>9 DEF TxOwned, NoteView
<1>11. b.note # Absent => OwnedBy(b.note, u) /\ OwnedBy(NoteView(rows, tx'[p], n), u)
  BY <1>2, <1>6, <1>7 DEF NoteView, n
<1>12. save'[p] = save[p] /\ req'[p] = req[p] /\ rows' = rows /\ changes' = changes
  BY DEF AcceptShape, SameRequest, Silent
<1>13. OwnerOK(rows, tx'[p], save'[p], pc'[p], req'[p], batch'[p])
  BY <1>5, <1>6, <1>10, <1>11, <1>12 DEF OwnerOK, u, User
<1> QED
  BY <1>12, <1>13, OwnersSilent

LEMMA OwnersWithinBatch ==
  ASSUME TypeInv, ChainInv, OwnersInv, NEW p \in Handlers, Alone(p),
         RetryShape(p) \/ QuietShape(p) \/ RejectShape(p)
  PROVE  OwnersInv'
<1>1. OwnerOK(rows, tx[p], save[p], pc[p], req[p], batch[p])
  BY DEF OwnersInv, OwnersOK
<1>2. CASE RetryShape(p)
  <2>1. /\ pc[p] = "find" /\ tx'[p].ws = tx[p].ws /\ tx'[p].pend = tx[p].pend /\ save'[p] = save[p]
        /\ req'[p] = req[p] /\ batch'[p].id = batch[p].id /\ rows' = rows /\ changes' = changes
        /\ batch'[p].note # Absent => /\ OwnedBy(batch'[p].note, User(p))
                                      /\ OwnedBy(Visible(p, batch[p].id), User(p))
    BY <1>2 DEF RetryShape, OnlyLocks, SameRequest, Silent
  <2>2. TxOwned(rows, tx[p], req[p].user) /\ TxOwned(rows, save[p], req[p].user)
    BY <1>1, <2>1 DEF OwnerOK, Working, InBatch
  <2>3. TxOwned(rows, tx'[p], req[p].user)
    BY <2>1, <2>2 DEF TxOwned, NoteView
  <2>4. OwnerOK(rows, tx'[p], save'[p], pc'[p], req'[p], batch'[p])
    BY <2>1, <2>2, <2>3 DEF OwnerOK, User, Visible, NoteView
  <2> QED
    BY <2>1, <2>4, OwnersSilent
<1>3. CASE QuietShape(p)
  <2>1. /\ tx'[p] = tx[p] /\ save'[p] = save[p] /\ batch'[p] = batch[p] /\ req'[p] = req[p]
        /\ rows' = rows /\ changes' = changes /\ pc[p] \in {"find", "apply"}
    BY <1>3 DEF QuietShape, SameBatch, SameRequest, Silent
  <2>2. OwnerOK(rows, tx'[p], save'[p], pc'[p], req'[p], batch'[p])
    BY <1>1, <2>1 DEF OwnerOK, Working, InBatch
  <2> QED
    BY <2>1, <2>2, OwnersSilent
<1>4. CASE RejectShape(p)
  <2>1. /\ tx'[p] = save[p] /\ req'[p] = req[p] /\ pc[p] \in InBatch /\ pc'[p] = "rejected"
        /\ rows' = rows /\ changes' = changes
    BY <1>4 DEF RejectShape, SameBatch, SameRequest, Silent, InBatch
  <2>2. OwnerOK(rows, tx'[p], save'[p], pc'[p], req'[p], batch'[p])
    BY <1>1, <2>1 DEF OwnerOK, InBatch
  <2> QED
    BY <2>1, <2>2, OwnersSilent
<1> QED
  BY <1>2, <1>3, <1>4

\* The next batch has loaded nothing yet.
LEMMA OwnersOpens ==
  ASSUME TypeInv, ChainInv, OwnersInv, NEW p \in Handlers, Alone(p), Silent, NEW ops, OpensBatch(p, ops),
         TxOwned(rows, tx'[p], req'[p].user)
  PROVE  OwnersInv'
<1>1. save'[p] = tx'[p] /\ batch'[p].note = Absent
  BY DEF OpensBatch, NewBatch
<1>2. OwnerOK(rows, tx'[p], save'[p], pc'[p], req'[p], batch'[p])
  BY <1>1 DEF OwnerOK
<1> QED
  BY <1>2, OwnersSilent DEF Silent

LEMMA OwnersBetweenBatches ==
  ASSUME TypeInv, ChainInv, DevicesInv, OwnersInv, NEW p \in Handlers, Alone(p),
         LockShape(p) \/ FlushShape(p) \/ RejectBatchShape(p)
  PROVE  OwnersInv'
<1>1. OwnerOK(rows, tx[p], save[p], pc[p], req[p], batch[p])
  BY DEF OwnersInv, OwnersOK
<1>2. CASE LockShape(p)
  <2>1. tx[p] = EmptyTx /\ Silent
    BY <1>2, DeviceHandler DEF LockShape, DeviceOK, Working
  <2>2. tx'[p].pend = {} /\ \A n \in Notes : tx'[p].ws[n] = Absent
    BY <1>2, <2>1, EmptyTxFacts DEF LockShape, Lock, TxState, Keys
  <2>3. TxOwned(rows, tx'[p], req'[p].user)
    BY <2>2 DEF TxOwned
  <2>4. CASE pc'[p] = "page"
    <3>1. OwnerOK(rows, tx'[p], save'[p], pc'[p], req'[p], batch'[p])
      BY <2>3, <2>4 DEF OwnerOK, InBatch
    <3> QED
      BY <2>1, <3>1, OwnersSilent DEF Silent
  <2> QED
    BY <1>2, <2>1, <2>3, <2>4, OwnersOpens DEF LockShape
<1>3. CASE FlushShape(p)
  <2> DEFINE n == batch[p].id
             u == req[p].user
  <2>1. /\ pc[p] = "flush" /\ OpensBatch(p, todo[p]) /\ tx'[p].pend = tx[p].pend /\ req'[p] = req[p] /\ Silent
        /\ \A k \in Notes : k # n => tx'[p].ws[k] = tx[p].ws[k]
        /\ n \in Notes => \/ batch[p].note # Absent /\ OwnedBy(tx'[p].ws[n], batch[p].note.owner)
                          \/ tx'[p].ws[n] = tx[p].ws[n]
    BY <1>3 DEF FlushShape
  <2>2. /\ TxOwned(rows, tx[p], u)
        /\ batch[p].note # Absent => OwnedBy(batch[p].note, u) /\ OwnedBy(NoteView(rows, tx[p], n), u)
    BY <1>1, <2>1 DEF OwnerOK, Working, InBatch
  <2> HIDE DEF n, u
  <2>3. \/ \A k \in Notes : tx'[p].ws[k] = tx[p].ws[k]
        \/ /\ n \in Notes /\ OwnedBy(tx'[p].ws[n], u) /\ (rows[n] # Absent => OwnedBy(rows[n], u))
           /\ \A k \in Notes : k # n => tx'[p].ws[k] = tx[p].ws[k]
    BY <2>1, <2>2 DEF TxOwned, NoteView, OwnedBy
  <2>4. TxOwned(rows, tx'[p], u)
    BY <2>1, <2>2, <2>3 DEF TxOwned, NoteView, OwnedBy
  <2> QED
    BY <2>1, <2>4, OwnersOpens DEF u
<1>4. CASE RejectBatchShape(p)
  <2>1. /\ pc[p] = "rejected" /\ OpensBatch(p, AfterBatch(todo[p], batch[p].id)) /\ Silent
        /\ req'[p] = req[p] /\ tx'[p].ws = tx[p].ws /\ tx'[p].pend = tx[p].pend
    BY <1>4 DEF RejectBatchShape, OnlyLocks
  <2>2. TxOwned(rows, tx'[p], req[p].user)
    BY <1>1, <2>1 DEF OwnerOK, Working, TxOwned, NoteView
  <2> QED
    BY <2>1, <2>2, OwnersOpens
<1> QED
  BY <1>2, <1>3, <1>4

LEMMA OwnersPage ==
  ASSUME TypeInv, ChainInv, DevicesInv, OwnersInv, NEW p \in Handlers, Alone(p), PageShape(p)
  PROVE  OwnersInv'
<1>1. /\ pc[p] = "page" /\ pc'[p] = "commit" /\ req'[p] = req[p] /\ req[p] \in Request /\ Silent
      /\ tx'[p].pend = {}
  BY PageFacts
<1>2. tx[p] \in TxState /\ req[p].device \in Devices
  BY <1>1, DeviceHandler DEF Request
<1>3. \A n \in Notes : n \in Keys /\ n # req[p].device
  BY <1>2, KeysAssumption DEF Keys
<1>4. \A n \in Notes : tx'[p].ws[n] = tx[p].ws[n]
  BY <1>2, <1>3 DEF PageShape, Write, TxState
<1>5. TxOwned(rows, tx[p], req[p].user)
  BY <1>1 DEF OwnersInv, OwnersOK, OwnerOK, Working
<1>6. TxOwned(rows, tx'[p], req[p].user)
  BY <1>1, <1>4, <1>5 DEF TxOwned
<1>7. OwnerOK(rows, tx'[p], save'[p], pc'[p], req'[p], batch'[p])
  BY <1>1, <1>6 DEF OwnerOK, InBatch
<1> QED
  BY <1>1, <1>7, OwnersSilent DEF Silent

LEMMA OwnersCommit ==
  ASSUME TypeInv, ChainInv, DevicesInv, OwnersInv, NEW p \in Handlers, Alone(p), CommitShape(p)
  PROVE  OwnersInv'
<1>1. /\ pc[p] = "commit" /\ pc'[p] \in {"publish", "respond"} /\ changes' = changes \cup tx[p].pend
      /\ rows' = [k \in Keys |-> Visible(p, k)]
  BY DEF CommitShape
<1>2. TxOwned(rows, tx[p], User(p)) /\ TxLocks(tx[p])
  BY <1>1 DEF OwnersInv, OwnersOK, OwnerOK, Working, ChainInv, HandlerChain, User
<1>3. \A n \in Notes : rows'[n] = NoteView(rows, tx[p], n)
  BY <1>1 DEF Visible, NoteView, Keys
<1>4. \A x \in tx[p].pend : x.owner = User(p)
  BY CommitFacts
<1>5. NotesOwned'
  <2>1. ASSUME NEW c \in changes', c.note \in Notes PROVE OwnedBy(rows'[c.note], c.owner)
    <3>1. CASE c \in tx[p].pend
      BY <1>2, <1>3, <1>4, <2>1, <3>1 DEF TxOwned
    <3>2. CASE c \in changes
      <4>1. OwnedBy(rows[c.note], c.owner)
        BY <2>1, <3>2 DEF OwnersInv, NotesOwned
      <4> QED
        BY <1>2, <1>3, <2>1, <4>1 DEF TxOwned, NoteView, OwnedBy
    <3> QED
      BY <1>1, <3>1, <3>2
  <2> QED
    BY <2>1 DEF NotesOwned
<1>6. OwnersOK(p)'
  BY <1>1 DEF OwnersOK, OwnerOK, Working, InBatch
<1>7. ASSUME NEW q \in Handlers \ {p} PROVE OwnersOK(q)'
  <2>1. \A n \in Notes : n \in tx[q].held => rows'[n] = rows[n]
    BY <1>2, <1>3 DEF ChainInv, Exclusive, TxLocks, NoteView
  <2> QED
    BY <2>1, OwnersOthers DEF Alone, OwnersOK
<1> QED
  BY <1>5, <1>6, <1>7 DEF OwnersInv

LEMMA OwnersStep ==
  ASSUME TypeInv, ChainInv, DevicesInv, OwnersInv, StepShape
  PROVE  OwnersInv'
<1>1. ASSUME NEW p \in Handlers, Alone(p),
             FailShape(p) \/ ReceiveShape(p) \/ PublishShape(p) \/ RespondShape(p) \/ UnknownShape(p)
      PROVE  OwnersInv'
  <2>1. pc'[p] \in {"lock", "failed", "done"} /\ rows' = rows /\ changes' = changes
    BY <1>1 DEF FailShape, ReceiveShape, PublishShape, RespondShape, UnknownShape, Silent
  <2>2. OwnerOK(rows, tx'[p], save'[p], pc'[p], req'[p], batch'[p])
    BY <2>1 DEF OwnerOK, Working, InBatch
  <2> QED
    BY <1>1, <2>1, <2>2, OwnersSilent
<1>2. ASSUME NEW p \in Handlers, Alone(p), BatchShape(p) \/ RequestShape(p) PROVE OwnersInv'
  BY <1>1, <1>2, OwnersAccept, OwnersWithinBatch, OwnersBetweenBatches, OwnersPage, OwnersCommit
     DEF BatchShape, RequestShape, OperationShape
<1>3. ASSUME NEW d \in Devices, DeviceShape(d) PROVE OwnersInv'
  <2>1. \A n \in Notes : n \in Keys /\ n # d
    BY <1>3, KeysAssumption DEF Keys
  <2>2. \A n \in Notes : rows'[n] = rows[n]
    BY <1>3, <2>1, ShapeTypes DEF DeviceShape
  <2>3. UNCHANGED <<changes, tx, save, pc, req, batch>>
    BY <1>3 DEF DeviceShape
  <2>4. ASSUME NEW q \in Handlers PROVE OwnersOK(q)'
    BY <2>2, <2>3, OwnersOthers DEF OwnersOK
  <2>5. NotesOwned'
    BY <2>2, <2>3 DEF OwnersInv, NotesOwned
  <2> QED
    BY <2>4, <2>5 DEF OwnersInv
<1>4. CASE UNCHANGED <<rows, changes, tx, save, pc, req, batch>>
  BY <1>4 DEF OwnersInv, NotesOwned, OwnersOK
<1> QED
  BY <1>2, <1>3, <1>4 DEF StepShape, Still

-----------------------------------------------------------------------------
(* Cursors.                                                                *)

\* A change of another device of d's user.
Remote(d, x) == x.owner = Owner[d] /\ x.device # d

\* A cursor that device d was given: no further than the stored one.
CursorOK(R, s, d, cursor) ==
  /\ cursor <= s
  /\ R[d] = Absent => cursor = 0
  /\ R[d] # Absent => cursor <= R[d].cursor

\* A pull with program counter c, request r and answer a, when L are all the
\* change rows there are: what is missing from its page was in flight.
PullOK(L, R, s, c, r, a) ==
  /\ CursorOK(R, s, r.device, r.cursor)
  /\ a.next <= s
  /\ \A x \in a.page : Remote(r.device, x) /\ x.seq <= a.next
  /\ \A x \in L : Remote(r.device, x) /\ r.cursor < x.seq /\ x.seq <= a.next
                    => x \in a.page \/ x.seq \in a.raced
  /\ c \in {"commit", "respond"} => r.cursor <= a.next
  /\ c = "respond" => R[r.device] # Absent /\ a.next <= R[r.device].cursor

\* What the client of device d has saved.
SavedOK(L, R, s, d, cl) ==
  /\ CursorOK(R, s, d, cl.cursor)
  /\ \A x \in cl.seen : Remote(d, x) /\ x.seq <= cl.cursor
  /\ \A x \in L : Remote(d, x) /\ x.seq <= cl.cursor => x \in cl.seen \/ x.seq \in cl.raced

\* What the server has stored for it: A was sent to it, F was in flight.
StoredOK(L, R, s, d, A, F) ==
  R[d] # Absent =>
    /\ R[d].cursor <= s
    /\ \A x \in L : Remote(d, x) /\ x.seq <= R[d].cursor => x \in A \/ x.seq \in F

Sent(d) == client[d].seen \cup Answered(d)
PullsOK(p) == pc[p] # "idle" /\ req[p].kind = "pull" => PullOK(Logs, rows, seq, pc[p], req[p], reply[p])
ClientOK(d) == SavedOK(Logs, rows, seq, d, client[d]) /\ StoredOK(Logs, rows, seq, d, Sent(d), InFlight(d))

CursorsInv == (\A p \in Handlers : PullsOK(p)) /\ \A d \in Devices : ClientOK(d)

\* A step hands out the next sequence, or none.
LEMMA LogsGrow ==
  ASSUME TypeInv, DevicesInv, StepShape
  PROVE  seq \in Nat /\ seq' \in Nat /\ seq <= seq' /\ \A y \in Logs' : y \in Logs \/ y.seq = seq + 1
<1>1. seq \in Nat
  BY DEF TypeInv, StoreInv
<1>2. ASSUME NEW p \in Handlers, Alone(p), NEW N, tx'[p].pend \subseteq tx[p].pend \cup N,
             changes' \subseteq changes \cup tx[p].pend, NEW y \in Logs'
      PROVE  y \in Logs \/ y \in N
  <2>1. CASE y \in changes'
    BY <1>2, <2>1 DEF Logs
  <2>2. ASSUME NEW q \in Handlers, y \in tx'[q].pend PROVE y \in Logs \/ y \in N
    <3>1. y \in tx[q].pend \/ y \in N
      BY <1>2, <2>2 DEF Alone
    <3> QED
      BY <3>1 DEF Logs
  <2> QED
    BY <1>2, <2>1, <2>2 DEF Logs
<1>3. ASSUME NEW p \in Handlers, Alone(p), AcceptShape(p)
      PROVE  seq' = seq + 1 /\ \A y \in Logs' : y \in Logs \/ y.seq = seq + 1
  <2>1. PICK x \in Change : seq' = seq + 1 /\ Silent /\ tx'[p].pend = tx[p].pend \cup {x} /\ x.seq = seq + 1
    BY <1>3, AcceptFacts
  <2>2. \A y \in Logs' : y \in Logs \/ y \in {x}
    BY <1>2, <1>3, <2>1 DEF Silent
  <2> QED
    BY <2>1, <2>2
<1>4. ASSUME NEW p \in Handlers, Alone(p), BatchShape(p) \/ RequestShape(p), ~AcceptShape(p)
      PROVE  seq' = seq /\ \A y \in Logs' : y \in Logs
  <2>1. tx'[p].pend \subseteq tx[p].pend \cup {} /\ changes' \subseteq changes \cup tx[p].pend /\ seq' = seq
    BY <1>4, LogShapes
  <2>2. \A y \in Logs' : y \in Logs \/ y \in {}
    BY <1>2, <1>4, <2>1
  <2> QED
    BY <2>1, <2>2
<1>5. CASE UNCHANGED <<changes, tx, seq>>
  BY <1>1, <1>5 DEF Logs
<1> QED
  BY <1>1, <1>3, <1>4, <1>5 DEF StepShape, DeviceShape, Still

\* Device rows stay, and their cursors move only when a pull commits.
StoredCursors(S) ==
  \A d \in Devices :
    /\ rows[d] # Absent => rows'[d] # Absent /\ rows[d].cursor <= rows'[d].cursor
    /\ rows'[d] # Absent /\ d \notin S => rows'[d].cursor = IF rows[d] = Absent THEN 0 ELSE rows[d].cursor

LEMMA CursorTypes ==
  ASSUME TypeInv
  PROVE  /\ \A d \in Devices : d \in Keys /\ client[d].cursor \in Nat /\ rows[d] \in DeviceRow \cup {Absent}
         /\ \A d \in Devices : rows[d] # Absent => rows[d].cursor \in Nat
         /\ \A x \in Logs : x.seq \in Nat /\ x.seq <= seq /\ x \in Change
         /\ \A p \in Handlers : reply[p].next \in Nat /\ reply[p].page \subseteq Change /\ reply[p] \in Reply
         /\ \A p \in Handlers : pc[p] # "idle" => req[p] \in Request /\ req[p].cursor \in Nat /\ req[p].device \in Devices
         /\ seq \in Nat
<1>1. \A d \in Devices : d \in Keys /\ client[d] \in ClientState /\ TypedRow(d, rows[d])
  BY DEF TypeInv, StoreInv, Keys
<1>2. \A d \in Devices : client[d].cursor \in Nat /\ rows[d] \in DeviceRow \cup {Absent}
  BY <1>1 DEF ClientState, TypedRow
<1>3. \A x \in Logs : x.seq \in Nat /\ x.seq <= seq /\ x \in Change
  <2>1. \A p \in Handlers : \A x \in tx[p].pend : x.seq \in Nat /\ x.seq <= seq /\ x \in Change
    BY ChainTypes
  <2>2. \A x \in changes : x.seq \in Nat /\ x.seq <= seq /\ x \in Change
    BY DEF TypeInv, StoreInv, Change
  <2> QED
    BY <2>1, <2>2 DEF Logs
<1>4. \A p \in Handlers : reply[p] \in Reply /\ (pc[p] # "idle" => req[p] \in Request)
  BY DEF TypeInv, HandlerInv, HandlerOK
<1> QED
  BY <1>1, <1>2, <1>3, <1>4 DEF DeviceRow, Reply, Request, TypeInv, StoreInv

\* The rows of a step that commits no pull.
LEMMA StoredStay ==
  ASSUME TypeInv, DevicesInv,
         \/ \E p \in Handlers : /\ BatchShape(p) \/ RequestShape(p)
                               /\ ~(CommitShape(p) /\ req[p].kind = "pull")
         \/ \E d \in Devices : DeviceShape(d)
         \/ Still
  PROVE  StoredCursors({})
<1>1. CASE rows' = rows
  BY <1>1, CursorTypes DEF StoredCursors
<1>2. ASSUME NEW p \in Handlers, CommitShape(p), req[p].kind # "pull" PROVE StoredCursors({})
  <2>1. /\ \A d \in Devices : d # req[p].device => rows'[d] = rows[d]
        /\ req[p] \in Request /\ (req[p].kind = "push" => rows'[req[p].device] = rows[req[p].device])
    BY <1>2, CommitFacts
  <2>2. req[p].kind = "push"
    BY <1>2, <2>1 DEF Request
  <2> QED
    BY <2>1, <2>2, CursorTypes DEF StoredCursors
<1>3. ASSUME NEW d \in Devices, DeviceShape(d) PROVE StoredCursors({})
  <2>1. d \in Keys /\ rows \in [Keys -> Row \cup {Absent}] /\ \A e \in Devices : e \in Keys
    BY ShapeTypes DEF Keys
  <2>2. \A e \in Devices : e # d => rows'[e] = rows[e]
    BY <1>3, <2>1 DEF DeviceShape
  <2>3. CASE rows[d] = Absent /\ rows'[d] = [owner |-> Owner[d], revoked |-> FALSE, cursor |-> 0]
    BY <2>2, <2>3, CursorTypes DEF StoredCursors
  <2>4. CASE rows[d] # Absent /\ rows'[d] = [rows[d] EXCEPT !.revoked = TRUE]
    <3> DEFINE row == [rows[d] EXCEPT !.revoked = TRUE]
    <3>1. rows[d] \in DeviceRow /\ rows'[d] = row
      BY <2>4, CursorTypes
    <3>2. row \in DeviceRow /\ row.cursor = rows[d].cursor
      BY <3>1 DEF DeviceRow
    <3>3. row # Absent
      BY <3>2, AbsentAssumption DEF Row
    <3> HIDE DEF row
    <3> QED
      BY <2>2, <2>4, <3>1, <3>2, <3>3, CursorTypes DEF StoredCursors
  <2> QED
    BY <1>3, <2>1, <2>3, <2>4 DEF DeviceShape
<1>4. ASSUME NEW p \in Handlers, BatchShape(p) \/ RequestShape(p), ~CommitShape(p) PROVE rows' = rows
  BY <1>4 DEF BatchShape, RequestShape, OperationShape, LockShape, RetryShape, QuietShape, AcceptShape,
         RejectShape, FlushShape, RejectBatchShape, FailShape, ReceiveShape, PublishShape,
         PageShape, RespondShape, UnknownShape, Silent
<1>5. Still => rows' = rows
  BY DEF Still
<1> QED
  BY <1>1, <1>2, <1>3, <1>4, <1>5

\* A saved cursor stays good while sequences and stored cursors grow.
LEMMA CursorStays ==
  ASSUME TypeInv, TypeInv', DevicesInv, StepShape, NEW S, StoredCursors(S), NEW d \in Devices, NEW cursor \in Nat,
         CursorOK(rows, seq, d, cursor)
  PROVE  CursorOK(rows', seq', d, cursor)
<1>1. seq \in Nat /\ seq' \in Nat /\ seq <= seq'
  BY LogsGrow
<1>2. rows'[d] # Absent => rows'[d].cursor \in Nat
  <2>1. d \in Keys /\ \A k \in Keys : TypedRow(k, rows'[k])
    BY DEF TypeInv, StoreInv, Keys, TypedRow
  <2> QED
    BY <2>1 DEF TypedRow, DeviceRow
<1>3. rows[d] # Absent => rows[d].cursor \in Nat
  BY CursorTypes
<1> QED
  BY <1>1, <1>2, <1>3 DEF CursorOK, StoredCursors

\* A pull that stands still, and any that keeps its answer.
LEMMA PullStays ==
  ASSUME TypeInv, TypeInv', DevicesInv, StepShape, NEW S, StoredCursors(S), NEW p \in Handlers,
         pc[p] # "idle", PullOK(Logs, rows, seq, pc[p], req[p], reply[p]),
         NEW c, c \in {"commit", "respond"} => pc[p] \in {"commit", "respond"},
         c = "respond" => /\ rows'[req[p].device] # Absent
                          /\ reply[p].next <= rows'[req[p].device].cursor
  PROVE  PullOK(Logs', rows', seq', c, req[p], reply[p])
<1>1. /\ req[p].device \in Devices /\ req[p].cursor \in Nat /\ reply[p].next \in Nat
      /\ \A x \in Logs : x.seq \in Nat
  BY CursorTypes
<1>2. seq \in Nat /\ seq' \in Nat /\ seq <= seq' /\ \A y \in Logs' : y \in Logs \/ y.seq = seq + 1
  BY LogsGrow
<1>3. CursorOK(rows', seq', req[p].device, req[p].cursor)
  BY <1>1, CursorStays DEF PullOK
<1>4. reply[p].next <= seq'
  BY <1>1, <1>2 DEF PullOK
<1>5. ASSUME NEW x \in Logs', x.seq <= reply[p].next PROVE x \in Logs
  BY <1>1, <1>2, <1>5 DEF PullOK
<1> QED
  BY <1>3, <1>4, <1>5 DEF PullOK

LEMMA SavedStays ==
  ASSUME TypeInv, TypeInv', DevicesInv, StepShape, NEW S, StoredCursors(S), NEW d \in Devices,
         SavedOK(Logs, rows, seq, d, client[d])
  PROVE  SavedOK(Logs', rows', seq', d, client[d])
<1>1. client[d].cursor \in Nat
  BY CursorTypes
<1>2. seq \in Nat /\ \A y \in Logs' : y \in Logs \/ y.seq = seq + 1
  BY LogsGrow
<1>3. CursorOK(rows', seq', d, client[d].cursor)
  BY <1>1, CursorStays DEF SavedOK
<1>4. ASSUME NEW x \in Logs', x.seq <= client[d].cursor PROVE x \in Logs
  BY <1>1, <1>2, <1>4 DEF SavedOK, CursorOK
<1> QED
  BY <1>3, <1>4 DEF SavedOK

LEMMA StoredStays ==
  ASSUME TypeInv, TypeInv', DevicesInv, IdsInv', StepShape, NEW S, StoredCursors(S), NEW d \in Devices, d \notin S,
         NEW A, NEW F, NEW B, NEW G, A \subseteq B, F \subseteq G, StoredOK(Logs, rows, seq, d, A, F)
  PROVE  StoredOK(Logs', rows', seq', d, B, G)
<1>1. SUFFICES ASSUME rows'[d] # Absent
               PROVE  /\ rows'[d].cursor <= seq'
                      /\ \A x \in Logs' : Remote(d, x) /\ x.seq <= rows'[d].cursor => x \in B \/ x.seq \in G
  BY DEF StoredOK
<1>2. seq \in Nat /\ seq' \in Nat /\ seq <= seq' /\ \A y \in Logs' : y \in Logs \/ y.seq = seq + 1
  BY LogsGrow
<1>3. \A x \in Logs' : x.seq \in Nat /\ x.seq > 0
  BY <1>2, CursorTypes DEF IdsInv
<1>4. CASE rows[d] = Absent
  <2>1. rows'[d].cursor = 0
    BY <1>1, <1>4 DEF StoredCursors
  <2> QED
    BY <1>2, <1>3, <2>1
<1>5. CASE rows[d] # Absent
  <2>1. rows'[d].cursor = rows[d].cursor /\ rows[d].cursor \in Nat
    BY <1>1, <1>5, CursorTypes DEF StoredCursors
  <2> QED
    BY <1>2, <1>5, <2>1 DEF StoredOK
<1> QED
  BY <1>4, <1>5

\* A request keeps what it was answered.
Answers(p) ==
  pc[p] # "idle" =>
    /\ pc'[p] # "idle" /\ req'[p] = req[p]
    /\ reply[p].page \subseteq reply'[p].page /\ reply[p].raced \subseteq reply'[p].raced

LEMMA AnswersGrow ==
  ASSUME \A p \in Handlers : Answers(p), client' = client, NEW d
  PROVE  Sent(d) \subseteq Sent(d)' /\ InFlight(d) \subseteq InFlight(d)'
<1>1. PullsOf(d) \subseteq PullsOf(d)'
  BY DEF PullsOf, Answers
<1>2. \A p \in PullsOf(d) : reply[p].page \subseteq reply'[p].page /\ reply[p].raced \subseteq reply'[p].raced
  BY DEF PullsOf, Answers
<1> QED
  BY <1>1, <1>2 DEF Sent, Answered, InFlight

LEMMA StepAnswers ==
  ASSUME TypeInv, DevicesInv, NEW p \in Handlers, BatchShape(p) \/ RequestShape(p)
  PROVE  Answers(p)
<1>1. reply[p] \in Reply
  BY CursorTypes
<1>2. CASE FlushShape(p)
  <2>1. PICK a \in Accepted : reply'[p] = [reply[p] EXCEPT !.accepted = @ \cup {a}]
    BY <1>2 DEF FlushShape
  <2>2. reply'[p].page = reply[p].page /\ reply'[p].raced = reply[p].raced
    BY <1>1, <2>1 DEF Reply
  <2>3. pc'[p] # "idle" /\ req'[p] = req[p]
    BY <1>2 DEF FlushShape, OpensBatch
  <2> QED
    BY <2>2, <2>3 DEF Answers
<1>3. CASE RejectBatchShape(p)
  <2>1. PICK r : reply'[p] = [reply[p] EXCEPT !.rejected = @ \cup {r}]
    BY <1>3 DEF RejectBatchShape
  <2>2. reply'[p].page = reply[p].page /\ reply'[p].raced = reply[p].raced
    BY <1>1, <2>1 DEF Reply
  <2>3. pc'[p] # "idle" /\ req'[p] = req[p]
    BY <1>3 DEF RejectBatchShape, OpensBatch
  <2> QED
    BY <2>2, <2>3 DEF Answers
<1>4. CASE PageShape(p)
  <2>1. pc'[p] = "commit" /\ req'[p] = req[p] /\ reply[p] = NoReply
    BY <1>4, PageFacts
  <2> QED
    BY <2>1 DEF Answers, NoReply
<1>5. CASE ReceiveShape(p)
  BY <1>5 DEF ReceiveShape, Answers
<1>6. CASE ~FlushShape(p) /\ ~RejectBatchShape(p) /\ ~PageShape(p) /\ ~ReceiveShape(p)
  <2>1. pc'[p] # "idle" /\ req'[p] = req[p] /\ reply'[p] = reply[p]
    BY <1>6 DEF BatchShape, RequestShape, OperationShape, LockShape, RetryShape, QuietShape, AcceptShape,
         RejectShape, FailShape, CommitShape, PublishShape, RespondShape, UnknownShape, SameRequest, Advances, OpensBatch
  <2> QED
    BY <2>1 DEF Answers
<1> QED
  BY <1>2, <1>3, <1>4, <1>5, <1>6

LEMMA AllAnswer ==
  ASSUME TypeInv, DevicesInv, StepShape
  PROVE  \A p \in Handlers : Answers(p)
<1>1. ASSUME NEW p \in Handlers, Alone(p), BatchShape(p) \/ RequestShape(p) PROVE \A q \in Handlers : Answers(q)
  BY <1>1, StepAnswers DEF Alone, Answers
<1> QED
  BY <1>1 DEF StepShape, DeviceShape, Still, Answers

LEMMA PullsOthers ==
  ASSUME TypeInv, TypeInv', DevicesInv, CursorsInv, StepShape, NEW S, StoredCursors(S), NEW p \in Handlers,
         pc'[p] = pc[p] \/ (pc[p] # "respond" /\ pc'[p] \notin {"commit", "respond"}),
         req'[p] = req[p], reply'[p] = reply[p], pc[p] # "idle" \/ pc'[p] = "idle"
  PROVE  PullsOK(p)'
<1>1. SUFFICES ASSUME pc'[p] # "idle", req[p].kind = "pull"
               PROVE  PullOK(Logs', rows', seq', pc'[p], req[p], reply[p])
  BY DEF PullsOK
<1>2. pc[p] # "idle" /\ PullOK(Logs, rows, seq, pc[p], req[p], reply[p])
  BY <1>1 DEF CursorsInv, PullsOK
<1>3. /\ req[p].device \in Devices /\ reply[p].next \in Nat
      /\ rows[req[p].device] # Absent => rows[req[p].device].cursor \in Nat
  BY <1>2, CursorTypes
<1>4. rows'[req[p].device] # Absent => rows'[req[p].device].cursor \in Nat
  <2>1. req[p].device \in Keys /\ \A k \in Keys : TypedRow(k, rows'[k])
    BY <1>3 DEF TypeInv, StoreInv, Keys, TypedRow
  <2> QED
    BY <1>3, <2>1 DEF TypedRow, DeviceRow
<1>5. pc'[p] = "respond" => /\ rows'[req[p].device] # Absent
                            /\ reply[p].next <= rows'[req[p].device].cursor
  BY <1>2, <1>3, <1>4 DEF PullOK, StoredCursors
<1> QED
  BY <1>2, <1>5, PullStays

\* A request that is not a pull, or that keeps its answer and is not committed.
LEMMA PullsOwn ==
  ASSUME TypeInv, TypeInv', DevicesInv, CursorsInv, StepShape, StoredCursors({}), NEW p \in Handlers,
         BatchShape(p) \/ CommitShape(p) \/ PublishShape(p) \/ RespondShape(p) \/ UnknownShape(p),
         ~(CommitShape(p) /\ req[p].kind = "pull")
  PROVE  PullsOK(p)'
<1>1. DeviceOK(p, rows, tx[p], save[p], pc[p], req[p], reply[p]) /\ (pc[p] # "idle" => req[p] \in Request)
  BY DeviceHandler
<1>2. CASE req[p].kind # "pull"
  <2>1. req'[p] = req[p]
    BY DEF BatchShape, OperationShape, LockShape, RetryShape, QuietShape, AcceptShape, RejectShape, FlushShape,
           RejectBatchShape, FailShape, CommitShape, PublishShape, RespondShape, UnknownShape, SameRequest
  <2> QED
    BY <1>2, <2>1 DEF PullsOK
<1>3. CASE req[p].kind = "pull"
  <2>1. pc[p] \notin PushWork /\ pc[p] # "publish"
    BY <1>1, <1>3 DEF DeviceOK, PushWork
  <2>2. ~OperationShape(p) /\ ~FlushShape(p) /\ ~RejectBatchShape(p) /\ ~PublishShape(p) /\ ~CommitShape(p)
    <3>1. AcceptShape(p) => pc[p] = "apply"
      BY DEF AcceptShape, Prepared
    <3> QED
      BY <1>3, <2>1, <3>1 DEF OperationShape, RetryShape, QuietShape, RejectShape, FlushShape,
                             RejectBatchShape, PublishShape, PushWork
  <2>3. CASE LockShape(p) \/ FailShape(p)
    <3>1. /\ pc[p] # "idle" /\ pc[p] # "respond" /\ pc'[p] \in {"page", "failed"}
          /\ req'[p] = req[p] /\ reply'[p] = reply[p]
      BY <1>3, <2>3 DEF LockShape, FailShape, SameRequest, InTx
    <3> QED
      BY <3>1, PullsOthers
  <2>4. CASE RespondShape(p) \/ UnknownShape(p)
    <3>1. pc[p] = "respond" /\ pc'[p] \in {"done", "failed"} /\ req'[p] = req[p] /\ reply'[p] = reply[p]
      BY <2>1, <2>4 DEF RespondShape, UnknownShape, SameRequest
    <3>2. PullOK(Logs, rows, seq, pc[p], req[p], reply[p])
      BY <1>3, <3>1 DEF CursorsInv, PullsOK
    <3>3. PullOK(Logs', rows', seq', pc'[p], req[p], reply[p])
      BY <3>1, <3>2, PullStays
    <3> QED
      BY <3>1, <3>3 DEF PullsOK
  <2> QED
    BY <2>2, <2>3, <2>4 DEF BatchShape
<1> QED
  BY <1>2, <1>3

LEMMA PullsReceive ==
  ASSUME TypeInv, TypeInv', DevicesInv, CursorsInv, StepShape, StoredCursors({}), NEW p \in Handlers,
         ReceiveShape(p)
  PROVE  PullsOK(p)'
<1> DEFINE d == req'[p].device
<1>1. /\ pc[p] = "idle" /\ pc'[p] \in {"lock", "failed"} /\ req'[p] \in Request /\ reply'[p] = reply[p]
      /\ req'[p].kind = "pull" => req'[p].cursor = client[d].cursor
  BY DEF ReceiveShape
<1>2. SUFFICES ASSUME req'[p].kind = "pull" PROVE PullOK(Logs', rows', seq', pc'[p], req'[p], reply'[p])
  BY DEF PullsOK
<1>3. d \in Devices /\ req'[p].cursor = client[d].cursor /\ client[d].cursor \in Nat
  BY <1>1, <1>2, CursorTypes DEF Request
<1>4. reply'[p] = NoReply
  BY <1>1, DeviceHandler DEF DeviceOK
<1>5. CursorOK(rows, seq, d, client[d].cursor)
  BY <1>3 DEF CursorsInv, ClientOK, SavedOK
<1>6. CursorOK(rows', seq', d, req'[p].cursor)
  BY <1>3, <1>5, CursorStays
<1>7. seq \in Nat /\ seq' \in Nat /\ \A y \in Logs' : y.seq \in Nat
  BY LogsGrow, CursorTypes
<1> QED
  BY <1>1, <1>3, <1>4, <1>6, <1>7 DEF PullOK, NoReply

\* The page: what it leaves out below nextCursor is in flight.
LEMMA PullsPage ==
  ASSUME TypeInv, TypeInv', DevicesInv, CursorsInv, StepShape, StoredCursors({}), NEW p \in Handlers, Alone(p),
         PageShape(p)
  PROVE  PullsOK(p)'
<1> DEFINE d == req[p].device
           a == reply'[p]
<1>1. /\ pc[p] = "page" /\ pc'[p] = "commit" /\ req'[p] = req[p] /\ req[p] \in Request
      /\ req[p].kind = "pull" /\ seq' = seq /\ Silent /\ seq \in Nat
      /\ OwnedBy(rows[d], User(p))
      /\ a \in Reply /\ req[p].cursor <= a.next
      /\ a.next = req[p].cursor \/ \E y \in a.page : y.seq = a.next
  BY PageFacts
<1>2. /\ \A x \in a.page : /\ x \in changes /\ x.seq <= a.next /\ x.seq <= seq
                           /\ x.owner = User(p) /\ x.device # d
      /\ \A x \in changes : x.owner = User(p) /\ x.device # d
              /\ x.seq > req[p].cursor /\ x.seq <= a.next => x \in a.page
      /\ \A q \in Handlers : \A x \in tx[q].pend : x.seq \in a.raced
  BY PageFacts
<1>3. d \in Devices /\ User(p) = Owner[d] /\ req[p].cursor \in Nat
  BY <1>1, CursorTypes DEF DevicesInv, DeviceRowsOK, OwnedBy
<1>4. PullOK(Logs, rows, seq, "page", req[p], reply[p])
  BY <1>1 DEF CursorsInv, PullsOK
<1>5. CursorOK(rows', seq', d, req[p].cursor) /\ req[p].cursor <= seq
  BY <1>3, <1>4, CursorStays DEF PullOK, CursorOK
<1> HIDE DEF d, a
<1>6. a.next <= seq'
  BY <1>1, <1>2, <1>5
<1>7. \A x \in a.page : Remote(d, x) /\ x.seq <= a.next
  BY <1>2, <1>3 DEF Remote
<1>8. ASSUME NEW x \in Logs', Remote(d, x), req[p].cursor < x.seq, x.seq <= a.next
      PROVE  x \in a.page \/ x.seq \in a.raced
  <2>1. x \in Logs
    <3>1. x \in Logs \/ x.seq = seq + 1
      BY LogsGrow
    <3>2. a.next \in Nat /\ a.next <= seq
      BY <1>1, <1>6 DEF Reply
    <3> QED
      BY <1>1, <1>8, <3>1, <3>2
  <2>2. CASE x \in changes
    <3>1. x.seq \in Nat
      BY <2>1, CursorTypes
    <3> QED
      BY <1>2, <1>3, <1>8, <2>2, <3>1 DEF Remote
  <2>3. CASE \E q \in Handlers : x \in tx[q].pend
    BY <1>2, <2>3
  <2> QED
    BY <2>1, <2>2, <2>3 DEF Logs
<1>9. PullOK(Logs', rows', seq', "commit", req[p], a)
  BY <1>1, <1>5, <1>6, <1>7, <1>8 DEF PullOK, d
<1> QED
  BY <1>1, <1>9 DEF PullsOK, a

\* A step that moves no cursor.
LEMMA CursorsFrame ==
  ASSUME TypeInv, TypeInv', DevicesInv, IdsInv', CursorsInv, StepShape, StoredCursors({}), client' = client,
         \A p \in Handlers : PullsOK(p)'
  PROVE  CursorsInv'
<1>1. ASSUME NEW d \in Devices PROVE ClientOK(d)'
  <2>1. SavedOK(Logs, rows, seq, d, client[d]) /\ StoredOK(Logs, rows, seq, d, Sent(d), InFlight(d))
    BY DEF CursorsInv, ClientOK
  <2>2. SavedOK(Logs', rows', seq', d, client[d])
    BY <2>1, SavedStays
  <2>3. Sent(d) \subseteq Sent(d)' /\ InFlight(d) \subseteq InFlight(d)'
    BY AllAnswer, AnswersGrow
  <2>4. StoredOK(Logs', rows', seq', d, Sent(d)', InFlight(d)')
    BY <2>1, <2>3, StoredStays
  <2> QED
    BY <2>2, <2>4 DEF ClientOK
<1> QED
  BY <1>1 DEF CursorsInv

\* A pull commits: the stored cursor moves to nextCursor, or is there already.
LEMMA CursorsCommit ==
  ASSUME TypeInv, TypeInv', DevicesInv, IdsInv', CursorsInv, StepShape, NEW p \in Handlers, Alone(p),
         CommitShape(p), req[p].kind = "pull"
  PROVE  CursorsInv'
<1>1. PICK d \in Devices : d = req[p].device
  BY CommitFacts DEF Request
<1> DEFINE a == reply[p]
<1>2. /\ \A e \in Devices : e # d => rows'[e] = rows[e]
      /\ OwnedBy(rows[d], User(p)) /\ OwnedBy(rows'[d], User(p)) /\ rows'[d] = tx[p].ws[d]
      /\ MovedCursor(rows, tx[p], req[p], reply[p])
  BY <1>1, CommitFacts
<1>3. /\ pc[p] = "commit" /\ pc'[p] = "respond" /\ req'[p] = req[p] /\ reply'[p] = a
      /\ client' = client /\ seq' = seq
  BY DEF CommitShape, SameRequest
<1>4. /\ d \in Devices /\ req[p].cursor \in Nat /\ a.next \in Nat /\ rows[d] # Absent /\ rows'[d] # Absent
      /\ rows[d].cursor \in Nat /\ seq \in Nat /\ \A x \in Logs : x.seq \in Nat
  BY <1>2, <1>3, CursorTypes DEF OwnedBy
<1>5. /\ rows'[d].cursor \in {rows[d].cursor, a.next}
      /\ rows[d].cursor <= rows'[d].cursor /\ a.next <= rows'[d].cursor
  BY <1>1, <1>2 DEF MovedCursor
<1>6. StoredCursors({d})
  <2>1. \A e \in Devices : rows[e] # Absent => rows[e].cursor \in Nat
    BY CursorTypes
  <2> QED
    BY <1>2, <1>4, <1>5, <2>1 DEF StoredCursors
<1>7. PullOK(Logs, rows, seq, pc[p], req[p], a)
  BY <1>3 DEF CursorsInv, PullsOK
<1>8. PullsOK(p)'
  <2>1. PullOK(Logs', rows', seq', "respond", req[p], a)
    BY <1>1, <1>3, <1>4, <1>5, <1>6, <1>7, PullStays
  <2> QED
    BY <1>3, <2>1 DEF PullsOK
<1>9. ASSUME NEW q \in Handlers \ {p} PROVE PullsOK(q)'
  BY <1>6, PullsOthers DEF Alone
<1>10. ASSUME NEW e \in Devices
      PROVE  /\ SavedOK(Logs', rows', seq', e, client[e])
             /\ Sent(e) \subseteq Sent(e)' /\ InFlight(e) \subseteq InFlight(e)'
  BY <1>3, <1>6, SavedStays, AllAnswer, AnswersGrow DEF CursorsInv, ClientOK
<1>11. ASSUME NEW e \in Devices, e # d PROVE StoredOK(Logs', rows', seq', e, Sent(e)', InFlight(e)')
  <2>1. StoredOK(Logs, rows, seq, e, Sent(e), InFlight(e))
    BY DEF CursorsInv, ClientOK
  <2> QED
    BY <1>6, <1>10, <1>11, <2>1, StoredStays
<1>12. a.page \subseteq Sent(d)' /\ a.raced \subseteq InFlight(d)'
  <2>1. p \in PullsOf(d)'
    BY <1>1, <1>3 DEF PullsOf
  <2> QED
    BY <1>3, <2>1 DEF Sent, Answered, InFlight
<1>13. StoredOK(Logs, rows, seq, d, Sent(d), InFlight(d))
  BY <1>4 DEF CursorsInv, ClientOK
<1> HIDE DEF a
<1>14. ASSUME NEW x \in Logs', Remote(d, x), x.seq <= rows'[d].cursor
       PROVE  x \in Sent(d)' \/ x.seq \in InFlight(d)'
  <2>1. x \in Logs \/ x.seq = seq + 1
    BY LogsGrow
  <2>2. rows'[d].cursor <= seq
    BY <1>4, <1>5, <1>7, <1>13 DEF PullOK, StoredOK
  <2>3. x \in Logs
    BY <1>4, <1>5, <1>14, <2>1, <2>2
  <2>4. CASE x.seq <= rows[d].cursor
    BY <1>4, <1>10, <1>13, <1>14, <2>3, <2>4 DEF StoredOK
  <2>5. CASE ~(x.seq <= rows[d].cursor)
    <3>1. req[p].cursor <= rows[d].cursor
      BY <1>1, <1>4, <1>7 DEF PullOK, CursorOK
    <3>2. req[p].cursor < x.seq /\ x.seq <= a.next
      BY <1>4, <1>5, <1>14, <2>3, <2>5, <3>1
    <3>3. x \in a.page \/ x.seq \in a.raced
      BY <1>1, <1>7, <1>14, <2>3, <3>2 DEF PullOK
    <3> QED
      BY <1>12, <3>3
  <2> QED
    BY <2>4, <2>5
<1>15. StoredOK(Logs', rows', seq', d, Sent(d)', InFlight(d)')
  BY <1>3, <1>4, <1>5, <1>7, <1>13, <1>14 DEF StoredOK, PullOK
<1>16. ASSUME NEW e \in Devices PROVE ClientOK(e)'
  BY <1>3, <1>10, <1>11, <1>15 DEF ClientOK
<1> QED
  BY <1>8, <1>9, <1>16 DEF CursorsInv

\* The client takes the page and saves nextCursor.
LEMMA CursorsRespond ==
  ASSUME TypeInv, TypeInv', DevicesInv, IdsInv', CursorsInv, StepShape, StoredCursors({}), NEW p \in Handlers, Alone(p),
         RespondShape(p), client' # client
  PROVE  CursorsInv'
<1> DEFINE d == req[p].device
           a == reply[p]
           old == client[d]
           new == [cursor |-> a.next, seen |-> old.seen \cup a.page, raced |-> old.raced \cup a.raced]
<1>1. /\ pc[p] = "respond" /\ pc'[p] = "done" /\ req'[p] = req[p] /\ reply'[p] = a
      /\ old.cursor = req[p].cursor /\ client' = [client EXCEPT ![d] = new]
      /\ UNCHANGED <<rows, changes, seq>> /\ tx'[p] = tx[p]
  BY DEF RespondShape, SameRequest
<1>2. /\ d \in Devices /\ req[p].cursor \in Nat /\ a.next \in Nat /\ client \in [Devices -> ClientState]
      /\ seq \in Nat /\ \A x \in Logs : x.seq \in Nat /\ x.seq <= seq
      /\ rows[d] # Absent => rows[d].cursor \in Nat
  BY <1>1, CursorTypes, ShapeTypes
<1>3. client'[d] = new /\ \A e \in Devices : e # d => client'[e] = client[e]
  BY <1>1, <1>2
<1>4. Logs' = Logs
  <2>1. \A q \in Handlers : tx'[q] = tx[q]
    BY <1>1 DEF Alone
  <2> QED
    BY <1>1, <2>1 DEF Logs
<1>5. req[p].kind = "pull"
  BY <1>1, DeviceHandler DEF DeviceOK
<1>6. PullOK(Logs, rows, seq, "respond", req[p], a)
  BY <1>1, <1>5 DEF CursorsInv, PullsOK
<1>7. SavedOK(Logs, rows, seq, d, old)
  BY <1>2 DEF CursorsInv, ClientOK
<1>8. ASSUME NEW q \in Handlers PROVE PullsOK(q)'
  <2>1. CASE q = p
    BY <2>1, PullsOwn DEF CommitShape, RespondShape
  <2>2. CASE q # p
    BY <2>2, PullsOthers DEF Alone
  <2> QED
    BY <2>1, <2>2
<1>9. new.cursor = a.next /\ new.seen = old.seen \cup a.page /\ new.raced = old.raced \cup a.raced
  OBVIOUS
<1> HIDE DEF new
<1>10. CursorOK(rows, seq, d, new.cursor)
  BY <1>6, <1>9 DEF PullOK, CursorOK
<1>11. ASSUME NEW x \in new.seen PROVE Remote(d, x) /\ x.seq <= new.cursor
  <2>1. CASE x \in a.page
    BY <1>6, <1>9, <2>1 DEF PullOK
  <2>2. CASE x \in old.seen
    <3>1. Remote(d, x) /\ x.seq <= req[p].cursor /\ req[p].cursor <= a.next
      BY <1>1, <1>6, <1>7, <2>2 DEF PullOK, SavedOK
    <3>2. x.seq \in Nat
      BY <1>2, <2>2 DEF ClientState, Change
    <3> QED
      BY <1>2, <1>9, <3>1, <3>2
  <2> QED
    BY <1>9, <2>1, <2>2
<1>12. ASSUME NEW x \in Logs, Remote(d, x), x.seq <= new.cursor PROVE x \in new.seen \/ x.seq \in new.raced
  <2>1. CASE x.seq <= req[p].cursor
    BY <1>1, <1>7, <1>9, <1>12, <2>1 DEF SavedOK
  <2>2. CASE req[p].cursor < x.seq
    BY <1>6, <1>9, <1>12, <2>2 DEF PullOK
  <2> QED
    BY <1>2, <2>1, <2>2
<1>13. SavedOK(Logs, rows, seq, d, new)
  BY <1>10, <1>11, <1>12 DEF SavedOK
<1>14. ASSUME NEW e \in Devices PROVE Sent(e) \subseteq Sent(e)' /\ InFlight(e) \subseteq InFlight(e)'
  <2>1. client[e].seen \subseteq client'[e].seen /\ client[e].raced \subseteq client'[e].raced
    BY <1>3, <1>9
  <2>2. Answered(e) \subseteq Answered(e)'
    <3>1. \A q \in Handlers : pc'[q] # "idle" <=> pc[q] # "idle"
      BY <1>1 DEF Alone
    <3>2. \A q \in Handlers : req'[q] = req[q] /\ reply'[q] = reply[q]
      BY <1>1 DEF Alone
    <3>3. PullsOf(e)' = PullsOf(e)
      BY <3>1, <3>2 DEF PullsOf
    <3> QED
      BY <3>2, <3>3 DEF Answered, PullsOf
  <2>3. UNION {reply[q].raced : q \in PullsOf(e)} \subseteq UNION {reply'[q].raced : q \in PullsOf(e)'}
    <3>1. \A q \in Handlers : pc'[q] # "idle" <=> pc[q] # "idle"
      BY <1>1 DEF Alone
    <3>2. \A q \in Handlers : req'[q] = req[q] /\ reply'[q] = reply[q]
      BY <1>1 DEF Alone
    <3>3. PullsOf(e)' = PullsOf(e)
      BY <3>1, <3>2 DEF PullsOf
    <3> QED
      BY <3>2, <3>3 DEF PullsOf
  <2> QED
    BY <2>1, <2>2, <2>3 DEF Sent, InFlight
<1>15. ASSUME NEW e \in Devices PROVE ClientOK(e)'
  <2>1. SavedOK(Logs, rows, seq, e, client[e]) /\ StoredOK(Logs, rows, seq, e, Sent(e), InFlight(e))
    BY DEF CursorsInv, ClientOK
  <2>2. StoredOK(Logs', rows', seq', e, Sent(e)', InFlight(e)')
    BY <1>14, <2>1, StoredStays
  <2>3. SavedOK(Logs', rows', seq', e, client'[e])
    BY <1>1, <1>3, <1>4, <1>13, <2>1
  <2> QED
    BY <2>2, <2>3 DEF ClientOK
<1> QED
  BY <1>8, <1>15 DEF CursorsInv

LEMMA CursorsStep ==
  ASSUME TypeInv, TypeInv', DevicesInv, IdsInv', CursorsInv, StepShape
  PROVE  CursorsInv'
<1>1. ASSUME NEW p \in Handlers, Alone(p), BatchShape(p) \/ RequestShape(p) PROVE CursorsInv'
  <2>1. CASE CommitShape(p) /\ req[p].kind = "pull"
    BY <1>1, <2>1, CursorsCommit
  <2>2. CASE ~(CommitShape(p) /\ req[p].kind = "pull")
    <3>1. StoredCursors({})
      BY <1>1, <2>2, StoredStay
    <3>2. PullsOK(p)'
      BY <1>1, <2>2, <3>1, PullsOwn, PullsReceive, PullsPage DEF RequestShape
    <3>3. ASSUME NEW q \in Handlers \ {p} PROVE PullsOK(q)'
      BY <1>1, <3>1, PullsOthers DEF Alone
    <3>4. CASE client' = client
      BY <3>1, <3>2, <3>3, <3>4, CursorsFrame
    <3>5. CASE client' # client
      <4>1. RespondShape(p)
        BY <1>1, <3>5 DEF BatchShape, RequestShape, OperationShape, LockShape, RetryShape, QuietShape,
             AcceptShape, RejectShape, FlushShape, RejectBatchShape, FailShape, ReceiveShape, PublishShape,
             PageShape, CommitShape, UnknownShape, Silent
      <4> QED
        BY <1>1, <3>1, <3>5, <4>1, CursorsRespond
    <3> QED
      BY <3>4, <3>5
  <2> QED
    BY <2>1, <2>2
<1>2. ASSUME (\E d \in Devices : DeviceShape(d)) \/ Still PROVE CursorsInv'
  <2>1. UNCHANGED <<client, pc, req, reply, changes, seq, tx>>
    BY <1>2 DEF DeviceShape, Still
  <2>2. StoredCursors({})
    BY <1>2, StoredStay
  <2>3. ASSUME NEW p \in Handlers PROVE PullsOK(p)'
    BY <2>1, <2>2, PullsOthers
  <2> QED
    BY <2>1, <2>2, <2>3, CursorsFrame
<1> QED
  BY <1>1, <1>2 DEF StepShape

-----------------------------------------------------------------------------
(* UpdatesAvailable between its statements.                                *)

\* The cursor it has read is the stored one, or an older one.
CheckOK(d) == check[d] # None => rows[d] # Absent /\ check[d] <= rows[d].cursor
CheckInv == \A d \in Devices : CheckOK(d)

LEMMA CheckStays ==
  ASSUME [Next]_vars
  PROVE  CheckStep \/ check' = check
<1>1. ASSUME NEW p \in Handlers, HandlerStep(p) PROVE check' = check
  <2>1. CASE \/ LockDevice(p) \/ FindProcessed(p) \/ RetryOp(p) \/ RejectMalformed(p) \/ RejectExisting(p)
             \/ FlushBatch(p) \/ RejectBatch(p) \/ Commit(p) \/ Publish(p) \/ PullPage(p) \/ Respond(p)
    BY <2>1 DEF LockDevice, FindProcessed, RetryOp, RejectMalformed, RejectExisting, FlushBatch, RejectBatch,
                Commit, Publish, PullPage, Respond, RejectOp, FailRequest, world
  <2>2. CASE CreateNote(p) \/ DeleteNote(p) \/ DeleteNoteLookup(p) \/ ModifyNoteProperty(p) \/ ModifyNoteTitle(p)
    BY <2>2 DEF CreateNote, DeleteNote, DeleteNoteLookup, ModifyNoteProperty, ModifyNoteTitle,
                AcceptEdit, AcceptOp, RejectOp, world
  <2>3. CASE CreateBlock(p) \/ DeleteBlock(p) \/ ModifyBlock(p)
    BY <2>3 DEF CreateBlock, DeleteBlock, ModifyBlock, AcceptOp, RejectOp, world
  <2>4. CASE CreateCategory(p) \/ RejectCategory(p) \/ DeleteCategory(p) \/ ModifyCategory(p)
    BY <2>4 DEF CreateCategory, RejectCategory, DeleteCategory, ModifyCategory, AcceptOp, RejectOp,
                FailRequest, world
  <2> QED
    BY <1>1, <2>1, <2>2, <2>3, <2>4 DEF HandlerStep
<1>2. ASSUME NEW p \in Handlers, Abort(p) \/ CommitUnknown(p) \/ \E r \in Requests : Receive(p, r)
      PROVE  check' = check
  BY <1>2 DEF Abort, FailRequest, CommitUnknown, Receive, world
<1>3. ASSUME NEW d, RegisterDevice(d) \/ RevokeDevice(d) PROVE check' = check
  BY <1>3 DEF RegisterDevice, RevokeDevice, world
<1> QED
  BY <1>1, <1>2, <1>3 DEF Next, CheckStep, vars

\* Stored cursors only grow.
LEMMA StoredGrow ==
  ASSUME TypeInv, DevicesInv, StepShape, NEW d \in Devices, rows[d] # Absent
  PROVE  rows'[d] # Absent /\ rows[d].cursor <= rows'[d].cursor
<1>1. ASSUME NEW p \in Handlers, CommitShape(p), req[p].kind = "pull"
      PROVE  rows'[d] # Absent /\ rows[d].cursor <= rows'[d].cursor
  <2>1. CASE d # req[p].device
    BY <1>1, <2>1, CommitFacts, CursorTypes
  <2>2. CASE d = req[p].device
    BY <1>1, <2>2, CommitFacts DEF MovedCursor, OwnedBy
  <2> QED
    BY <2>1, <2>2
<1>2. CASE StoredCursors({})
  BY <1>2 DEF StoredCursors
<1> QED
  BY <1>1, <1>2, StoredStay DEF StepShape

LEMMA CheckInvStep ==
  ASSUME TypeInv, TypeInv', DevicesInv, CheckInv, StepShape, [Next]_vars
  PROVE  CheckInv'
<1>1. SUFFICES ASSUME NEW d \in Devices PROVE CheckOK(d)'
  BY DEF CheckInv
<1>2. CASE check' = check
  <2>1. SUFFICES ASSUME check[d] # None PROVE rows'[d] # Absent /\ check[d] <= rows'[d].cursor
    BY <1>2 DEF CheckOK
  <2>2. rows[d] # Absent /\ check[d] <= rows[d].cursor
    BY <2>1 DEF CheckInv, CheckOK
  <2>3. rows'[d] # Absent /\ rows[d].cursor <= rows'[d].cursor
    BY <2>2, StoredGrow
  <2>4. check[d] \in Nat /\ rows[d].cursor \in Nat /\ rows'[d].cursor \in Nat
    BY <2>1, <2>2, <2>3, CursorTypes DEF TypeInv, StoreInv, TypedRow, DeviceRow, Keys
  <2> QED
    BY <2>2, <2>3, <2>4
<1>3. CASE CheckStep
  <2>1. PICK e \in Checking : UpdatesAvailableDevice(e) \/ UpdatesAvailableChanges(e)
    BY <1>3 DEF CheckStep
  <2>2. rows' = rows /\ e \in Devices /\ check \in [Devices -> Nat \cup {None}]
    BY <1>3, CheckStepLeaves, OwnerAssumption DEF TypeInv, StoreInv
  <2>3. CASE d # e
    BY <2>1, <2>2, <2>3 DEF UpdatesAvailableDevice, UpdatesAvailableChanges, CheckInv, CheckOK
  <2>4. CASE d = e
    BY <2>1, <2>2, <2>4, CursorTypes DEF UpdatesAvailableDevice, UpdatesAvailableChanges, CheckOK
  <2> QED
    BY <2>3, <2>4
<1> QED
  BY <1>2, <1>3, CheckStays

-----------------------------------------------------------------------------
(* The inductive invariant, and what follows from it.                      *)

SyncInv == DevicesInv /\ IdsInv /\ HintsInv /\ OwnersInv /\ CursorsInv /\ CheckInv

LEMMA InitSync == Init => SyncInv
<1>1. SUFFICES ASSUME Init PROVE SyncInv
  OBVIOUS
<1>2. /\ changes = {} /\ hints = {} /\ seq = 0
      /\ \A p \in Handlers : tx[p] = EmptyTx /\ save[p] = EmptyTx /\ pc[p] = "idle" /\ reply[p] = NoReply
      /\ \A d \in Devices : client[d] = [cursor |-> 0, seen |-> {}, raced |-> {}]
  BY <1>1 DEF Init
<1>3. ASSUME NEW d \in Devices, rows[d] # Absent PROVE rows[d].owner = Owner[d] /\ rows[d].cursor = 0
  <2>1. rows[d] = [owner |-> Owner[d], revoked |-> FALSE, cursor |-> 0]
    BY <1>1, <1>3 DEF Init, Keys
  <2> QED
    BY <2>1
<1>4. Logs = {}
  BY <1>2, EmptyTxFacts DEF Logs
<1>5. DevicesInv
  <2>1. DevicesExclusive
    BY <1>2, EmptyTxFacts DEF DevicesExclusive
  <2>2. DeviceRowsOK
    <3>1. \A d \in Devices : rows[d] # Absent => rows[d].owner = Owner[d]
      BY <1>3
    <3>2. IsFiniteSet(changes)
      BY <1>2, FS_EmptySet
    <3> QED
      BY <1>2, <3>1, <3>2 DEF DeviceRowsOK
  <2>3. ASSUME NEW p \in Handlers PROVE DevicesOK(p)
    BY <1>2, EmptyTxFacts, FS_EmptySet DEF DevicesOK, DeviceOK, Working, PushWork
  <2> QED
    BY <2>1, <2>2, <2>3 DEF DevicesInv
<1>6. IdsInv
  BY <1>2, <1>4 DEF IdsInv, DistinctLogs, IdsOK, IdOK
<1>7. HintsInv
  BY <1>2 DEF HintsInv, HintsCommitted, HintsOK, HintOK, PushWork, InBatch
<1>8. OwnersInv
  BY <1>2 DEF OwnersInv, NotesOwned, OwnersOK, OwnerOK, Working, InBatch
<1>9. CursorsInv
  <2>1. ASSUME NEW d \in Devices PROVE ClientOK(d)
    <3>1. client[d].cursor = 0 /\ client[d].seen = {} /\ (rows[d] # Absent => rows[d].cursor = 0)
      BY <1>2, <1>3
    <3> QED
      BY <1>2, <1>4, <3>1 DEF ClientOK, SavedOK, StoredOK, CursorOK
  <2> QED
    BY <1>2, <2>1 DEF CursorsInv, PullsOK
<1>10. CheckInv
  BY <1>1 DEF Init, CheckInv, CheckOK
<1> QED
  BY <1>5, <1>6, <1>7, <1>8, <1>9, <1>10 DEF SyncInv

LEMMA SyncShape ==
  ASSUME TypeInv, ChainInv, SyncInv, [Next]_vars
  PROVE  StepShape
<1>1. \A p \in Handlers : BatchOwned(p)
  BY OwnersGiveBatch DEF SyncInv
<1> QED
  BY <1>1, StepShapes

LEMMA NextSync ==
  ASSUME TypeInv, DeviceInv, ChainInv, SyncInv, [Next]_vars
  PROVE  SyncInv'
<1>1. StepShape /\ TypeInv'
  BY SyncShape, NextType
<1>2. DevicesInv'
  BY <1>1, DevicesStep DEF SyncInv
<1>3. IdsInv'
  BY <1>1, IdsStep DEF SyncInv
<1>4. HintsInv'
  BY <1>1, HintsStep DEF SyncInv
<1>5. OwnersInv'
  BY <1>1, OwnersStep DEF SyncInv
<1>6. CursorsInv'
  BY <1>1, <1>3, CursorsStep DEF SyncInv
<1>7. CheckInv'
  BY <1>1, CheckInvStep DEF SyncInv
<1> QED
  BY <1>2, <1>3, <1>4, <1>5, <1>6, <1>7 DEF SyncInv

LEMMA SyncIsInvariant == Spec => [](TypeInv /\ ChainInv /\ SyncInv)
<1>1. Init => TypeInv /\ DeviceInv /\ ChainInv /\ SyncInv
  BY InitType, InitChain, InitSync
<1>2. TypeInv /\ DeviceInv /\ ChainInv /\ SyncInv /\ [Next]_vars
        => (TypeInv /\ DeviceInv /\ ChainInv /\ SyncInv)'
  BY NextType, DeviceInvStep, NextChain, NextSync
<1> QED
  BY <1>1, <1>2, PTL DEF Spec

\* Whatever is retried, and however concurrently, an operation of a device has one
\* change row: FindProcessedOperation runs under the lock on the device row, and
\* every change row gets a sequence of its own.
THEOREM AtMostOnceCorrect == Spec => []AtMostOnce
<1>1. SyncInv => AtMostOnce
  BY DEF SyncInv, IdsInv, DistinctLogs, Logs, AtMostOnce
<1> QED
  BY <1>1, SyncIsInvariant, PTL

\* An operation that is committed is never applied again, and never answered as
\* the one that failed: nobody else can commit for a device between the lookup of
\* its operation and the end of the transaction.
THEOREM RetryNotRejectedCorrect == Spec => []RetryNotRejected
<1>1. SyncInv => RetryNotRejected
  BY DEF SyncInv, IdsInv, IdsOK, IdOK, Fresh, RetryNotRejected, Op
<1> QED
  BY <1>1, SyncIsInvariant, PTL

\* A revoked device commits nothing more: a push holds the device row from the
\* revocation check to its COMMIT (GetDeviceForOwnerForUpdate), and RevokeDevice
\* waits for it.
THEOREM RevokedDeviceSilentCorrect == Spec => RevokedDeviceSilent
<1>1. TypeInv /\ ChainInv /\ SyncInv /\ [Next]_vars
        => [\A c \in changes' \ changes : ~rows[c.device].revoked]_vars
  <2>1. SUFFICES ASSUME TypeInv, ChainInv, SyncInv, [Next]_vars, NEW c \in changes' \ changes
                 PROVE  ~rows[c.device].revoked
    OBVIOUS
  <2>2. PICK p \in Handlers : CommitShape(p)
    BY <2>1, SyncShape DEF StepShape, BatchShape, RequestShape, OperationShape, LockShape, RetryShape,
       QuietShape, AcceptShape, RejectShape, FlushShape, RejectBatchShape, FailShape, ReceiveShape,
       PublishShape, PageShape, RespondShape, UnknownShape, DeviceShape, Silent, Still
  <2>3. DevicesInv
    BY <2>1 DEF SyncInv
  <2>4. /\ ~rows[req[p].device].revoked /\ changes' = changes \cup tx[p].pend
        /\ \A x \in tx[p].pend : x.device = req[p].device
    BY <2>1, <2>2, <2>3, CommitFacts
  <2> QED
    BY <2>1, <2>4
<1> QED
  BY <1>1, SyncIsInvariant, PTL DEF RevokedDeviceSilent, Spec

\* A hint is of a change that is committed, by the device it names as its origin:
\* the cursor it carries is the highest sequence of an accepted batch, and those
\* were pending in the transaction that has committed.
THEOREM HintsCommittedCorrect == Spec => []HintsCommitted
<1>1. SyncInv => HintsCommitted
  BY DEF SyncInv, HintsInv
<1> QED
  BY <1>1, SyncIsInvariant, PTL

\* Users do not reach each other's notes: every change of a note is its owner's,
\* through one of the owner's devices, and a device receives only the changes of
\* its user, never its own.
THEOREM OwnerIsolationCorrect == Spec => []OwnerIsolation
<1>1. TypeInv /\ SyncInv => OwnerIsolation
  <2>1. SUFFICES ASSUME TypeInv, SyncInv PROVE OwnerIsolation
    OBVIOUS
  <2>2. \A c \in changes : c.note \in Notes => rows[c.note].owner = c.owner
    BY <2>1 DEF SyncInv, OwnersInv, NotesOwned, OwnedBy
  <2>3. \A c \in changes : rows[c.device].owner = c.owner
    BY <2>1 DEF SyncInv, DevicesInv, DeviceRowsOK, OwnedBy
  <2>4. \A d \in Devices : \A c \in client[d].seen : c.owner = Owner[d] /\ c.device # d
    BY <2>1 DEF SyncInv, CursorsInv, ClientOK, SavedOK, Remote
  <2> QED
    BY <2>2, <2>3, <2>4 DEF OwnerIsolation
<1> QED
  BY <1>1, SyncIsInvariant, PTL

\* A client misses a change it has passed only if the change was handed its
\* sequence and not committed when a page was read: pages, their limit, nextCursor,
\* late answers and lost ones never skip a change that was there.
THEOREM SkippedOnlyInFlightCorrect == Spec => []SkippedOnlyInFlight
<1>1. SyncInv => SkippedOnlyInFlight
  <2>1. SUFFICES ASSUME SyncInv, NEW d \in Devices, NEW c \in changes,
                        c.owner = Owner[d], c.device # d, c.seq <= client[d].cursor
                 PROVE  c \in client[d].seen \/ c.seq \in client[d].raced
    BY DEF SkippedOnlyInFlight
  <2>2. c \in Logs /\ Remote(d, c) /\ SavedOK(Logs, rows, seq, d, client[d])
    BY <2>1 DEF Logs, Remote, SyncInv, CursorsInv, ClientOK
  <2> QED
    BY <2>1, <2>2 DEF SavedOK
<1> QED
  BY <1>1, SyncIsInvariant, PTL

\* UpdatesAvailable announces only what a pull returns, unless a pull of the same
\* device was saved between its statements: the stored cursor is never behind the
\* one the client has saved (UpdateDeviceCursor's GREATEST, and a page is answered
\* after its cursor is committed), so a cursor that is still the stored one is not
\* behind it either.
THEOREM UpdatesArePullableCorrect == Spec => []UpdatesArePullable
<1>1. TypeInv /\ SyncInv => UpdatesArePullable
  <2>1. SUFFICES ASSUME TypeInv, SyncInv, NEW d \in Devices, check[d] # None, UpdatesAvailable(d),
                        ~(rows[d].cursor > check[d])
                 PROVE  \E c \in changes \ client[d].seen : c.seq > client[d].cursor /\ c.device # d
    BY DEF UpdatesArePullable
  <2>2. PICK c \in changes : c.seq > check[d] /\ c.device # d
    BY <2>1 DEF UpdatesAvailable, HasChangesAfterCursor
  <2>3. SavedOK(Logs, rows, seq, d, client[d]) /\ rows[d] # Absent /\ check[d] <= rows[d].cursor
    BY <2>1 DEF SyncInv, CursorsInv, ClientOK, CheckInv, CheckOK
  <2>4. client[d].cursor <= rows[d].cursor /\ \A x \in client[d].seen : x.seq <= client[d].cursor
    BY <2>3 DEF SavedOK, CursorOK
  <2>5. /\ c.seq \in Nat /\ client[d].cursor \in Nat /\ rows[d].cursor \in Nat
        /\ check[d] \in Nat
    BY <2>1, <2>3, CursorTypes DEF Logs, TypeInv, StoreInv
  <2>6. check[d] = rows[d].cursor
    BY <2>1, <2>3, <2>5
  <2> QED
    BY <2>2, <2>4, <2>5, <2>6
<1> QED
  BY <1>1, SyncIsInvariant, PTL

\* UpdatesAvailable says no while the client lacks a change only if that change is
\* in an answer of a pull (which may be lost), or was in flight when a page was
\* read: the cursor it has read is never ahead of the stored one.
THEOREM UpdatesHiddenOnlyByLossCorrect == Spec => []UpdatesHiddenOnlyByLoss
<1>1. TypeInv /\ SyncInv => UpdatesHiddenOnlyByLoss
  <2>1. SUFFICES ASSUME TypeInv, SyncInv, NEW d \in Devices, check[d] # None,
                        ~UpdatesAvailable(d), NEW c \in changes, c.owner = Owner[d], c.device # d
                 PROVE  c \in client[d].seen \cup Answered(d) \/ c.seq \in InFlight(d)
    BY DEF UpdatesHiddenOnlyByLoss
  <2>2. rows[d] # Absent /\ check[d] <= rows[d].cursor /\ rows[d].owner = Owner[d]
    BY <2>1 DEF SyncInv, CheckInv, CheckOK, DevicesInv, DeviceRowsOK
  <2>3. ~(c.seq > check[d])
    BY <2>1, <2>2 DEF UpdatesAvailable, HasChangesAfterCursor
  <2>4. c \in Logs /\ Remote(d, c) /\ StoredOK(Logs, rows, seq, d, Sent(d), InFlight(d))
    BY <2>1 DEF Logs, Remote, SyncInv, CursorsInv, ClientOK
  <2>5. c.seq \in Nat /\ check[d] \in Nat /\ rows[d].cursor \in Nat
    BY <2>1, <2>2, <2>4, CursorTypes DEF TypeInv, StoreInv
  <2>6. c.seq <= rows[d].cursor
    BY <2>2, <2>3, <2>5
  <2> QED
    BY <2>2, <2>4, <2>6 DEF StoredOK, Sent
<1> QED
  BY <1>1, SyncIsInvariant, PTL
=============================================================================
