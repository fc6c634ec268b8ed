------------------------------ MODULE NoteStore ------------------------------
(***************************************************************************)
(* The persistence layer of the sync service: the tables it reads and      *)
(* writes, one PostgreSQL transaction per request handler, its row locks,  *)
(* its savepoint, and the queries of internal/store.                       *)
(*                                                                         *)
(* Isolation is READ COMMITTED (WithTx opens transactions with the default *)
(* options): a statement sees what is committed when it runs, plus the     *)
(* writes of its own transaction.  SELECT ... FOR UPDATE and UPDATE wait   *)
(* for the holder of a row that they can see; a row another transaction    *)
(* has inserted and not committed is invisible to them, and only an INSERT *)
(* of the same key waits for it.                                           *)
(***************************************************************************)
EXTENDS TextDelta, FiniteSetsExt

CONSTANTS
  Users,                    \* owner ids
  Devices,                  \* sync_devices keys
  Notes,                    \* note keys: numbers, because handlers sort by them
  Blocks,                   \* note_blocks keys
  Categories,               \* categories keys
  Names,                    \* category names
  OpIds,                    \* client operation ids
  Runes,                    \* the alphabet of titles and block texts
  Props,                    \* values of the JSON properties columns
  Handlers,                 \* HTTP requests: each is served by one goroutine
  NilNote,                  \* uuid.Nil, the note id of category operations
  Absent,                   \* no such row, or not written by a transaction
  None,                     \* an omitted optional field
  SnapshotChangeThreshold,  \* 0 switches the threshold off
  SnapshotByteThreshold     \* 0 switches the threshold off

VARIABLES
  rows,       \* committed devices, notes, blocks and categories
  changes,    \* committed note_changes rows
  seq,        \* last value the global_sequence identity column handed out
  outbox,     \* committed create_snapshot jobs
  snapshots,  \* committed note_snapshots, as (note, version) pairs
  tx,         \* each handler's open transaction
  save        \* the same at its savepoint

store == <<rows, changes, seq, outbox, snapshots, tx, save>>

Keys == Devices \cup Notes \cup Blocks \cup Categories

NoteRow  == [owner : Users, version : Nat, deleted : BOOLEAN,
             title : Seq(Runes), props : Props]
BlockRow == [note : Notes, deleted : BOOLEAN, text : Seq(Runes), props : Props]
DeviceRow == [owner : Users, revoked : BOOLEAN, cursor : Nat]
CategoryRow == [owner : Users, name : Names, deleted : BOOLEAN]
Row == NoteRow \cup BlockRow \cup DeviceRow \cup CategoryRow

CategoryTypes == {"create_category", "delete_category", "modify_category"}
EditTypes == {"modify_note_property", "modify_note_title",
              "create_block", "delete_block", "modify_block"}
OpTypes == CategoryTypes \cup EditTypes \cup {"create_note", "delete_note"}

(* A client operation.  `known` is FALSE for an operation type or a change *)
(* format the server does not support.  The rest of its changeData is      *)
(* decoded into fields that are None where the client left them out: `key` *)
(* is the block or category it names, `blocks` the initial blocks of       *)
(* create_note (which take the note's text and properties), `size` the     *)
(* bytes of its changeData.                                                *)
Operation == [id : OpIds, note : Notes \cup {NilNote}, seq : Int, base : Int,
              type : OpTypes, known : BOOLEAN,
              key : Blocks \cup Categories \cup {None}, blocks : SUBSET Blocks,
              name : Names \cup {None}, text : Seq(Runes), props : Props \cup {None},
              delta : TextDeltas(Runes) \cup {None}, size : Nat]

(* A note_changes row.  `by` is not a column: it names the request that    *)
(* wrote the row, so that properties can tell batches apart.               *)
Change == [seq : Nat, owner : Users, device : Devices, note : Notes \cup {NilNote},
           base : Nat, result : Nat, op : Operation, by : Handlers]

Job == [note : Notes, owner : Users, version : Nat]

(* What a transaction holds: its uncommitted row versions (Absent where it *)
(* wrote nothing), change rows and jobs, and the rows it has locked.       *)
TxState == [ws : [Keys -> Row \cup {Absent}],
            pend : SUBSET Change, jobs : SUBSET Job, held : SUBSET Keys]

EmptyTx == [ws |-> [k \in Keys |-> Absent], pend |-> {}, jobs |-> {}, held |-> {}]

ASSUME KeysAssumption ==
  /\ Notes \subseteq Nat
  /\ NilNote \notin Notes
  /\ Notes \cap (Devices \cup Blocks \cup Categories) = {}
  /\ Devices \cap (Blocks \cup Categories) = {}
  /\ Blocks \cap Categories = {}
ASSUME AbsentAssumption == Absent \notin Row
ASSUME NoneAssumption == None \notin Names \cup Props \cup Blocks \cup Categories \cup TextDeltas(Runes)
ASSUME ThresholdAssumption ==
  SnapshotChangeThreshold \in Nat /\ SnapshotByteThreshold \in Nat

-----------------------------------------------------------------------------
(* Row visibility and locks. *)

\* The version of row k that a statement of p's transaction sees.
Visible(p, k) == IF tx[p].ws[k] # Absent THEN tx[p].ws[k] ELSE rows[k]

\* Mutant: the owner condition is forgotten.
OwnedByAnyone(row, user) == row # Absent

\* Every owner-scoped query has AND owner_id = $2.
OwnedBy(row, user) == row # Absent /\ row.owner = user

\* No other transaction holds row k, or has inserted it without committing.
Free(p, k) == \A q \in Handlers \ {p} : k \notin tx[q].held

Write(t, k, row) == [t EXCEPT !.ws = [@ EXCEPT ![k] = row], !.held = @ \cup {k}]

\* GetDeviceForOwnerForUpdate and LockCategoryForOwner wait for the holder of the
\* row.  Mutant: they are plain SELECTs.
ReadUnlocked(p, k) == TRUE
RowGranted(p, k) == Free(p, k)

\* UpdateDeviceCursor's GREATEST.
AdvancedCursor(old, new) == Max({old, new})

Lock(t, k) == [t EXCEPT !.held = @ \cup {k}]

-----------------------------------------------------------------------------
(* Queries. *)

\* GetNoteForOwnerForUpdate: the row, or Absent for ErrNotFound.
NoteForOwner(p, n, user) ==
  IF OwnedBy(Visible(p, n), user) THEN Visible(p, n) ELSE Absent

\* The same query waits while another transaction holds the row it found.
NoteGranted(p, n, user) == OwnedBy(Visible(p, n), user) => Free(p, n)

\* GetBlockForNoteForUpdate and the WHERE clause of DeleteBlock.
BlockForNote(p, b, n) ==
  IF Visible(p, b) # Absent /\ Visible(p, b).note = n THEN Visible(p, b) ELSE Absent

\* The change rows a statement of p's transaction sees.
VisibleChanges(p) == changes \cup tx[p].pend

\* Mutant: the lookup sees only the rows of its own transaction.
ProcessedHere(p, device, id) ==
  \E c \in tx[p].pend : c.device = device /\ c.op.id = id

\* FindProcessedOperation: the idempotency lookup by (device_id, client_operation_id).
Processed(p, device, id) ==
  \E c \in VisibleChanges(p) : c.device = device /\ c.op.id = id

\* Mutant: MIN for MAX.
FirstAppliedCursor(p, n) ==
  Min({c.seq : c \in {d \in VisibleChanges(p) : d.note = n}})

\* GetLastAppliedCursorForNote.
LastAppliedCursor(p, n) ==
  Max({0} \cup {c.seq : c \in {d \in VisibleChanges(p) : d.note = n}})

\* COALESCE(MAX(version), 0) over a note's snapshots.
LastSnapshotVersion(n) == Max({0} \cup {s[2] : s \in {t \in snapshots : t[1] = n}})

UnsnapshottedChanges(p, n) ==
  {c \in VisibleChanges(p) : c.note = n /\ c.result > LastSnapshotVersion(n)}

\* Mutant: a note exactly at its threshold is not due.
SnapshotOverdue(p, n) ==
  LET due == UnsnapshottedChanges(p, n) IN
    \/ SnapshotChangeThreshold > 0 /\ Cardinality(due) > SnapshotChangeThreshold
    \/ SnapshotByteThreshold > 0
         /\ MapThenSumSet(LAMBDA c : c.op.size, due) > SnapshotByteThreshold

\* CountChangesSinceLastSnapshot and SumChangeBytesSinceLastSnapshot against
\* the configured thresholds.
SnapshotDue(p, n) ==
  LET due == UnsnapshottedChanges(p, n) IN
    \/ SnapshotChangeThreshold > 0 /\ Cardinality(due) >= SnapshotChangeThreshold
    \/ SnapshotByteThreshold > 0
         /\ MapThenSumSet(LAMBDA c : c.op.size, due) >= SnapshotByteThreshold

\* GetChangesAfterCursor without its LIMIT.
RemoteChanges(p, user, device, cursor) ==
  {c \in VisibleChanges(p) : c.owner = user /\ c.seq > cursor /\ c.device # device}

\* ORDER BY global_sequence LIMIT k.
FirstBySequence(S, k) == {c \in S : Cardinality({d \in S : d.seq < c.seq}) < k}

\* UNIQUE (owner_id, name) also counts tombstoned categories.
CategoryNamed(row, user, name) == OwnedBy(row, user) /\ row.name = name

\* The uncommitted writes of q take the name (user, name) or give it up.
NamePending(q, user, name) ==
  \E c \in Categories :
    /\ tx[q].ws[c] # Absent
    /\ CategoryNamed(rows[c], user, name) \/ CategoryNamed(tx[q].ws[c], user, name)

\* A write of that name waits for every such transaction.
NameSettled(p, user, name) == \A q \in Handlers \ {p} : ~NamePending(q, user, name)

NameTaken(p, user, name, except) ==
  \E c \in Categories \ except : CategoryNamed(Visible(p, c), user, name)

-----------------------------------------------------------------------------
(* Ends of a transaction. *)

\* COMMIT: row versions, change rows and jobs become visible together, and the
\* locks go.
CommitTx(p) ==
  /\ rows' = [k \in Keys |-> Visible(p, k)]
  /\ changes' = changes \cup tx[p].pend
  /\ outbox' = outbox \cup tx[p].jobs
  /\ tx' = [tx EXCEPT ![p] = EmptyTx]
  /\ UNCHANGED <<seq, snapshots, save>>

\* ROLLBACK.  The identity column never takes a value back.
RollbackTx(p) ==
  /\ tx' = [tx EXCEPT ![p] = EmptyTx]
  /\ UNCHANGED <<rows, changes, seq, outbox, snapshots, save>>

\* Mutant: the rejected batch is not rolled back.
KeepRejectedWrites(p) == UNCHANGED store

\* ROLLBACK TO SAVEPOINT also releases the locks taken since the savepoint.
RollbackToSavepoint(p) ==
  /\ tx' = [tx EXCEPT ![p] = save[p]]
  /\ UNCHANGED <<rows, changes, seq, outbox, snapshots, save>>
=============================================================================
