------------------------------- MODULE NoteSync -------------------------------
(***************************************************************************)
(* The sync service: push (POST /v1/sync), pull (GET /v1/sync) and device  *)
(* registration and revocation, as concurrent handlers over NoteStore.     *)
(*                                                                         *)
(* A handler serves one request.  Its program counter is                   *)
(*    idle -> lock -> find <-> apply -> flush -> ... -> commit -> publish  *)
(*    -> done      for a push (a rejected batch goes through "rejected"),  *)
(*    idle -> lock -> page -> commit -> respond -> done         for a pull,*)
(* and "failed" once the request has returned an error.  A step is a stretch*)
(* of code between two points where another handler can interfere: a lock  *)
(* wait, or a statement whose result depends on what others committed.     *)
(***************************************************************************)
EXTENDS NoteStore

CONSTANTS
  Requests,       \* the requests clients may send
  Owner,          \* the user who registers each device
  Enrolled,       \* devices that are registered before the first step
  Revocable,      \* devices their users may revoke
  Checking,       \* devices that ask whether there are updates
  MaxOperations,  \* cfg.MaxSyncOperations
  PullLimit       \* the page size: min(defaultPullLimit, maxPullLimit)

VARIABLES
  pc,       \* each handler's program counter
  req,      \* the request it serves
  todo,     \* operations it has still to apply, in apply order
  batch,    \* its noteBatchState
  failure,  \* why the current batch, or the request, was refused
  reply,    \* the response it has built
  hints,    \* sync_available events published
  client,   \* per device: saved cursor, changes applied (external)
  check     \* per device: the cursor an UpdatesAvailable under way has read

handler == <<pc, req, todo, batch, failure, reply>>
world   == <<hints, client, check>>
vars    == <<rows, changes, seq, outbox, snapshots, tx, save,
             pc, req, todo, batch, failure, reply, hints, client, check>>

\* `valid` is FALSE when the protocol version, the device id or the cursor the
\* client sent is refused before the request reaches the store.
Request == [kind : {"push", "pull"}, valid : BOOLEAN, user : Users, device : Devices,
            ops : Seq(Operation), cursor : Nat]

PCs == {"idle", "lock", "find", "apply", "lookup", "flush", "rejected",
        "page", "commit", "publish", "respond", "done", "failed"}

\* The handler has an open transaction.
InTx == {"lock", "find", "apply", "lookup", "flush", "rejected", "page", "commit"}

(* noteBatchState: the batch's note, the cached note row (Absent when it was looked for and  *)
(* not found), the cached block rows, the ones still to be written, whether*)
(* an operation was newly applied, and the highest sequence it got.  The   *)
(* code's missingBlocks is not kept: a missing block rejects the batch.    *)
BatchState == [id : Notes \cup {NilNote}, loaded : BOOLEAN, note : NoteRow \cup {Absent},
               blocks : [Blocks -> BlockRow \cup {Absent}],
               dirty : SUBSET Blocks, changed : BOOLEAN, cursor : Nat]

NewBatch(n) == [id |-> n, loaded |-> FALSE, note |-> Absent, blocks |-> [b \in Blocks |-> Absent],
             dirty |-> {}, changed |-> FALSE, cursor |-> 0]

Accepted == [note : Notes \cup {NilNote}, version : Nat, seq : Nat]
\* `snapshot` is the version of the NoteSnapshot returned with the rejection.  `id`
\* is not part of the response: the operation that was refused.
Rejected == [note : Notes \cup {NilNote}, id : OpIds, reason : {"invalid", "not_found", "conflict"},
             version : Nat, snapshot : Nat \cup {None}, cursor : Nat]
\* `raced` is not part of a response: the sequences that were handed out and
\* not committed when the page was read.
Reply == [accepted : SUBSET Accepted, rejected : SUBSET Rejected,
          page : SUBSET Change, next : Nat, raced : SUBSET Nat]
NoReply == [accepted |-> {}, rejected |-> {}, page |-> {}, next |-> 0, raced |-> {}]

Failure == [id : OpIds \cup {None}, version : Nat,
            reason : {"none", "invalid", "not_found", "conflict", "too_large", "forbidden",
                      "revoked", "unique_violation", "aborted", "commit_unknown"}]
NoFailure == [id |-> None, version |-> 0, reason |-> "none"]

ClientState == [cursor : Nat, seen : SUBSET Change, raced : SUBSET Nat]
Hint == [user : Users, device : Devices, cursor : Nat]

ASSUME RequestsAssumption == Requests \subseteq Request
ASSUME OwnerAssumption ==
  /\ Owner \in [Devices -> Users] /\ Enrolled \subseteq Devices /\ Revocable \subseteq Devices
  /\ Checking \subseteq Devices
ASSUME LimitsAssumption == MaxOperations \in Nat /\ PullLimit \in Nat \ {0}

-----------------------------------------------------------------------------
(* Pure helpers of the service. *)

\* sortedOperations: by note id, then client sequence, equal pairs in request
\* order (a stable sort).  NilNote is the smallest id.
NoteRank(n) == IF n = NilNote THEN -1 ELSE n

Precedes(ops, i, j) ==
  \/ NoteRank(ops[i].note) < NoteRank(ops[j].note)
  \/ ops[i].note = ops[j].note /\ ops[i].seq < ops[j].seq
  \/ ops[i].note = ops[j].note /\ ops[i].seq = ops[j].seq /\ i < j

\* Mutant: operations are applied in request order.
RequestOrder(ops) == ops

SortedOperations(ops) ==
  [k \in 1 .. Len(ops) |->
     ops[CHOOSE i \in 1 .. Len(ops) :
           Cardinality({j \in 1 .. Len(ops) : Precedes(ops, j, i)}) = k - 1]]

\* ClientOperation.Validate: category operations, and only they, name no note.
ValidEnvelope(op) ==
  /\ op.known
  /\ op.seq >= 0
  /\ op.type \in CategoryTypes <=> op.note = NilNote

\* The FromRequest methods of the note, block and category payloads.  (A block
\* without properties gets {}, which is one of Props; delete_note has none.)
Decodes(op) ==
  /\ op.type \in {"create_note", "modify_note_property", "create_block"} => op.props # None
  /\ op.type = "modify_note_title" => op.delta # None
  /\ op.type \in {"create_block", "delete_block", "modify_block"} => op.key \in Blocks
  /\ op.type = "modify_block" => op.props # None \/ op.delta # None
  /\ op.type \in CategoryTypes => op.key \in Categories
  /\ op.type \in {"create_category", "modify_category"} => op.name # None

\* Mutant: the cursor points past the last change of the page.
CursorAfter(start, page) == Max({start} \cup {c.seq + 1 : c \in page})

\* nextCursor: the highest sequence of the page, or the cursor it started from.
NextCursor(start, page) == Max({start} \cup {c.seq : c \in page})

-----------------------------------------------------------------------------
(* Handler bookkeeping. *)

Op(p)   == Head(todo[p])
User(p) == req[p].user

\* The row ensureNote leaves in the batch state.
EnsuredNote(p, n) ==
  IF batch[p].loaded THEN batch[p].note ELSE NoteForOwner(p, n, User(p))

\* Mutant: the note is read without FOR UPDATE.
EnsureNoteUnlocked(p, n) == TRUE

\* ensureNote can return: the note is cached already or its row lock is granted.
EnsureNote(p, n) == batch[p].loaded \/ NoteGranted(p, n, User(p))

\* The transaction after ensureNote: a row that was found is locked.
Ensured(p, n) == IF EnsuredNote(p, n) = Absent THEN tx[p] ELSE Lock(tx[p], n)

\* The batch after ensureNote has cached row `note`.
Loaded(p, note) == [batch[p] EXCEPT !.loaded = TRUE, !.note = note]

\* The note_changes row of an accepted operation, with the next identity value.
NewChange(p, op, base, result) ==
  [seq |-> seq + 1, owner |-> User(p), device |-> req[p].device, note |-> op.note,
   base |-> base, result |-> result, op |-> op, by |-> p]

\* After an accepted operation: the next one of the same note, or the end of
\* the batch.
Advance(p) ==
  /\ todo' = [todo EXCEPT ![p] = Tail(@)]
  /\ pc' = [pc EXCEPT ![p] =
              IF Tail(todo[p]) # <<>> /\ Head(Tail(todo[p])).note = Op(p).note
              THEN "find" ELSE "flush"]

\* acceptOperationChange: insert the change row into transaction t.
AcceptOp(p, t, b, base, result) ==
  LET c == NewChange(p, Op(p), base, result) IN
    /\ tx' = [tx EXCEPT ![p] = [t EXCEPT !.pend = @ \cup {c}]]
    /\ seq' = c.seq
    /\ batch' = [batch EXCEPT ![p] = [b EXCEPT !.changed = TRUE, !.cursor = c.seq]]
    /\ Advance(p)
    /\ UNCHANGED <<rows, changes, outbox, snapshots, save, req, failure, reply, world>>

\* A rejected operation rolls its whole batch back.
RejectOp(p, reason, version) ==
  /\ RollbackToSavepoint(p)
  /\ failure' = [failure EXCEPT ![p] = [id |-> Op(p).id, version |-> version, reason |-> reason]]
  /\ pc' = [pc EXCEPT ![p] = "rejected"]
  /\ UNCHANGED <<req, todo, batch, reply, world>>

\* An error that is not a rejection: WithTx rolls the request back.
FailRequest(p, reason) ==
  /\ RollbackTx(p)
  /\ failure' = [failure EXCEPT ![p] = [id |-> None, version |-> 0, reason |-> reason]]
  /\ pc' = [pc EXCEPT ![p] = "failed"]
  /\ UNCHANGED <<req, todo, batch, reply, world>>

\* Open the savepoint of the next note batch, or finish when none is left.
NextBatch(p, ops) ==
  /\ todo' = [todo EXCEPT ![p] = ops]
  /\ save' = [save EXCEPT ![p] = tx'[p]]
  /\ batch' = [batch EXCEPT ![p] =
                  NewBatch(IF ops = <<>> THEN NilNote ELSE Head(ops).note)]
  /\ pc' = [pc EXCEPT ![p] = IF ops = <<>> THEN "commit" ELSE "find"]

-----------------------------------------------------------------------------
Init ==
  /\ rows = [k \in Keys |-> IF k \in Enrolled
                            THEN [owner |-> Owner[k], revoked |-> FALSE, cursor |-> 0]
                            ELSE Absent]
  /\ changes = {} /\ seq = 0 /\ outbox = {} /\ snapshots = {}
  /\ tx = [p \in Handlers |-> EmptyTx]
  /\ save = [p \in Handlers |-> EmptyTx]
  /\ pc = [p \in Handlers |-> "idle"]
  /\ req = [p \in Handlers |-> Absent]
  /\ todo = [p \in Handlers |-> <<>>]
  /\ batch = [p \in Handlers |-> NewBatch(NilNote)]
  /\ failure = [p \in Handlers |-> NoFailure]
  /\ reply = [p \in Handlers |-> NoReply]
  /\ hints = {}
  /\ client = [d \in Devices |-> [cursor |-> 0, seen |-> {}, raced |-> {}]]
  /\ check = [d \in Devices |-> None]

\* A request arrives and is validated.  A pull carries the cursor its device has
\* saved.
Receive(p, r) ==
  /\ pc[p] = "idle"
  /\ req' = [req EXCEPT ![p] = IF r.kind = "pull"
                               THEN [r EXCEPT !.cursor = client[r.device].cursor]
                               ELSE r]
  /\ \/ /\ r.valid /\ Len(r.ops) <= MaxOperations
        /\ pc' = [pc EXCEPT ![p] = "lock"]
        /\ UNCHANGED failure
     \/ /\ ~r.valid \/ Len(r.ops) > MaxOperations
        /\ pc' = [pc EXCEPT ![p] = "failed"]
        /\ failure' = [failure EXCEPT ![p] =
             [NoFailure EXCEPT !.reason = IF r.valid THEN "too_large" ELSE "invalid"]]
  /\ UNCHANGED <<store, todo, batch, reply, world>>

\* GetDeviceForOwnerForUpdate and the ownership and revocation checks.
LockDevice(p) ==
  LET d == req[p].device IN
    /\ pc[p] = "lock"
    /\ \/ /\ ~OwnedBy(rows[d], User(p))
          /\ FailRequest(p, "forbidden")
       \/ /\ OwnedBy(rows[d], User(p)) /\ RowGranted(p, d)
          /\ rows[d].revoked
          /\ FailRequest(p, "revoked")
       \/ /\ OwnedBy(rows[d], User(p)) /\ RowGranted(p, d)
          /\ ~rows[d].revoked
          /\ tx' = [tx EXCEPT ![p] = Lock(@, d)]
          /\ \/ /\ req[p].kind = "push"
                /\ NextBatch(p, SortedOperations(req[p].ops))
             \/ /\ req[p].kind = "pull"
                /\ pc' = [pc EXCEPT ![p] = "page"]
                /\ UNCHANGED <<save, todo, batch>>
          /\ UNCHANGED <<rows, changes, seq, outbox, snapshots, req, failure, reply, world>>

\* The idempotency lookup misses: dispatch on the operation type.
FindProcessed(p) ==
  /\ pc[p] = "find"
  /\ ~Processed(p, req[p].device, Op(p).id)
  /\ pc' = [pc EXCEPT ![p] = "apply"]
  /\ UNCHANGED <<store, req, todo, batch, failure, reply, world>>

\* The lookup hits: the note is loaded, and nothing is written.
RetryOp(p) ==
  LET n == Op(p).note IN
    /\ pc[p] = "find"
    /\ Processed(p, req[p].device, Op(p).id)
    /\ \/ /\ n = NilNote
          /\ UNCHANGED <<tx, batch>>
       \/ /\ n # NilNote
          /\ EnsureNote(p, n)
          /\ tx' = [tx EXCEPT ![p] = Ensured(p, n)]
          /\ batch' = [batch EXCEPT ![p] = Loaded(p, EnsuredNote(p, n))]
    /\ Advance(p)
    /\ UNCHANGED <<rows, changes, seq, outbox, snapshots, save, req, failure, reply, world>>

\* The envelope is checked first, then the payload, except that create_note
\* looks at the version before it decodes.
Malformed(p, op) ==
  \/ ~ValidEnvelope(op)
  \/ /\ ~Decodes(op)
     /\ op.type = "create_note" => op.base = 0 /\ batch[p].note = Absent

RejectMalformed(p) ==
  /\ pc[p] = "apply"
  /\ Malformed(p, Op(p))
  /\ RejectOp(p, "invalid", 0)

Applying(p, types) ==
  /\ pc[p] = "apply"
  /\ Op(p).type \in types
  /\ ~Malformed(p, Op(p))

\* existingNote: the note must exist and be at the version the client edited.
RejectExisting(p) ==
  LET note == EnsuredNote(p, Op(p).note) IN
    /\ Applying(p, EditTypes)
    /\ EnsureNote(p, Op(p).note)
    /\ \/ note = Absent /\ RejectOp(p, "not_found", 0)
       \/ /\ note # Absent /\ note.version # Op(p).base
          /\ RejectOp(p, "conflict", note.version)

Editing(p, type) ==
  LET note == EnsuredNote(p, Op(p).note) IN
    /\ Applying(p, {type})
    /\ EnsureNote(p, Op(p).note)
    /\ note # Absent
    /\ note.version = Op(p).base

-----------------------------------------------------------------------------
(* Note operations. *)

CreateNote(p) ==
  LET op == Op(p)
      n  == op.note
      note == [owner |-> User(p), version |-> 0, deleted |-> FALSE,
               title |-> op.text, props |-> op.props]
      block == [note |-> n, deleted |-> FALSE, text |-> op.text, props |-> op.props]
      fits == op.base = 0 /\ batch[p].note = Absent
      exists == Visible(p, n) # Absent
      taken == \E b \in op.blocks : Visible(p, b) # Absent
  IN
    /\ Applying(p, {"create_note"})
    /\ \/ /\ op.base # 0
          /\ RejectOp(p, "conflict", 0)
       \/ /\ op.base = 0 /\ batch[p].note # Absent
          /\ RejectOp(p, "conflict", batch[p].note.version)
       \/ /\ fits /\ exists                  \* unique violation on notes.id
          /\ RejectOp(p, "conflict", 0)
       \/ /\ fits /\ ~exists /\ Free(p, n)
          /\ taken                           \* unique violation on note_blocks.id
          /\ RejectOp(p, "invalid", 0)
       \/ /\ fits /\ ~exists /\ Free(p, n)
          /\ ~taken /\ \A b \in op.blocks : Free(p, b)
          /\ AcceptOp(p,
               [tx[p] EXCEPT !.ws = [k \in Keys |-> IF k = n THEN note
                                       ELSE IF k \in op.blocks THEN block ELSE @[k]],
                             !.held = @ \cup {n} \cup op.blocks],
               [Loaded(p, note) EXCEPT !.blocks = [b \in Blocks |->
                                       IF b \in op.blocks THEN block ELSE @[b]]],
               0, 1)

\* DELETE is one conditional UPDATE.  Its WHERE clause is evaluated on the
\* committed row; only a row that matches is waited for.
DeleteNote(p) ==
  LET op  == Op(p)
      row == Visible(p, op.note)
      matches == OwnedBy(row, User(p)) /\ row.version = op.base
      note == IF batch[p].note = Absent
              THEN [row EXCEPT !.deleted = TRUE]
              ELSE [batch[p].note EXCEPT !.deleted = TRUE]
  IN
    /\ Applying(p, {"delete_note"})
    /\ \/ /\ matches /\ Free(p, op.note)
          /\ AcceptOp(p, Write(tx[p], op.note, [row EXCEPT !.deleted = TRUE]),
                      Loaded(p, note), note.version, note.version + 1)
       \/ /\ ~matches
          /\ pc' = [pc EXCEPT ![p] = "lookup"]
          /\ UNCHANGED <<store, req, todo, batch, failure, reply, world>>

\* The UPDATE of delete_note matched nothing: lock the note to say why.
DeleteNoteLookup(p) ==
  LET note == NoteForOwner(p, Op(p).note, User(p)) IN
    /\ pc[p] = "lookup"
    /\ NoteGranted(p, Op(p).note, User(p))
    /\ \/ note = Absent /\ RejectOp(p, "not_found", 0)
       \/ note # Absent /\ RejectOp(p, "conflict", note.version)

\* Edits stay in the batch state until the batch is accepted.
AcceptEdit(p, note) ==
  AcceptOp(p, Ensured(p, Op(p).note), Loaded(p, note), note.version, note.version + 1)

ModifyNoteProperty(p) ==
  /\ Editing(p, "modify_note_property")
  /\ AcceptEdit(p, [EnsuredNote(p, Op(p).note) EXCEPT !.props = Op(p).props])

ModifyNoteTitle(p) ==
  LET note == EnsuredNote(p, Op(p).note) IN
    /\ Editing(p, "modify_note_title")
    /\ \/ /\ ~DeltaInRange(note.title, Op(p).delta)
          /\ RejectOp(p, "invalid", 0)
       \/ /\ DeltaInRange(note.title, Op(p).delta)
          /\ AcceptEdit(p, [note EXCEPT !.title = ApplyTextDelta(@, Op(p).delta)])

-----------------------------------------------------------------------------
(* Block operations.  Creations and deletions are written at once, text and *)
(* property edits when the batch is accepted.                              *)

CreateBlock(p) ==
  LET op == Op(p)
      note == EnsuredNote(p, op.note)
      block == [note |-> op.note, deleted |-> FALSE, text |-> op.text, props |-> op.props]
      taken == batch[p].blocks[op.key] # Absent \/ Visible(p, op.key) # Absent
  IN
    /\ Editing(p, "create_block")
    /\ \/ taken /\ RejectOp(p, "invalid", 0)
       \/ /\ ~taken /\ Free(p, op.key)
          /\ AcceptOp(p, Write(Ensured(p, op.note), op.key, block),
                      [Loaded(p, note) EXCEPT !.blocks = [@ EXCEPT ![op.key] = block]],
                      note.version, note.version + 1)

\* The block row the batch works on: its cached copy, or the stored row.
BatchBlock(p, b, n) ==
  IF batch[p].blocks[b] # Absent THEN batch[p].blocks[b] ELSE BlockForNote(p, b, n)

DeleteBlock(p) ==
  LET op == Op(p)
      note == EnsuredNote(p, op.note)
      block == BatchBlock(p, op.key, op.note)
      deleted == [block EXCEPT !.deleted = TRUE]
  IN
    /\ Editing(p, "delete_block")
    /\ \/ block = Absent /\ RejectOp(p, "not_found", 0)
       \/ /\ block # Absent /\ Free(p, op.key)
          /\ AcceptOp(p, Write(Ensured(p, op.note), op.key, deleted),
                      [Loaded(p, note) EXCEPT !.blocks = [@ EXCEPT ![op.key] = deleted],
                                              !.dirty = @ \ {op.key}],
                      note.version, note.version + 1)

ModifyBlock(p) ==
  LET op == Op(p)
      note == EnsuredNote(p, op.note)
      block == BatchBlock(p, op.key, op.note)
      edited == [block EXCEPT !.props = IF op.props = None THEN @ ELSE op.props,
                              !.text = IF op.delta = None THEN @ ELSE ApplyTextDelta(@, op.delta)]
      fits == op.delta # None => DeltaInRange(block.text, op.delta)
  IN
    /\ Editing(p, "modify_block")
    /\ \/ block = Absent /\ RejectOp(p, "not_found", 0)
       \/ block # Absent /\ Free(p, op.key) /\ ~fits /\ RejectOp(p, "invalid", 0)
       \/ /\ block # Absent /\ Free(p, op.key) /\ fits
          /\ AcceptOp(p, Lock(Ensured(p, op.note), op.key),
                      [Loaded(p, note) EXCEPT !.blocks = [@ EXCEPT ![op.key] = edited],
                                              !.dirty = @ \cup {op.key}],
                      note.version, note.version + 1)

-----------------------------------------------------------------------------
(* Category operations carry no note and no version.  A unique violation is *)
(* not turned into a rejection: it fails the request.                      *)

CreateCategory(p) ==
  LET op == Op(p)
      row == [owner |-> User(p), name |-> op.name, deleted |-> FALSE]
      settled == Free(p, op.key) /\ NameSettled(p, User(p), op.name)
      taken == NameTaken(p, User(p), op.name, {})
  IN
    /\ Applying(p, {"create_category"})
    /\ \/ Visible(p, op.key) # Absent /\ FailRequest(p, "unique_violation")
       \/ Visible(p, op.key) = Absent /\ settled /\ taken /\ FailRequest(p, "unique_violation")
       \/ /\ Visible(p, op.key) = Absent /\ settled /\ ~taken
          /\ AcceptOp(p, Write(tx[p], op.key, row), batch[p], 0, 0)

\* LockCategoryForOwner finds active categories only.
ActiveCategory(p, c) == OwnedBy(Visible(p, c), User(p)) /\ ~Visible(p, c).deleted

RejectCategory(p) ==
  /\ Applying(p, {"delete_category", "modify_category"})
  /\ ~ActiveCategory(p, Op(p).key)
  /\ RejectOp(p, "not_found", 0)

DeleteCategory(p) ==
  LET c == Op(p).key IN
    /\ Applying(p, {"delete_category"})
    /\ ActiveCategory(p, c) /\ RowGranted(p, c)
    /\ AcceptOp(p, Write(tx[p], c, [Visible(p, c) EXCEPT !.deleted = TRUE]), batch[p], 0, 0)

ModifyCategory(p) ==
  LET op == Op(p)
      c  == op.key
      taken == NameTaken(p, User(p), op.name, {c})
  IN
    /\ Applying(p, {"modify_category"})
    /\ ActiveCategory(p, c) /\ RowGranted(p, c)
    /\ NameSettled(p, User(p), op.name)
    /\ \/ taken /\ FailRequest(p, "unique_violation")
       \/ /\ ~taken
          /\ AcceptOp(p, Write(tx[p], c, [Visible(p, c) EXCEPT !.name = op.name]), batch[p], 0, 0)

-----------------------------------------------------------------------------
(* End of a batch and of a request. *)

\* enqueueSnapshotIfNeeded, on p's transaction state t.
EnqueueSnapshotIfNeeded(p, t, n, version) ==
  IF SnapshotDue(p, n)
  THEN [t EXCEPT !.jobs = @ \cup {[note |-> n, owner |-> User(p), version |-> version]}]
  ELSE t

\* Mutants: the incremented version, or the dirty blocks, are not written.
FlushedSameVersion(p, n, note) ==
  [tx[p] EXCEPT !.ws = [@ EXCEPT ![n] = [note EXCEPT !.version = @ - 1]]]
FlushedNoteOnly(p, n, note) == [tx[p] EXCEPT !.ws = [@ EXCEPT ![n] = note]]

\* UpdateNoteState and UpdateBlockState: the cached note with its new version,
\* and the cached blocks that are dirty.
Flushed(p, n, note) ==
  [tx[p] EXCEPT !.ws = [k \in Keys |-> IF k = n THEN note
                          ELSE IF k \in batch[p].dirty THEN batch[p].blocks[k] ELSE @[k]]]

\* The batch is accepted: its version counts once, whatever its length.
FlushBatch(p) ==
  LET b == batch[p]
      note == [b.note EXCEPT !.version = @ + 1]
      writes == b.changed /\ b.note # Absent
      answer(version) == [note |-> b.id, version |-> version, seq |-> b.cursor]
  IN
    /\ pc[p] = "flush"
    /\ \/ /\ writes
          /\ tx' = [tx EXCEPT ![p] =
                      EnqueueSnapshotIfNeeded(p, Flushed(p, b.id, note), b.id, note.version)]
          /\ reply' = [reply EXCEPT ![p].accepted = @ \cup {answer(note.version)}]
       \/ /\ ~writes
          /\ tx' = tx
          /\ reply' = [reply EXCEPT ![p].accepted =
                         @ \cup {answer(IF b.note = Absent THEN 0 ELSE b.note.version)}]
    /\ NextBatch(p, todo[p])
    /\ UNCHANGED <<rows, changes, seq, outbox, snapshots, req, failure, world>>

\* What is left of ops after the operations of note n it starts with.
AfterBatch(ops, n) ==
  SubSeq(ops, 1 + Cardinality({i \in 1 .. Len(ops) : \A j \in 1 .. i : ops[j].note = n}), Len(ops))

\* The batch was rejected and its locks are gone: lock the note again and
\* answer with its current document.  The batch's other operations are skipped.
RejectBatch(p) ==
  LET n == batch[p].id
      f == failure[p]
      note == IF n = NilNote THEN Absent ELSE NoteForOwner(p, n, User(p))
      answer(version, snapshot, cursor) ==
        [note |-> n, id |-> f.id, reason |-> f.reason,
         version |-> version, snapshot |-> snapshot, cursor |-> cursor]
  IN
    /\ pc[p] = "rejected"
    /\ \/ /\ note = Absent
          /\ tx' = tx
          /\ reply' = [reply EXCEPT ![p].rejected = @ \cup {answer(f.version, None, 0)}]
       \/ /\ note # Absent /\ Free(p, n)
          /\ tx' = [tx EXCEPT ![p] = Lock(@, n)]
          /\ reply' = [reply EXCEPT ![p].rejected =
                         @ \cup {answer(IF f.version = 0 THEN note.version ELSE f.version,
                                        note.version, LastAppliedCursor(p, n))}]
    /\ NextBatch(p, AfterBatch(todo[p], n))
    /\ UNCHANGED <<rows, changes, seq, outbox, snapshots, req, failure, world>>

\* COMMIT takes effect.  Its answer is a step of its own: Publish or Respond when
\* it arrives, CommitUnknown when it does not.
Commit(p) ==
  /\ pc[p] = "commit"
  /\ CommitTx(p)
  /\ pc' = [pc EXCEPT ![p] = IF req[p].kind = "push" THEN "publish" ELSE "respond"]
  /\ UNCHANGED <<req, todo, batch, failure, reply, world>>

\* The highest sequence the request newly inserted.  Mutant: the last one that
\* was handed out.
LastSequence(p) == seq
CommittedCursor(p) == Max({0} \cup {a.seq : a \in reply[p].accepted})

\* publishCommittedSyncAvailable is best effort: the hint may be lost, and the
\* process may die before it is sent.
Publish(p) ==
  LET cursor == CommittedCursor(p) IN
    /\ pc[p] = "publish"
    /\ \/ cursor > 0 /\ hints' = hints \cup {[user |-> User(p), device |-> req[p].device,
                                              cursor |-> cursor]}
       \/ UNCHANGED hints
    /\ pc' = [pc EXCEPT ![p] = "done"]
    /\ UNCHANGED <<store, req, todo, batch, failure, reply, client, check>>

\* The connection is lost after COMMIT took effect: tx.Commit returns an error, and
\* so does the request.  No hint is published and no page is returned.
CommitUnknown(p) ==
  /\ pc[p] \in {"publish", "respond"}
  /\ pc' = [pc EXCEPT ![p] = "failed"]
  /\ failure' = [failure EXCEPT ![p] = [NoFailure EXCEPT !.reason = "commit_unknown"]]
  /\ UNCHANGED <<store, req, todo, batch, reply, world>>

\* A failed statement, a cancelled context, a crash before COMMIT, or a COMMIT that
\* fails.
Abort(p) ==
  /\ pc[p] \in InTx
  /\ FailRequest(p, "aborted")

-----------------------------------------------------------------------------
(* Pull. *)

\* GetChangesAfterCursor with LIMIT limit+1 (the extra row only sets HasMore),
\* then UpdateDeviceCursor, which never moves the stored cursor backwards.
PullPage(p) ==
  LET d == req[p].device
      page == FirstBySequence(RemoteChanges(p, User(p), d, req[p].cursor), PullLimit)
      next == NextCursor(req[p].cursor, page)
  IN
    /\ pc[p] = "page"
    /\ reply' = [reply EXCEPT ![p] =
                   [@ EXCEPT !.page = page, !.next = next,
                             !.raced = {c.seq : c \in UNION {tx[q].pend : q \in Handlers}}]]
    /\ tx' = [tx EXCEPT ![p] = Write(@, d, [rows[d] EXCEPT !.cursor = AdvancedCursor(@, next)])]
    /\ pc' = [pc EXCEPT ![p] = "commit"]
    /\ UNCHANGED <<rows, changes, seq, outbox, snapshots, save, req, todo, batch, failure, world>>

\* External: the client applies the page, then saves nextCursor (a late answer
\* to an older cursor is dropped).  Or the response is lost.
Respond(p) ==
  LET d == req[p].device IN
    /\ pc[p] = "respond"
    /\ \/ /\ client[d].cursor = req[p].cursor
          /\ client' = [client EXCEPT ![d] =
                          [cursor |-> reply[p].next, seen |-> @.seen \cup reply[p].page,
                           raced |-> @.raced \cup reply[p].raced]]
       \/ UNCHANGED client
    /\ pc' = [pc EXCEPT ![p] = "done"]
    /\ UNCHANGED <<store, req, todo, batch, failure, reply, hints, check>>

\* Mutant: the change the cursor stands on counts as new.
HasChangesFromCursor(user, device, cursor) ==
  \E c \in changes : c.owner = user /\ c.seq >= cursor /\ c.device # device

HasChangesAfterCursor(user, device, cursor) ==
  \E c \in changes : c.owner = user /\ c.seq > cursor /\ c.device # device

\* UpdatesAvailable is two statements outside a transaction.  GetDeviceForOwner
\* returns the stored cursor; an unknown or revoked device is refused.
UpdatesAvailableDevice(d) ==
  /\ check[d] = None /\ rows[d] # Absent /\ ~rows[d].revoked
  /\ check' = [check EXCEPT ![d] = rows[d].cursor]
  /\ UNCHANGED <<store, handler, hints, client>>

\* What HasChangesAfterCursor, the second statement, answers if it runs now.
UpdatesAvailable(d) == HasChangesAfterCursor(rows[d].owner, d, check[d])

\* It runs, or fails; either way nothing is written.
UpdatesAvailableChanges(d) ==
  /\ check[d] # None
  /\ check' = [check EXCEPT ![d] = None]
  /\ UNCHANGED <<store, handler, hints, client>>

-----------------------------------------------------------------------------
(* Devices: single statements outside a transaction. *)

\* CreateDevice: a second registration of the id is a unique violation.
RegisterDevice(d) ==
  /\ rows[d] = Absent
  /\ rows' = [rows EXCEPT ![d] = [owner |-> Owner[d], revoked |-> FALSE, cursor |-> 0]]
  /\ UNCHANGED <<changes, seq, outbox, snapshots, tx, save, handler, world>>

\* Mutant: revocation does not wait.
RevokeDeviceAtOnce(d) ==
  /\ rows[d] # Absent /\ ~rows[d].revoked
  /\ rows' = [rows EXCEPT ![d] = [@ EXCEPT !.revoked = TRUE]]
  /\ UNCHANGED <<changes, seq, outbox, snapshots, tx, save, handler, world>>

\* RevokeDevice waits for a handler that holds the device row.
RevokeDevice(d) ==
  /\ rows[d] # Absent /\ ~rows[d].revoked
  /\ \A q \in Handlers : d \notin tx[q].held
  /\ rows' = [rows EXCEPT ![d] = [@ EXCEPT !.revoked = TRUE]]
  /\ UNCHANGED <<changes, seq, outbox, snapshots, tx, save, handler, world>>

-----------------------------------------------------------------------------
\* A step of the code of handler p (the client's and the failures' excluded).
HandlerStep(p) ==
  \/ LockDevice(p) \/ FindProcessed(p) \/ RetryOp(p)
  \/ RejectMalformed(p) \/ RejectExisting(p)
  \/ CreateNote(p) \/ DeleteNote(p) \/ DeleteNoteLookup(p)
  \/ ModifyNoteProperty(p) \/ ModifyNoteTitle(p)
  \/ CreateBlock(p) \/ DeleteBlock(p) \/ ModifyBlock(p)
  \/ CreateCategory(p) \/ RejectCategory(p) \/ DeleteCategory(p) \/ ModifyCategory(p)
  \/ FlushBatch(p) \/ RejectBatch(p) \/ Commit(p) \/ Publish(p)
  \/ PullPage(p) \/ Respond(p)

Finished == \A p \in Handlers : pc[p] \in {"done", "failed"}

Next ==
  \/ \E p \in Handlers : \E r \in Requests : Receive(p, r)
  \/ \E p \in Handlers : HandlerStep(p)
  \/ \E p \in Handlers : Abort(p) \/ CommitUnknown(p)
  \/ \E d \in Devices : RegisterDevice(d)
  \/ \E d \in Revocable : RevokeDevice(d)
  \/ \E d \in Checking : UpdatesAvailableDevice(d) \/ UpdatesAvailableChanges(d)
  \/ Finished /\ UNCHANGED vars

Spec == Init /\ [][Next]_vars

\* A handler whose statement can run does run it: PostgreSQL grants row locks
\* in turn and a goroutine is always scheduled.  Requests need not arrive, and
\* nothing has to fail.
FairSpec == Spec /\ \A p \in Handlers : WF_vars(HandlerStep(p))

-----------------------------------------------------------------------------
(* Properties. *)

\* Every table, transaction and handler has the shape of its Go and SQL types.
TypedRow(k, row) ==
  /\ k \in Devices => row \in DeviceRow \cup {Absent}
  /\ k \in Notes => row \in NoteRow \cup {Absent}
  /\ k \in Blocks => row \in BlockRow \cup {Absent}
  /\ k \in Categories => row \in CategoryRow \cup {Absent}

TypedTx(t) == t \in TxState /\ \A k \in Keys : TypedRow(k, t.ws[k])

TypeOK ==
  /\ rows \in [Keys -> Row \cup {Absent}] /\ \A k \in Keys : TypedRow(k, rows[k])
  /\ changes \subseteq Change
  /\ seq \in Nat
  /\ outbox \subseteq Job
  /\ snapshots \subseteq Notes \X Nat
  /\ tx \in [Handlers -> TxState]
  /\ save \in [Handlers -> TxState]
  /\ \A p \in Handlers : TypedTx(tx[p]) /\ TypedTx(save[p])
  /\ pc \in [Handlers -> PCs]
  /\ req \in [Handlers -> Request \cup {Absent}]
  /\ \A p \in Handlers : pc[p] # "idle" => req[p] \in Request
  /\ todo \in [Handlers -> Seq(Operation)]
  /\ batch \in [Handlers -> BatchState]
  /\ failure \in [Handlers -> Failure]
  /\ reply \in [Handlers -> Reply]
  /\ hints \subseteq Hint
  /\ client \in [Devices -> ClientState]
  /\ check \in [Devices -> Nat \cup {None}]

\* The change log of a note is a gapless chain: its committed batches produced
\* versions 1, 2, ..., current_version, each from the version before it, and a
\* note without a row has no history (UpdateNoteState, insertChange).
VersionChain ==
  \A n \in Notes :
    LET log == {c \in changes : c.note = n} IN
      /\ rows[n] = Absent => log = {}
      /\ rows[n] # Absent => {c.result : c \in log} = 1 .. rows[n].version
      /\ \A c \in log : c.result = c.base + 1

\* Two requests never both commit an edit of the same version of a note: the
\* later one is rejected as a conflict (existingNote, DeleteNote).
NoLostUpdate ==
  \A c, d \in changes :
    c.note \in Notes /\ c.note = d.note /\ c.base = d.base => c.by = d.by

\* Within a note the global sequence follows the versions, although it is handed
\* out before commit: a later change is of a later version, or of the same batch,
\* so a client that applies a note's changes by sequence applies whole versions
\* in order (GetChangesAfterCursor's ORDER BY).
SequenceFollowsVersion ==
  \A c, d \in changes :
    c.note \in Notes /\ c.note = d.note /\ c.seq < d.seq =>
      c.result < d.result \/ (c.result = d.result /\ c.by = d.by)

\* However often and however concurrently a request is retried, each operation
\* of a device has one change row, and each change row its own sequence
\* (FindProcessedOperation under the device lock).
AtMostOnce ==
  \A c, d \in changes :
    \/ c = d
    \/ c.seq # d.seq /\ (c.device # d.device \/ c.op.id # d.op.id)

\* While a handler applies an operation no other request commits it, so the
\* UNIQUE (device_id, client_operation_id) index is never hit, and an operation
\* that the server has committed is never answered as the failed one.
RetryNotRejected ==
  \A p \in Handlers :
    pc[p] \in {"apply", "lookup", "rejected"} =>
      ~\E c \in changes :
         c.device = req[p].device
           /\ c.op.id = IF pc[p] = "rejected" THEN failure[p].id ELSE Op(p).id

\* The request is committed, whether or not its handler knows.
Committed(p) ==
  pc[p] \in {"publish", "done"} \/ (pc[p] = "failed" /\ failure[p].reason = "commit_unknown")

\* A note batch is accepted or rejected as a whole: once the request has
\* committed, every operation of an accepted batch is in the log and none of a
\* rejected one is.  A request that returned an error has left nothing at all,
\* unless the error was that of COMMIT and COMMIT had taken effect: then it has
\* left all that it accepted.
BatchAtomicity ==
  \A p \in Handlers :
    /\ Committed(p) =>
         /\ \A a \in reply[p].accepted : \A i \in 1 .. Len(req[p].ops) :
              req[p].ops[i].note = a.note =>
                \E c \in changes : c.device = req[p].device /\ c.op.id = req[p].ops[i].id
         /\ \A r \in reply[p].rejected : \A c \in changes : c.by = p => c.note # r.note
    /\ pc[p] = "failed" /\ ~Committed(p) => \A c \in changes : c.by # p

\* The snapshot returned with a rejection is never older than the version the
\* conflict was reported against, although the note was unlocked in between, and
\* its lastAppliedCursor covers exactly the changes up to that version.
RejectionSnapshotFresh ==
  \A p \in Handlers : \A r \in reply[p].rejected :
    r.snapshot # None =>
      /\ r.version <= r.snapshot
      /\ \A c \in changes : c.note = r.note => (c.seq <= r.cursor <=> c.result <= r.snapshot)

\* A user's notes are changed only through that user's devices, and a page holds
\* only changes of the user it was read for (the owner_id conditions).
OwnerIsolation ==
  /\ \A c \in changes : c.note \in Notes => rows[c.note].owner = c.owner
  /\ \A c \in changes : rows[c.device].owner = c.owner
  /\ \A d \in Devices : \A c \in client[d].seen : c.owner = Owner[d] /\ c.device # d

\* The one way a client loses a change: the change's sequence was handed out and
\* not yet committed when a page was read.  Nothing is lost to page boundaries,
\* lost responses, concurrent pulls or the cursor arithmetic (nextCursor).
SkippedOnlyInFlight ==
  \A d \in Devices : \A c \in changes :
    c.owner = Owner[d] /\ c.device # d /\ c.seq <= client[d].cursor
      => c \in client[d].seen \/ c.seq \in client[d].raced

\* UpdatesAvailable sends a client to an empty pull only if a pull of the same
\* device was saved between its two statements: any other change it announces is
\* one the client has not seen and its saved cursor has not passed, with late
\* answers and concurrent pulls of the device.
UpdatesArePullable ==
  \A d \in Devices : check[d] # None /\ UpdatesAvailable(d) =>
    \/ rows[d].cursor > check[d]
    \/ \E c \in changes \ client[d].seen : c.seq > client[d].cursor /\ c.device # d

\* The changes a pull of device d has returned, whether or not its answer arrived,
\* and those that were in flight when it read its page.
PullsOf(d) == {p \in Handlers : pc[p] # "idle" /\ req[p].kind = "pull" /\ req[p].device = d}
Answered(d) == UNION {reply[p].page : p \in PullsOf(d)}
InFlight(d) == client[d].raced \cup UNION {reply[p].raced : p \in PullsOf(d)}

\* When UpdatesAvailable says no, the client lacks a change only if the answer that
\* carried it has not arrived, or the change was in flight when a page was read:
\* the stored cursor runs ahead of the client for no other reason.
UpdatesHiddenOnlyByLoss ==
  \A d \in Devices :
    check[d] # None /\ ~UpdatesAvailable(d) =>
      \A c \in changes : c.owner = Owner[d] /\ c.device # d =>
        c \in client[d].seen \cup Answered(d) \/ c.seq \in InFlight(d)

\* A hint announces a change that is already committed, by the device the hint
\* names as its origin (publishCommittedSyncAvailable runs after WithTx).
HintsCommitted ==
  \A h \in hints : \E c \in changes :
    c.seq = h.cursor /\ c.owner = h.user /\ c.device = h.device

\* A note with enough history since its last snapshot has a job for its current
\* version (enqueueSnapshotIfNeeded runs in the transaction of the batch).
SnapshotScheduled ==
  \A n \in Notes :
    LET due == {c \in changes : c.note = n /\ c.result > LastSnapshotVersion(n)} IN
      SnapshotChangeThreshold > 0 /\ Cardinality(due) >= SnapshotChangeThreshold
        => \E j \in outbox : j.note = n /\ j.version = rows[n].version

\* A revoked device commits nothing more, not even a request that was under way
\* when it was revoked (the device row is locked until commit).
RevokedDeviceSilent ==
  [][\A c \in changes' \ changes : ~rows[c.device].revoked]_vars

\* Every request that arrives is answered: row locks are taken in note order, so
\* handlers never wait for each other in a circle.
RequestsComplete ==
  \A p \in Handlers : pc[p] # "idle" ~> pc[p] \in {"done", "failed"}

\* What the statement handler p is at has to wait for, if another one holds it: the
\* note of its batch, ...
AwaitsNote(p) ==
  LET n == batch[p].id
      mine == OwnedBy(Visible(p, n), User(p))
  IN n \in Notes /\
     \/ pc[p] \in {"lookup", "rejected"} /\ mine
     \/ pc[p] = "find" /\ Processed(p, req[p].device, Op(p).id) /\ ~batch[p].loaded /\ mine
     \/ Applying(p, EditTypes) /\ ~batch[p].loaded /\ mine
     \/ Applying(p, {"delete_note"}) /\ mine /\ Visible(p, n).version = Op(p).base
     \/ /\ Applying(p, {"create_note"}) /\ Op(p).base = 0
        /\ batch[p].note = Absent /\ Visible(p, n) = Absent

\* ... block b, once it has the note (an id that is taken is not waited for), ...
AwaitsBlock(p, b) ==
  LET n == batch[p].id IN
    \/ /\ Editing(p, "delete_block") \/ Editing(p, "modify_block")
       /\ Op(p).key = b /\ BatchBlock(p, b, n) # Absent
    \/ /\ Editing(p, "create_block")
       /\ Op(p).key = b /\ batch[p].blocks[b] = Absent /\ Visible(p, b) = Absent
    \/ /\ Applying(p, {"create_note"}) /\ AwaitsNote(p) /\ Free(p, n)
       /\ b \in Op(p).blocks /\ Visible(p, b) = Absent

\* ... the device, or a category or its name.
WaitsFor(p, q) ==
  /\ p # q
  /\ \/ AwaitsNote(p) /\ batch[p].id \in tx[q].held
     \/ \E b \in Blocks : AwaitsBlock(p, b) /\ b \in tx[q].held
     \/ pc[p] = "lock" /\ OwnedBy(rows[req[p].device], User(p)) /\ req[p].device \in tx[q].held
     \/ /\ Applying(p, CategoryTypes)
        /\ Op(p).key \in tx[q].held \/ NamePending(q, User(p), Op(p).name)

\* Another transaction has inserted a block p is about to insert, into another note.
BlockIdClash(p) ==
  \E q \in Handlers \ {p} : \E b \in Blocks :
    /\ AwaitsBlock(p, b) /\ rows[b] = Absent
    /\ tx[q].ws[b] # Absent /\ tx[q].ws[b].note # batch[p].id

\* Requests may name notes, blocks and devices in any order and never wait for each
\* other in a circle, because operations are sorted by note and a block is touched
\* under its note's lock.  There are two exceptions, which PostgreSQL resolves by
\* failing a request: category operations, which are in the client's order, take
\* two handlers, and a client that uses one block id in two notes takes one.
NoWaitCircle ==
  \A S \in SUBSET Handlers :
    S # {} /\ (\A p \in S : \E q \in S : WaitsFor(p, q)) =>
      \/ \E p \in S : BlockIdClash(p)
      \/ \E p, q \in S : p # q /\ \A h \in {p, q} : Applying(h, CategoryTypes)

\* The abstract log this specification implements: a note's committed version,
\* and the note changes that are committed.
NoteVersion == [n \in Notes |-> IF rows[n] = Absent THEN 0 ELSE rows[n].version]
NoteEntries == {[note |-> c.note, version |-> c.result, device |-> c.device, id |-> c.op.id] :
                  c \in {d \in changes : d.note \in Notes}}

Log == INSTANCE NoteLog WITH version <- NoteVersion, log <- NoteEntries

\* Push sync implements NoteLog: whatever handlers do concurrently, the committed
\* state only ever moves by one device appending whole batches.
ImplementsNoteLog == Log!Spec

-----------------------------------------------------------------------------
(* What the repository says of the code, and the code does not do. *)

\* A client that has advanced its cursor past a change of another device has
\* received it (GetChangesAfterCursor reads committed rows only, but sequences
\* are handed out before commit).
PullNeverSkips ==
  \A d \in Devices : \A c \in changes :
    c.owner = Owner[d] /\ c.device # d /\ c.seq <= client[d].cursor => c \in client[d].seen

\* A batch that cannot be applied does not discard the other batches of its
\* request: a request with several batches never fails over one of them.
BatchesIndependent ==
  \A p \in Handlers : failure[p].reason = "unique_violation" =>
    \A i, j \in 1 .. Len(req[p].ops) : req[p].ops[i].note = req[p].ops[j].note
=============================================================================
