---------------------------- MODULE SnapshotWorker ----------------------------
(***************************************************************************)
(* The outbox of snapshot jobs, the worker processes that claim and process *)
(* them, and the document reads they share with the read endpoints.         *)
(*                                                                         *)
(* GetNoteDocument reads the note, its blocks and its last cursor in three  *)
(* statements.  Under READ COMMITTED each sees what was committed when it   *)
(* started, inside a transaction or not, so a push may commit in between.   *)
(* A worker goes                                                           *)
(*   idle -> note -> blocks -> cursor -> insert -> complete | fail -> idle. *)
(* Push stands for a committed note batch of one operation (NoteSync has    *)
(* its steps).  A note's content is named by the version that wrote it.     *)
(***************************************************************************)
EXTENDS Integers, FiniteSets

CONSTANTS
  Notes, Workers, Readers,
  Threshold,   \* snapshotChangeThreshold
  MaxVersion,  \* bound: versions of a note
  MaxFaults,   \* bound: crashes and failed statements
  NoJob, NoNote

VARIABLES
  version,   \* notes.current_version; 0 when the note does not exist
  blocks,    \* per note: the version that last changed a block
  changes,   \* note_changes: note, resulting version and global sequence
  jobs,      \* outbox_jobs, named by the note and version that enqueued them
  snapshots, \* note_snapshots, keyed by note and version
  worker,    \* per worker process: where ProcessOnce is and what it has read
  reader,    \* per read request: where it is and what it has read
  answers,   \* documents the read endpoints have returned
  faults,    \* faults so far
  expiries   \* per job: lock timeouts so far (history)

db == <<version, blocks, changes, jobs, snapshots>>
history == <<faults, expiries>>
vars == <<db, worker, reader, answers, history>>

JobIds == Notes \X (1..MaxVersion)
Locks == {"none", "held", "stale"}
Job == [lock : Locks, due : BOOLEAN, completed : BOOLEAN]
Change == [note : Notes, result : 1..MaxVersion, seq : Nat]

(* The document: the note's version, the version that last changed its blocks *)
(* and lastAppliedCursor.                                                     *)
Document == [note : Notes \cup {NoNote}, version : 0..MaxVersion, blocks : 0..MaxVersion,
             cursor : Nat]
EmptyDocument == [note |-> NoNote, version |-> 0, blocks |-> 0, cursor |-> 0]

WorkerPCs == {"idle", "note", "blocks", "cursor", "insert", "complete", "fail"}
ReaderPCs == {"idle", "blocks", "cursor"}

ASSUME NamesAssumption == NoNote \notin Notes /\ NoJob \notin JobIds
ASSUME WorkersAssumption == IsFiniteSet(Workers)
ASSUME BoundsAssumption == /\ Threshold \in Nat \ {0} /\ MaxVersion \in Nat \ {0}
                           /\ MaxFaults \in Nat

MaxOf(S) == CHOOSE m \in S : \A x \in S : x <= m

-----------------------------------------------------------------------------
(* Queries.                                                                *)

ChangesOf(n) == {c \in changes : c.note = n}

\* Mutant: the note's first change instead of its last.
FirstCursor(n) ==
  IF ChangesOf(n) = {} THEN 0 ELSE CHOOSE m \in {c.seq : c \in ChangesOf(n)} :
                                     \A c \in ChangesOf(n) : m <= c.seq
\* COALESCE(MAX(global_sequence), 0).
GetLastAppliedCursorForNote(n) == MaxOf({c.seq : c \in ChangesOf(n)} \cup {0})

LastSnapshotVersion(n) == MaxOf({s.version : s \in {s \in snapshots : s.note = n}} \cup {0})

\* Counted in the transaction that has inserted the change of version v; here a
\* note has one change for each of its versions.
CountChangesSinceLastSnapshot(n, v) ==
  Cardinality({c.result : c \in ChangesOf(n)} \cup {v}) - LastSnapshotVersion(n)

\* Mutant: a lock never times out.
ClaimableUnlocked(j) ==
  j \in DOMAIN jobs /\ ~jobs[j].completed /\ jobs[j].due /\ jobs[j].lock = "none"
\* Mutant: the lock is not looked at.
ClaimableLocked(j) == j \in DOMAIN jobs /\ ~jobs[j].completed /\ jobs[j].due
\* The candidates of ClaimOutboxJob.  Which of them has the lowest available_at is
\* left open: elapsed times are not modelled, only that a time has passed.
Claimable(j) ==
  j \in DOMAIN jobs /\ ~jobs[j].completed /\ jobs[j].due /\ jobs[j].lock \in {"none", "stale"}

\* SET completed_at = now(), locked_at = NULL, by id alone.
CompleteOutboxJob(j) == [jobs EXCEPT ![j].completed = TRUE, ![j].lock = "none"]

\* Mutant: a failure reopens the job.
FailAndReopen(j) ==
  [jobs EXCEPT ![j].lock = "none", ![j].due = FALSE, ![j].completed = FALSE]
\* SET locked_at = NULL, available_at = now() + retryDelay, by id alone.
FailOutboxJob(j) == [jobs EXCEPT ![j].lock = "none", ![j].due = FALSE]

\* ON CONFLICT (note_id, version) DO UPDATE data and cursor.
InsertSnapshot(doc) ==
  {s \in snapshots : s.note # doc.note \/ s.version # doc.version} \cup {doc}

-----------------------------------------------------------------------------
(* The push side.                                                          *)

\* A batch commits: version, blocks, change row and job together.
Push(n, edits) ==
  LET v == version[n] + 1 IN
    /\ version[n] < MaxVersion
    /\ version' = [version EXCEPT ![n] = v]
    /\ blocks' = IF edits THEN [blocks EXCEPT ![n] = v] ELSE blocks
    /\ changes' = changes \cup {[note |-> n, result |-> v, seq |-> Cardinality(changes) + 1]}
    /\ jobs' = IF CountChangesSinceLastSnapshot(n, v) >= Threshold
               THEN [j \in DOMAIN jobs \cup {<<n, v>>} |->
                       IF j = <<n, v>> THEN [lock |-> "none", due |-> TRUE, completed |-> FALSE]
                       ELSE jobs[j]]
               ELSE jobs
    /\ UNCHANGED <<snapshots, worker, reader, answers, history>>

-----------------------------------------------------------------------------
(* The worker.                                                             *)

At(w, pc) == [worker EXCEPT ![w].pc = pc]
Idle == [pc |-> "idle", job |-> NoJob, doc |-> EmptyDocument]
JobNote(w) == worker[w].job[1]

ClaimOutboxJob(w, j) ==
  /\ worker[w].pc = "idle" /\ Claimable(j)
  /\ jobs' = [jobs EXCEPT ![j].lock = "held"]
  /\ worker' = [worker EXCEPT ![w] = [Idle EXCEPT !.pc = "note", !.job = j]]
  /\ UNCHANGED <<version, blocks, changes, snapshots, reader, answers, history>>

\* CreateSnapshot's check of ExpectedVersion follows the document reads.
ReadNote(w) ==
  /\ worker[w].pc = "note"
  /\ worker' = IF version[JobNote(w)] = 0 THEN At(w, "fail")
               ELSE [worker EXCEPT ![w].pc = "blocks", ![w].doc.note = JobNote(w),
                                   ![w].doc.version = version[JobNote(w)]]
  /\ UNCHANGED <<db, reader, answers, history>>

ReadBlocks(w) ==
  /\ worker[w].pc = "blocks"
  /\ worker' = [worker EXCEPT ![w].pc = "cursor", ![w].doc.blocks = blocks[JobNote(w)]]
  /\ UNCHANGED <<db, reader, answers, history>>

ReadCursor(w) ==
  /\ worker[w].pc = "cursor"
  /\ worker' = [worker EXCEPT
                  ![w].pc = IF worker[w].doc.version < worker[w].job[2] THEN "fail" ELSE "insert",
                  ![w].doc.cursor = GetLastAppliedCursorForNote(JobNote(w))]
  /\ UNCHANGED <<db, reader, answers, history>>

\* The upsert is the transaction's last statement, so its row lock is held no
\* longer than this step.
Insert(w) ==
  /\ worker[w].pc = "insert"
  /\ snapshots' = InsertSnapshot(worker[w].doc)
  /\ worker' = At(w, "complete")
  /\ UNCHANGED <<version, blocks, changes, jobs, reader, answers, history>>

Complete(w) ==
  /\ worker[w].pc = "complete"
  /\ jobs' = CompleteOutboxJob(worker[w].job)
  /\ worker' = [worker EXCEPT ![w] = Idle]
  /\ UNCHANGED <<version, blocks, changes, snapshots, reader, answers, history>>

Fail(w) ==
  /\ worker[w].pc = "fail"
  /\ jobs' = FailOutboxJob(worker[w].job)
  /\ worker' = [worker EXCEPT ![w] = Idle]
  /\ UNCHANGED <<version, blocks, changes, snapshots, reader, answers, history>>

Fault == faults < MaxFaults /\ faults' = faults + 1

\* Mutant: the error of processJob is dropped.
ProcessErrorIgnored(w) ==
  /\ worker[w].pc \in {"note", "blocks", "cursor", "insert"} /\ Fault
  /\ worker' = At(w, "complete")
  /\ UNCHANGED <<db, reader, answers, expiries>>
\* A statement of processJob fails: the transaction rolls back.
ProcessError(w) ==
  /\ worker[w].pc \in {"note", "blocks", "cursor", "insert"} /\ Fault
  /\ worker' = At(w, "fail")
  /\ UNCHANGED <<db, reader, answers, expiries>>

\* The commit takes effect and its answer is lost: processJob reports an error.
CommitUnknown(w) ==
  /\ worker[w].pc = "insert" /\ Fault
  /\ snapshots' = InsertSnapshot(worker[w].doc)
  /\ worker' = At(w, "fail")
  /\ UNCHANGED <<version, blocks, changes, jobs, reader, answers, expiries>>

\* The process dies, is stopped (its context fails every later statement), or
\* Complete or FailOutboxJob fails: the job stays locked.
Crash(w) ==
  /\ worker[w].pc # "idle" /\ Fault
  /\ worker' = [worker EXCEPT ![w] = Idle]
  /\ UNCHANGED <<db, reader, answers, expiries>>

\* Time: locked_at is older than lockTimeout, whoever holds the lock.
LockExpires(j) ==
  /\ j \in DOMAIN jobs /\ jobs[j].lock = "held"
  /\ jobs' = [jobs EXCEPT ![j].lock = "stale"]
  /\ expiries' = [expiries EXCEPT ![j] = @ + 1]
  /\ UNCHANGED <<version, blocks, changes, snapshots, worker, reader, answers, faults>>

RetryDue(j) ==
  /\ j \in DOMAIN jobs /\ ~jobs[j].due
  /\ jobs' = [jobs EXCEPT ![j].due = TRUE]
  /\ UNCHANGED <<version, blocks, changes, snapshots, worker, reader, answers, history>>

-----------------------------------------------------------------------------
(* Service.Get and SyncFullNote: the same three statements, without a       *)
(* transaction, for each requested note.                                    *)

ReaderStep(r, from, doc, to) ==
  /\ reader[r].pc = from
  /\ reader' = [reader EXCEPT ![r].pc = to, ![r].doc = doc]
  /\ UNCHANGED <<db, worker, history>>

\* GetNoteForOwner; an unknown note ends the request with Not Found.
GetNote(r, n) ==
  /\ version[n] > 0
  /\ ReaderStep(r, "idle", [EmptyDocument EXCEPT !.note = n, !.version = version[n]], "blocks")
  /\ UNCHANGED answers

GetBlocks(r) ==
  /\ reader[r].pc = "blocks"
  /\ ReaderStep(r, "blocks", [reader[r].doc EXCEPT !.blocks = blocks[reader[r].doc.note]], "cursor")
  /\ UNCHANGED answers

GetCursor(r) ==
  LET doc == [reader[r].doc EXCEPT
                !.cursor = GetLastAppliedCursorForNote(reader[r].doc.note)] IN
    /\ ReaderStep(r, "cursor", EmptyDocument, "idle")
    /\ answers' = answers \cup {doc}

-----------------------------------------------------------------------------
Init ==
  /\ version = [n \in Notes |-> 0] /\ blocks = [n \in Notes |-> 0]
  /\ changes = {} /\ snapshots = {} /\ answers = {}
  /\ jobs = [j \in {} |-> Idle]
  /\ worker = [w \in Workers |-> Idle]
  /\ reader = [r \in Readers |-> [pc |-> "idle", doc |-> EmptyDocument]]
  /\ faults = 0 /\ expiries = [j \in JobIds |-> 0]

ProcessOnce(w) ==
  \/ \E j \in JobIds : ClaimOutboxJob(w, j)
  \/ ReadNote(w) \/ ReadBlocks(w) \/ ReadCursor(w) \/ Insert(w) \/ Complete(w) \/ Fail(w)
Faults(w) == ProcessError(w) \/ CommitUnknown(w) \/ Crash(w)
Time(j) == LockExpires(j) \/ RetryDue(j)
Read(r) == (\E n \in Notes : GetNote(r, n)) \/ GetBlocks(r) \/ GetCursor(r)

Next == \/ \E n \in Notes, edits \in BOOLEAN : Push(n, edits)
        \/ \E w \in Workers : ProcessOnce(w) \/ Faults(w)
        \/ \E j \in JobIds : Time(j)
        \/ \E r \in Readers : Read(r)

Spec == Init /\ [][Next]_vars

(* Every worker process runs (a stopped one is restarted) and time passes.   *)
Fairness(W) == /\ \A w \in W : WF_vars(ProcessOnce(w))
               /\ \A j \in JobIds : WF_vars(Time(j))
FairSpec == Spec /\ Fairness(Workers)

-----------------------------------------------------------------------------
(* Properties.                                                             *)

TypeOK ==
  /\ version \in [Notes -> 0..MaxVersion] /\ blocks \in [Notes -> 0..MaxVersion]
  /\ changes \subseteq Change
  /\ DOMAIN jobs \subseteq JobIds /\ \A j \in DOMAIN jobs : jobs[j] \in Job
  /\ snapshots \subseteq Document /\ answers \subseteq Document
  /\ worker \in [Workers -> [pc : WorkerPCs, job : JobIds \cup {NoJob}, doc : Document]]
  /\ reader \in [Readers -> [pc : ReaderPCs, doc : Document]]
  /\ faults \in 0..MaxFaults /\ expiries \in [JobIds -> Nat]

\* The global sequence of the change that made version v of note n.
SeqOf(n, v) == IF v = 0 THEN 0 ELSE (CHOOSE c \in changes : c.note = n /\ c.result = v).seq

\* The cursor of a document covers what is in it: it is not lower than the sequence
\* of its version and of its blocks, so a client never replays a change the
\* document already has.  It may be higher.
NotBehind(doc) ==
  /\ doc.version \in 1..version[doc.note] /\ doc.blocks <= version[doc.note]
  /\ doc.cursor >= SeqOf(doc.note, doc.version) /\ doc.cursor >= SeqOf(doc.note, doc.blocks)

\* Snapshots and answers err on one side only, whatever commits between the
\* statements of GetNoteDocument and however many workers insert one version.
DocumentsNotBehind == \A doc \in snapshots \cup answers : NotBehind(doc)

\* A completed job has left a snapshot at least as new as the version that asked
\* for it, with late workers, failures and lost commit answers in between.
CompletedHasSnapshot ==
  \A j \in DOMAIN jobs :
    jobs[j].completed => \E s \in snapshots : s.note = j[1] /\ s.version >= j[2]

\* Two workers have the same job in hand only after its lock timed out, and one
\* worker more for each time it did: a late worker that completes or fails a job
\* it has lost gives its own place away, not a third one.
OverlapBounded ==
  \A j \in JobIds : Cardinality({w \in Workers : worker[w].job = j}) <= 1 + expiries[j]

\* A completed job stays completed and is never claimed again, also when a worker
\* that lost its lock reports a failure afterwards.
CompletedIsFinal ==
  [][\A j \in DOMAIN jobs : jobs[j].completed =>
       /\ jobs'[j].completed
       /\ \A w \in Workers : worker'[w].job = j => worker[w].job = j]_vars

\* Every job is completed, with crashed workers, failed statements and late ones.
JobsComplete ==
  \A j \in JobIds : (j \in DOMAIN jobs) ~> (j \in DOMAIN jobs /\ jobs[j].completed)

\* The document is the state of one moment: its version and its blocks are those
\* of the change its cursor names, so a client that resumes from the cursor has
\* everything before it.
OneMoment(doc) ==
  /\ doc.cursor = SeqOf(doc.note, doc.version)
  /\ doc.blocks <= doc.version

\* "Conflict and full-note sync snapshots expose the same `lastAppliedCursor` field
\* so a client can resume change replay from the cursor represented by the full
\* state." (documentation.md:416)
AnswersConsistent == \A doc \in answers : OneMoment(doc)
=============================================================================
