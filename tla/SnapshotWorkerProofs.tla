------------------------- MODULE SnapshotWorkerProofs -------------------------
(***************************************************************************)
(* Proofs about SnapshotWorker, for any number of notes, workers, readers, *)
(* versions and faults.                                                    *)
(*                                                                         *)
(* The inductive invariant adds to TypeOK that a note has exactly one      *)
(* change for each of its versions (ChangesOK), what a worker or a reader  *)
(* has read by the statement it is at (WorkerOK, ReaderOK), and, for the   *)
(* overlap of workers, that a job whose lock is not held has one worker    *)
(* less than it may have (OverlapInv).                                     *)
(***************************************************************************)
EXTENDS SnapshotWorker, FiniteSetTheorems, WellFoundedInduction, NaturalsInduction, TLAPS

WorkerRecord == [pc : WorkerPCs, job : JobIds \cup {NoJob}, doc : Document]

ChangesOK ==
  /\ IsFiniteSet(changes)
  /\ \A c \in changes : c.seq <= Cardinality(changes) /\ c.result <= version[c.note]
  /\ \A n \in Notes : \A v \in 1..version[n] : \E c \in changes : c.note = n /\ c.result = v
  /\ \A c, d \in changes : c.note = d.note /\ c.result = d.result => c = d

HasSnapshot(n, v) == \E s \in snapshots : s.note = n /\ s.version >= v

WorkerOK(w) ==
  /\ worker[w].pc = "idle" <=> worker[w].job = NoJob
  /\ worker[w].pc # "idle" => worker[w].job \in DOMAIN jobs
  /\ worker[w].pc \in {"blocks", "cursor", "insert"} =>
       /\ worker[w].doc.note = JobNote(w) /\ worker[w].doc.version \in 1..version[JobNote(w)]
  /\ worker[w].pc = "cursor" => worker[w].doc.blocks <= version[JobNote(w)]
  /\ worker[w].pc = "insert" => /\ NotBehind(worker[w].doc)
                                /\ worker[w].doc.version >= worker[w].job[2]
  /\ worker[w].pc = "complete" => HasSnapshot(JobNote(w), worker[w].job[2])

ReaderOK(r) ==
  /\ reader[r].pc # "idle" =>
       reader[r].doc.note \in Notes /\ reader[r].doc.version \in 1..version[reader[r].doc.note]
  /\ reader[r].pc = "cursor" => reader[r].doc.blocks <= version[reader[r].doc.note]

DocumentsOK == \A doc \in snapshots \cup answers : doc.note \in Notes /\ NotBehind(doc)

JobsOK == \A j \in DOMAIN jobs : jobs[j].completed => HasSnapshot(j[1], j[2])

SInv ==
  /\ TypeOK
  /\ ChangesOK
  /\ \A n \in Notes : blocks[n] <= version[n]
  /\ \A w \in Workers : WorkerOK(w)
  /\ \A r \in Readers : ReaderOK(r)
  /\ DocumentsOK
  /\ JobsOK

-----------------------------------------------------------------------------
(* Maxima, sequences and cursors.                                          *)

\* A bounded set of naturals that is not empty has a maximum.
LEMMA MaxOfBounded ==
  ASSUME NEW S, S \subseteq Nat, S # {}, NEW N \in Nat, \A s \in S : s <= N
  PROVE  MaxOf(S) \in S /\ \A s \in S : s <= MaxOf(S)
<1> DEFINE gaps == {k \in Nat : \E s \in S : k = N - s}
<1>1. gaps \subseteq Nat /\ gaps # {}
  <2>1. PICK s \in S : TRUE
    OBVIOUS
  <2>2. N - s \in gaps
    OBVIOUS
  <2> QED
    BY <2>2
<1>2. PICK g \in gaps : \A k \in gaps : ~(<<k, g>> \in OpToRel(<, Nat))
  BY <1>1, NatLessThanWellFounded, WFMin, Zenon
<1>3. \A k \in gaps : ~(k < g)
  BY <1>1, <1>2 DEF OpToRel
<1>4. PICK m \in S : g = N - m
  OBVIOUS
<1>5. \A s \in S : s <= m
  <2> TAKE s \in S
  <2>1. N - s \in gaps
    OBVIOUS
  <2>2. ~(N - s < N - m)
    BY <1>3, <1>4, <2>1
  <2> QED
    BY <2>2
<1> QED
  BY <1>4, <1>5 DEF MaxOf

\* The last cursor of a note is not lower than the sequence of any of its changes.
LEMMA LastCursor ==
  ASSUME SInv, NEW n \in Notes
  PROVE  /\ GetLastAppliedCursorForNote(n) \in Nat
         /\ \A c \in changes : c.note = n => c.seq <= GetLastAppliedCursorForNote(n)
<1> DEFINE S == {c.seq : c \in ChangesOf(n)} \cup {0}
<1>1. Cardinality(changes) \in Nat
  BY FS_CardinalityType DEF SInv, ChangesOK
<1>2. S \subseteq Nat /\ S # {} /\ \A s \in S : s <= Cardinality(changes)
  BY <1>1 DEF SInv, TypeOK, ChangesOK, ChangesOf, Change
<1>3. MaxOf(S) \in S /\ \A s \in S : s <= MaxOf(S)
  BY <1>1, <1>2, MaxOfBounded
<1>4. \A c \in changes : c.note = n => c.seq \in S
  BY DEF ChangesOf
<1> QED
  BY <1>2, <1>3, <1>4 DEF GetLastAppliedCursorForNote

\* SeqOf is the sequence of a change of the note, or zero.
LEMMA SeqOfChange ==
  ASSUME SInv, NEW n \in Notes, NEW v \in 0..version[n]
  PROVE  \/ v = 0 /\ SeqOf(n, v) = 0
         \/ /\ v # 0
            /\ \E c \in changes : c.note = n /\ c.result = v /\ SeqOf(n, v) = c.seq
<1>1. CASE v = 0
  <2>1. SeqOf(n, v) = 0
    BY <1>1, Zenon DEF SeqOf
  <2> QED
    BY <1>1, <2>1
<1>2. CASE v # 0
  <2>1. \E c \in changes : c.note = n /\ c.result = v
    BY <1>2 DEF SInv, ChangesOK, TypeOK
  <2> DEFINE d == CHOOSE c \in changes : c.note = n /\ c.result = v
  <2>2. d \in changes /\ d.note = n /\ d.result = v
    BY <2>1
  <2>3. SeqOf(n, v) = d.seq
    BY <1>2 DEF SeqOf
  <2> QED
    BY <1>2, <2>2, <2>3
<1> QED
  BY <1>1, <1>2

\* So the last cursor covers every version the note has reached.
LEMMA LastCursorCovers ==
  ASSUME SInv, NEW n \in Notes, NEW v \in 0..version[n]
  PROVE  GetLastAppliedCursorForNote(n) >= SeqOf(n, v)
<1>1. SeqOf(n, v) = 0 \/ \E c \in changes : c.note = n /\ SeqOf(n, v) = c.seq
  BY SeqOfChange
<1>2. \A c \in changes : c.seq \in Nat
  BY DEF SInv, TypeOK, Change
<1> QED
  BY <1>1, <1>2, LastCursor

-----------------------------------------------------------------------------
(* What every step leaves true.                                            *)

\* Versions grow, what is known of a version stays, jobs and snapshots remain.
Evolves ==
  /\ \A n \in Notes : version'[n] \in Nat /\ version[n] <= version'[n]
  /\ \A n \in Notes : \A v \in 0..version[n] : SeqOf(n, v)' = SeqOf(n, v)
  /\ DOMAIN jobs \subseteq DOMAIN jobs'
  /\ \A n \in Notes : \A v \in Nat : HasSnapshot(n, v) => HasSnapshot(n, v)'

LEMMA NotBehindKept ==
  ASSUME SInv, Evolves, NEW doc \in Document, doc.note \in Notes, NotBehind(doc)
  PROVE  NotBehind(doc)'
<1> DEFINE n == doc.note
<1>1. version[n] \in Nat /\ doc.version \in Nat /\ doc.blocks \in Nat /\ doc.cursor \in Nat
  BY BoundsAssumption DEF SInv, TypeOK, Document
<1>2. doc.version \in 0..version[n] /\ doc.blocks \in 0..version[n] /\ doc.version >= 1
  BY <1>1 DEF NotBehind
<1>3. SeqOf(n, doc.version)' = SeqOf(n, doc.version) /\ SeqOf(n, doc.blocks)' = SeqOf(n, doc.blocks)
  BY <1>2 DEF Evolves
<1>4. version'[n] \in Nat /\ version[n] <= version'[n]
  BY DEF Evolves
<1> QED
  BY <1>1, <1>2, <1>3, <1>4 DEF NotBehind

LEMMA WorkerKept ==
  ASSUME SInv, Evolves, NEW w \in Workers, worker'[w] = worker[w]
  PROVE  WorkerOK(w)'
<1>1. WorkerOK(w) /\ worker[w] \in WorkerRecord /\ worker[w].doc \in Document
  BY DEF SInv, TypeOK, WorkerRecord
<1>2. worker[w].pc # "idle" =>
        /\ worker[w].job \in DOMAIN jobs' /\ JobNote(w) \in Notes /\ worker[w].job[2] \in Nat
        /\ version[JobNote(w)] \in Nat /\ version'[JobNote(w)] \in Nat
        /\ version[JobNote(w)] <= version'[JobNote(w)]
  BY <1>1 DEF WorkerOK, SInv, TypeOK, JobIds, JobNote, Evolves
<1>3. JobNote(w)' = JobNote(w)
  BY DEF JobNote
<1>4. worker[w].pc = "insert" => NotBehind(worker[w].doc)'
  BY <1>1, <1>2, NotBehindKept DEF WorkerOK
<1>5. worker[w].pc = "complete" => HasSnapshot(JobNote(w), worker[w].job[2])'
  BY <1>1, <1>2, <1>3 DEF WorkerOK, Evolves
<1>6. worker[w].doc.version \in Nat /\ worker[w].doc.blocks \in Nat
  BY <1>1, BoundsAssumption DEF Document
<1> QED
  BY <1>1, <1>2, <1>3, <1>4, <1>5, <1>6 DEF WorkerOK

LEMMA ReaderKept ==
  ASSUME SInv, Evolves, NEW r \in Readers, reader'[r] = reader[r]
  PROVE  ReaderOK(r)'
<1>1. ReaderOK(r) /\ reader[r].doc.version \in Nat /\ reader[r].doc.blocks \in Nat
  BY BoundsAssumption DEF SInv, TypeOK, Document
<1>2. \A n \in Notes : version[n] \in Nat /\ version'[n] \in Nat /\ version[n] <= version'[n]
  BY DEF SInv, TypeOK, Evolves
<1> QED
  BY <1>1, <1>2 DEF ReaderOK

\* The part of the tables that only Push changes.
NotesKept == version' = version /\ blocks' = blocks /\ changes' = changes

LEMMA NotesKeptEvolves ==
  ASSUME SInv, NotesKept, DOMAIN jobs \subseteq DOMAIN jobs',
         \A n \in Notes : \A v \in Nat : HasSnapshot(n, v) => HasSnapshot(n, v)'
  PROVE  Evolves
<1>1. \A n \in Notes : version'[n] \in Nat /\ version[n] <= version'[n]
  BY DEF SInv, TypeOK, NotesKept
<1>2. \A n \in Notes : \A v \in 0..version[n] : SeqOf(n, v)' = SeqOf(n, v)
  BY DEF NotesKept, SeqOf
<1> QED
  BY <1>1, <1>2 DEF Evolves

\* A step of worker w that leaves the notes alone.
LEMMA WorkerStep ==
  ASSUME SInv, NEW w \in Workers, NEW x \in WorkerRecord, worker' = [worker EXCEPT ![w] = x],
         NotesKept, reader' = reader, answers' = answers,
         expiries' = expiries, faults' \in 0..MaxFaults,
         DOMAIN jobs' = DOMAIN jobs, \A j \in DOMAIN jobs : jobs'[j] \in Job,
         snapshots' \subseteq Document,
         \A s \in snapshots' : s \in snapshots \/ (s.note \in Notes /\ NotBehind(s)),
         \A n \in Notes : \A v \in Nat : HasSnapshot(n, v) => HasSnapshot(n, v)',
         \A j \in DOMAIN jobs : jobs'[j].completed => jobs[j].completed \/ HasSnapshot(j[1], j[2])',
         WorkerOK(w)'
  PROVE  SInv'
<1>1. Evolves
  BY NotesKeptEvolves
<1>2. TypeOK'
  BY DEF SInv, TypeOK, NotesKept, WorkerRecord
<1>3. ChangesOK' /\ \A n \in Notes : blocks'[n] <= version'[n]
  BY DEF SInv, ChangesOK, NotesKept
<1>4. \A q \in Workers : WorkerOK(q)'
  <2> SUFFICES ASSUME NEW q \in Workers, q # w PROVE WorkerOK(q)'
    OBVIOUS
  <2>1. worker'[q] = worker[q]
    BY DEF SInv, TypeOK
  <2> QED
    BY <1>1, <2>1, WorkerKept
<1>5. \A r \in Readers : ReaderOK(r)'
  BY <1>1, ReaderKept
<1>6. DocumentsOK'
  <2> SUFFICES ASSUME NEW doc \in snapshots' \cup answers
               PROVE  doc.note \in Notes /\ NotBehind(doc)'
    BY DEF DocumentsOK
  <2>1. doc \in Document /\ doc.note \in Notes /\ NotBehind(doc)
    BY DEF SInv, TypeOK, DocumentsOK
  <2> QED
    BY <1>1, <2>1, NotBehindKept
<1>7. JobsOK'
  <2> SUFFICES ASSUME NEW j \in DOMAIN jobs, jobs'[j].completed PROVE HasSnapshot(j[1], j[2])'
    BY DEF JobsOK
  <2>1. j[1] \in Notes /\ j[2] \in Nat
    BY DEF SInv, TypeOK, JobIds
  <2>2. CASE jobs[j].completed
    BY <2>1, <2>2 DEF SInv, JobsOK
  <2> QED
    BY <2>2
<1> QED
  BY <1>2, <1>3, <1>4, <1>5, <1>6, <1>7 DEF SInv

-----------------------------------------------------------------------------
(* The steps of a worker.                                                  *)

\* A worker step that moves only the worker.
LEMMA QuietWorkerStep ==
  ASSUME SInv, NEW w \in Workers, NEW x \in WorkerRecord, worker' = [worker EXCEPT ![w] = x],
         NotesKept, reader' = reader, answers' = answers, jobs' = jobs, snapshots' = snapshots,
         expiries' = expiries, faults' \in 0..MaxFaults, WorkerOK(w)'
  PROVE  SInv'
<1>1. \A n \in Notes : \A v \in Nat : HasSnapshot(n, v) => HasSnapshot(n, v)'
  BY DEF HasSnapshot
<1>2. snapshots' \subseteq Document /\ \A j \in DOMAIN jobs : jobs'[j] \in Job
  BY DEF SInv, TypeOK
<1> QED
  BY <1>1, <1>2, WorkerStep

LEMMA IdleRecord == Idle \in WorkerRecord /\ Idle.pc = "idle" /\ Idle.job = NoJob
BY BoundsAssumption DEF Idle, WorkerRecord, WorkerPCs, EmptyDocument, Document

LEMMA ClaimInv ==
  ASSUME SInv, NEW w \in Workers, NEW j \in JobIds, ClaimOutboxJob(w, j)
  PROVE  SInv'
<1> DEFINE x == [Idle EXCEPT !.pc = "note", !.job = j]
<1>1. x \in WorkerRecord /\ x.pc = "note" /\ x.job = j
  BY IdleRecord DEF WorkerRecord, WorkerPCs, Idle
<1>2. worker' = [worker EXCEPT ![w] = x] /\ worker'[w] = x
  BY DEF ClaimOutboxJob, SInv, TypeOK
<1>3. j \in DOMAIN jobs /\ jobs' = [jobs EXCEPT ![j].lock = "held"]
  BY DEF ClaimOutboxJob, Claimable
<1>4. DOMAIN jobs' = DOMAIN jobs /\ \A i \in DOMAIN jobs : jobs'[i] \in Job /\ jobs'[i].completed = jobs[i].completed
  BY <1>3 DEF SInv, TypeOK, Job, Locks
<1>5. WorkerOK(w)'
  <2>1. worker'[w].pc = "note" /\ worker'[w].job = j /\ j # NoJob /\ j \in DOMAIN jobs'
    BY <1>1, <1>2, <1>3, <1>4, NamesAssumption
  <2> QED
    BY <2>1 DEF WorkerOK
<1>6. /\ NotesKept /\ reader' = reader /\ answers' = answers /\ snapshots' = snapshots
      /\ expiries' = expiries /\ faults' = faults
  BY DEF ClaimOutboxJob, NotesKept, history
<1>7. snapshots' \subseteq Document /\ faults' \in 0..MaxFaults
  BY <1>6 DEF SInv, TypeOK
<1>8. \A n \in Notes : \A v \in Nat : HasSnapshot(n, v) => HasSnapshot(n, v)'
  BY <1>6 DEF HasSnapshot
<1> HIDE DEF x
<1> QED
  BY <1>1, <1>2, <1>4, <1>5, <1>6, <1>7, <1>8, WorkerStep

\* The statement a busy worker is at, and the job it has.
LEMMA BusyWorker ==
  ASSUME SInv, NEW w \in Workers, worker[w].pc # "idle"
  PROVE  /\ worker[w].job \in DOMAIN jobs /\ worker[w].job \in JobIds /\ worker[w].job # NoJob
         /\ JobNote(w) \in Notes /\ worker[w].job[2] \in Nat
         /\ worker[w] \in WorkerRecord /\ worker[w].doc \in Document
         /\ version[JobNote(w)] \in Nat /\ version[JobNote(w)] \in 0..MaxVersion
<1>1. WorkerOK(w) /\ worker[w] \in WorkerRecord
  BY DEF SInv, TypeOK, WorkerRecord
<1>2. worker[w].job \in DOMAIN jobs /\ worker[w].job \in JobIds /\ worker[w].job # NoJob
  BY <1>1, NamesAssumption DEF WorkerOK, SInv, TypeOK
<1>3. JobNote(w) \in Notes /\ worker[w].job[2] \in Nat
  BY <1>2 DEF JobIds, JobNote
<1> QED
  BY <1>1, <1>2, <1>3, BoundsAssumption DEF SInv, TypeOK, WorkerRecord

\* Moving a busy worker to the end of a failed job.
LEMMA ToFail ==
  ASSUME SInv, NEW w \in Workers, worker[w].pc # "idle", worker' = At(w, "fail"),
         NotesKept, reader' = reader, answers' = answers, jobs' = jobs, snapshots' = snapshots,
         expiries' = expiries, faults' \in 0..MaxFaults
  PROVE  SInv'
<1> DEFINE x == [worker[w] EXCEPT !.pc = "fail"]
<1>1. x \in WorkerRecord /\ x.pc = "fail" /\ x.job = worker[w].job
  BY BusyWorker DEF WorkerRecord, WorkerPCs
<1>2. worker' = [worker EXCEPT ![w] = x] /\ worker'[w] = x
  BY DEF At, SInv, TypeOK
<1>3. WorkerOK(w)'
  BY <1>1, <1>2, BusyWorker DEF WorkerOK
<1> HIDE DEF x
<1> QED
  BY <1>1, <1>2, <1>3, QuietWorkerStep

LEMMA ReadNoteInv ==
  ASSUME SInv, NEW w \in Workers, ReadNote(w)
  PROVE  SInv'
<1> DEFINE n == JobNote(w)
           doc == [worker[w].doc EXCEPT !.note = n, !.version = version[n]]
           x == [worker[w] EXCEPT !.pc = "blocks", !.doc = doc]
<1>1. worker[w].pc = "note" /\ worker[w].pc # "idle"
  BY DEF ReadNote
<1>2. /\ NotesKept /\ reader' = reader /\ answers' = answers /\ jobs' = jobs
      /\ snapshots' = snapshots /\ expiries' = expiries /\ faults' \in 0..MaxFaults
  BY DEF ReadNote, NotesKept, db, history, SInv, TypeOK
<1>3. CASE version[n] = 0
  BY <1>1, <1>2, <1>3, ToFail DEF ReadNote
<1>4. CASE version[n] # 0
  <2>1. doc \in Document /\ x \in WorkerRecord /\ n \in Notes /\ version[n] \in 1..version[n]
    <3>1. n \in Notes /\ version[n] \in 0..MaxVersion /\ version[n] \in 1..version[n]
          /\ worker[w].doc \in Document /\ worker[w] \in WorkerRecord
      BY <1>1, <1>4, BusyWorker
    <3>2. doc \in Document
      <4> HIDE DEF n
      <4> QED
        BY <3>1 DEF Document
    <3> HIDE DEF doc
    <3>3. x \in WorkerRecord
      BY <3>1, <3>2 DEF WorkerRecord, WorkerPCs
    <3> QED
      BY <3>1, <3>2, <3>3
  <2>0. doc.note = n /\ doc.version = version[n] /\ x.pc = "blocks" /\ x.job = worker[w].job /\ x.doc = doc
    BY <1>1, BusyWorker DEF Document, WorkerRecord
  <2>2. worker' = [worker EXCEPT ![w].pc = "blocks", ![w].doc.note = n, ![w].doc.version = version[n]]
    BY <1>4 DEF ReadNote
  <2>3. worker' = [worker EXCEPT ![w] = x]
    BY <2>2 DEF SInv, TypeOK
  <2>4. worker'[w] = x
    BY <2>3 DEF SInv, TypeOK
  <2>5. WorkerOK(w)'
    <3> HIDE DEF x, doc
    <3> QED
      BY <1>1, <1>2, <2>0, <2>1, <2>4, BusyWorker DEF WorkerOK, JobNote, NotesKept
  <2> HIDE DEF x
  <2> QED
    BY <1>2, <2>1, <2>3, <2>5, QuietWorkerStep
<1> QED
  BY <1>3, <1>4

LEMMA ReadBlocksInv ==
  ASSUME SInv, NEW w \in Workers, ReadBlocks(w)
  PROVE  SInv'
<1> DEFINE n == JobNote(w)
           doc == [worker[w].doc EXCEPT !.blocks = blocks[n]]
           x == [worker[w] EXCEPT !.pc = "cursor", !.doc = doc]
<1>1. worker[w].pc = "blocks" /\ worker[w].pc # "idle" /\ WorkerOK(w)
  BY DEF ReadBlocks, SInv
<1>2. /\ NotesKept /\ reader' = reader /\ answers' = answers /\ jobs' = jobs
      /\ snapshots' = snapshots /\ expiries' = expiries /\ faults' \in 0..MaxFaults
  BY DEF ReadBlocks, NotesKept, db, history, SInv, TypeOK
<1>3. blocks[n] \in 0..MaxVersion /\ blocks[n] <= version[n]
  BY <1>1, BusyWorker DEF SInv, TypeOK
<1>4. doc \in Document /\ x \in WorkerRecord
  <2>1. worker[w].doc \in Document /\ worker[w] \in WorkerRecord
    BY <1>1, BusyWorker
  <2>2. doc \in Document
    BY <1>3, <2>1 DEF Document
  <2> HIDE DEF doc
  <2> QED
    BY <2>1, <2>2 DEF WorkerRecord, WorkerPCs
<1>0. doc.note = worker[w].doc.note /\ doc.version = worker[w].doc.version /\ doc.blocks = blocks[n]
          /\ x.pc = "cursor" /\ x.job = worker[w].job /\ x.doc = doc
  BY <1>1, BusyWorker DEF Document, WorkerRecord
<1>5. worker' = [worker EXCEPT ![w] = x]
  BY DEF ReadBlocks, SInv, TypeOK
<1>6. worker'[w] = x
  BY <1>5 DEF SInv, TypeOK
<1>7. WorkerOK(w)'
  <2> HIDE DEF x, doc
  <2> QED
    BY <1>0, <1>1, <1>2, <1>3, <1>6, BusyWorker DEF WorkerOK, JobNote, NotesKept
<1> HIDE DEF x
<1> QED
  BY <1>2, <1>4, <1>5, <1>7, QuietWorkerStep

LEMMA ReadCursorInv ==
  ASSUME SInv, NEW w \in Workers, ReadCursor(w)
  PROVE  SInv'
<1> DEFINE n == JobNote(w)
           doc == [worker[w].doc EXCEPT !.cursor = GetLastAppliedCursorForNote(n)]
           to == IF worker[w].doc.version < worker[w].job[2] THEN "fail" ELSE "insert"
           x == [worker[w] EXCEPT !.pc = to, !.doc = doc]
<1>1. worker[w].pc = "cursor" /\ worker[w].pc # "idle" /\ WorkerOK(w)
  BY DEF ReadCursor, SInv
<1>2. /\ NotesKept /\ reader' = reader /\ answers' = answers /\ jobs' = jobs
      /\ snapshots' = snapshots /\ expiries' = expiries /\ faults' \in 0..MaxFaults
  BY DEF ReadCursor, NotesKept, db, history, SInv, TypeOK
<1>3. /\ n \in Notes /\ worker[w].doc.note = n /\ worker[w].doc.version \in 1..version[n]
      /\ worker[w].doc.blocks \in 0..version[n] /\ worker[w].doc.version \in 0..version[n]
  BY <1>1, BusyWorker, BoundsAssumption DEF WorkerOK, Document
<1>4. GetLastAppliedCursorForNote(n) \in Nat
  BY <1>3, LastCursor
<1>5. doc \in Document /\ x \in WorkerRecord
  <2>1. worker[w].doc \in Document /\ worker[w] \in WorkerRecord
    BY <1>1, BusyWorker
  <2>2. doc \in Document
    BY <1>4, <2>1 DEF Document
  <2> HIDE DEF doc
  <2> QED
    BY <2>1, <2>2 DEF WorkerRecord, WorkerPCs
<1>0. /\ doc.note = n /\ doc.version = worker[w].doc.version
      /\ doc.blocks = worker[w].doc.blocks /\ doc.cursor = GetLastAppliedCursorForNote(n)
      /\ x.pc = to /\ x.job = worker[w].job /\ x.doc = doc
  BY <1>1, <1>3, BusyWorker DEF Document, WorkerRecord
<1>6. NotBehind(doc)
  <2>1. GetLastAppliedCursorForNote(n) >= SeqOf(n, worker[w].doc.version)
    BY <1>3, LastCursorCovers
  <2>2. GetLastAppliedCursorForNote(n) >= SeqOf(n, worker[w].doc.blocks)
    BY <1>3, LastCursorCovers
  <2> HIDE DEF doc
  <2> QED
    BY <1>0, <1>3, <2>1, <2>2 DEF NotBehind
<1>7. worker' = [worker EXCEPT ![w] = x]
  BY DEF ReadCursor, SInv, TypeOK
<1>8. worker'[w] = x
  BY <1>7 DEF SInv, TypeOK
<1>9. WorkerOK(w)'
  <2>1. JobNote(w)' = n /\ version' = version /\ jobs' = jobs
    BY <1>0, <1>2, <1>8 DEF JobNote, NotesKept
  <2>2. worker[w].doc.version \in Nat /\ worker[w].job[2] \in Nat /\ worker[w].job \in DOMAIN jobs
        /\ worker[w].job # NoJob
    BY <1>1, BusyWorker, BoundsAssumption DEF Document
  <2>3. \A m, v : SeqOf(m, v)' = SeqOf(m, v)
    BY <1>2 DEF NotesKept, SeqOf
  <2> HIDE DEF n, doc, x
  <2>4. NotBehind(worker[w].doc)'
    BY <1>0, <1>6, <1>8, <2>1, <2>3 DEF NotBehind
  <2> QED
    BY <1>0, <1>3, <1>8, <2>1, <2>2, <2>4 DEF WorkerOK
<1> HIDE DEF x
<1> QED
  BY <1>2, <1>5, <1>7, <1>9, QuietWorkerStep

\* An upsert replaces a snapshot by one of the same note and version.
LEMMA UpsertKeeps ==
  ASSUME SInv, NEW doc \in Document, doc.note \in Notes, snapshots' = InsertSnapshot(doc)
  PROVE  /\ snapshots' \subseteq Document /\ doc \in snapshots'
         /\ \A s \in snapshots' : s \in snapshots \/ s = doc
         /\ \A n \in Notes : \A v \in Nat : HasSnapshot(n, v) => HasSnapshot(n, v)'
<1>1. snapshots' \subseteq Document /\ doc \in snapshots'
  BY DEF SInv, TypeOK, InsertSnapshot
<1>2. \A s \in snapshots' : s \in snapshots \/ s = doc
  BY DEF InsertSnapshot
<1>3. \A s \in snapshots : s \in snapshots' \/ (s.note = doc.note /\ s.version = doc.version)
  BY DEF InsertSnapshot
<1>4. \A n \in Notes : \A v \in Nat : HasSnapshot(n, v) => HasSnapshot(n, v)'
  BY <1>1, <1>3 DEF HasSnapshot
<1> QED
  BY <1>1, <1>2, <1>4

\* The upsert of a worker that goes on to pc.
LEMMA UpsertInv ==
  ASSUME SInv, NEW w \in Workers, worker[w].pc = "insert", NEW pc \in {"complete", "fail"},
         snapshots' = InsertSnapshot(worker[w].doc), worker' = At(w, pc),
         NotesKept, jobs' = jobs, reader' = reader, answers' = answers,
         expiries' = expiries, faults' \in 0..MaxFaults
  PROVE  SInv'
<1> DEFINE doc == worker[w].doc
           x == [worker[w] EXCEPT !.pc = pc]
<1>1. /\ WorkerOK(w) /\ doc \in Document /\ doc.note = JobNote(w) /\ JobNote(w) \in Notes
      /\ NotBehind(doc) /\ doc.version >= worker[w].job[2] /\ worker[w] \in WorkerRecord
  BY BusyWorker DEF SInv, WorkerOK
<1>2. x \in WorkerRecord /\ x.pc = pc /\ x.job = worker[w].job
  BY <1>1 DEF WorkerRecord, WorkerPCs
<1>3. worker' = [worker EXCEPT ![w] = x] /\ worker'[w] = x
  BY DEF At, SInv, TypeOK
<1>4. /\ snapshots' \subseteq Document /\ doc \in snapshots'
      /\ \A s \in snapshots' : s \in snapshots \/ s = doc
      /\ \A n \in Notes : \A v \in Nat : HasSnapshot(n, v) => HasSnapshot(n, v)'
  BY <1>1, UpsertKeeps
<1>5. WorkerOK(w)'
  <2>1. worker[w].job \in DOMAIN jobs' /\ worker[w].job # NoJob
    BY BusyWorker
  <2>2. HasSnapshot(JobNote(w), worker[w].job[2])'
    BY <1>1, <1>2, <1>3, <1>4 DEF HasSnapshot, JobNote
  <2> HIDE DEF x, doc
  <2> QED
    BY <1>2, <1>3, <2>1, <2>2 DEF WorkerOK
<1>6. \A s \in snapshots' : s \in snapshots \/ (s.note \in Notes /\ NotBehind(s))
  BY <1>1, <1>4
<1>7. \A j \in DOMAIN jobs : jobs'[j] \in Job
  BY DEF SInv, TypeOK
<1> HIDE DEF x, doc
<1> QED
  BY <1>2, <1>3, <1>4, <1>5, <1>6, <1>7, WorkerStep

LEMMA InsertInv ==
  ASSUME SInv, NEW w \in Workers, Insert(w) \/ CommitUnknown(w)
  PROVE  SInv'
<1>1. faults \in Nat /\ faults \in 0..MaxFaults
  BY BoundsAssumption DEF SInv, TypeOK
<1>2. CASE Insert(w)
  BY <1>1, <1>2, UpsertInv DEF Insert, NotesKept, history
<1>3. CASE CommitUnknown(w)
  BY <1>1, <1>3, UpsertInv, BoundsAssumption DEF CommitUnknown, Fault, NotesKept
<1> QED
  BY <1>2, <1>3

\* A worker that gives its job back, to a table that may have changed that job.
LEMMA ReleaseInv ==
  ASSUME SInv, NEW w \in Workers, worker' = [worker EXCEPT ![w] = Idle],
         NotesKept, snapshots' = snapshots, reader' = reader, answers' = answers,
         expiries' = expiries, faults' \in 0..MaxFaults,
         DOMAIN jobs' = DOMAIN jobs, \A j \in DOMAIN jobs : jobs'[j] \in Job,
         \A j \in DOMAIN jobs : jobs'[j].completed => jobs[j].completed \/ HasSnapshot(j[1], j[2])
  PROVE  SInv'
<1>1. worker'[w] = Idle
  BY DEF SInv, TypeOK
<1>2. WorkerOK(w)'
  BY <1>1, IdleRecord DEF WorkerOK
<1>3. \A n \in Notes : \A v \in Nat : HasSnapshot(n, v) => HasSnapshot(n, v)'
  BY DEF HasSnapshot
<1>4. \A j \in DOMAIN jobs : j[1] \in Notes /\ j[2] \in Nat
  BY DEF SInv, TypeOK, JobIds
<1>5. snapshots' \subseteq Document
  BY DEF SInv, TypeOK
<1> QED
  BY <1>2, <1>3, <1>4, <1>5, IdleRecord, WorkerStep

LEMMA CompleteInv ==
  ASSUME SInv, NEW w \in Workers, Complete(w)
  PROVE  SInv'
<1> DEFINE j == worker[w].job
<1>1. worker[w].pc = "complete" /\ j \in DOMAIN jobs
  BY BusyWorker DEF Complete
<1>2. jobs' = [jobs EXCEPT ![j].completed = TRUE, ![j].lock = "none"]
  BY DEF Complete, CompleteOutboxJob
<1> HIDE DEF j
<1>3. \A i \in DOMAIN jobs : jobs'[i] \in Job /\ (i # j => jobs'[i] = jobs[i])
  BY <1>1, <1>2 DEF SInv, TypeOK, Job, Locks
<1>4. DOMAIN jobs' = DOMAIN jobs
  BY <1>2
<1>5. HasSnapshot(j[1], j[2])
  BY <1>1 DEF SInv, WorkerOK, JobNote, j
<1>6. /\ worker' = [worker EXCEPT ![w] = Idle] /\ NotesKept /\ snapshots' = snapshots
      /\ reader' = reader /\ answers' = answers /\ expiries' = expiries /\ faults' \in 0..MaxFaults
  BY DEF Complete, NotesKept, history, SInv, TypeOK
<1> QED
  BY <1>3, <1>4, <1>5, <1>6, ReleaseInv

LEMMA FailInv ==
  ASSUME SInv, NEW w \in Workers, Fail(w)
  PROVE  SInv'
<1> DEFINE j == worker[w].job
<1>1. worker[w].pc = "fail" /\ j \in DOMAIN jobs
  BY BusyWorker DEF Fail
<1>2. jobs' = [jobs EXCEPT ![j].lock = "none", ![j].due = FALSE]
  BY DEF Fail, FailOutboxJob
<1> HIDE DEF j
<1>3. \A i \in DOMAIN jobs : jobs'[i] \in Job /\ jobs'[i].completed = jobs[i].completed
  BY <1>1, <1>2 DEF SInv, TypeOK, Job, Locks
<1>4. DOMAIN jobs' = DOMAIN jobs
  BY <1>2
<1>5. /\ worker' = [worker EXCEPT ![w] = Idle] /\ NotesKept /\ snapshots' = snapshots
      /\ reader' = reader /\ answers' = answers /\ expiries' = expiries /\ faults' \in 0..MaxFaults
  BY DEF Fail, NotesKept, history, SInv, TypeOK
<1> QED
  BY <1>3, <1>4, <1>5, ReleaseInv

LEMMA FaultInv ==
  ASSUME SInv, NEW w \in Workers, ProcessError(w) \/ Crash(w)
  PROVE  SInv'
<1>1. faults' \in 0..MaxFaults
  BY BoundsAssumption DEF ProcessError, Crash, Fault, SInv, TypeOK
<1>2. CASE ProcessError(w)
  BY <1>1, <1>2, ToFail DEF ProcessError, NotesKept, db
<1>3. CASE Crash(w)
  <2>1. \A j \in DOMAIN jobs : jobs[j] \in Job
    BY DEF SInv, TypeOK
  <2> QED
    BY <1>1, <1>3, <2>1, ReleaseInv DEF Crash, NotesKept, db
<1> QED
  BY <1>2, <1>3

-----------------------------------------------------------------------------
(* Time, readers and pushes.                                               *)

LEMMA TimeInv ==
  ASSUME SInv, NEW j \in JobIds, Time(j)
  PROVE  SInv'
<1>1. j \in DOMAIN jobs /\ jobs' \in {[jobs EXCEPT ![j].lock = "stale"], [jobs EXCEPT ![j].due = TRUE]}
  BY DEF Time, LockExpires, RetryDue
<1>2. DOMAIN jobs' = DOMAIN jobs
      /\ \A i \in DOMAIN jobs : jobs'[i] \in Job /\ jobs'[i].completed = jobs[i].completed
  BY <1>1 DEF SInv, TypeOK, Job, Locks
<1>3. /\ NotesKept /\ snapshots' = snapshots /\ worker' = worker /\ reader' = reader
      /\ answers' = answers /\ faults' = faults /\ expiries' \in [JobIds -> Nat]
  BY DEF Time, LockExpires, RetryDue, NotesKept, history, SInv, TypeOK
<1>4. \A n, v : HasSnapshot(n, v)' <=> HasSnapshot(n, v)
  BY <1>3 DEF HasSnapshot
<1>5. Evolves
  BY <1>2, <1>3, <1>4, NotesKeptEvolves
<1>6. TypeOK'
  BY <1>2, <1>3 DEF SInv, TypeOK, NotesKept
<1>7. ChangesOK' /\ \A n \in Notes : blocks'[n] <= version'[n]
  BY <1>3 DEF SInv, ChangesOK, NotesKept
<1>8. (\A w \in Workers : WorkerOK(w)') /\ \A r \in Readers : ReaderOK(r)'
  BY <1>3, <1>5, WorkerKept, ReaderKept
<1>9. DocumentsOK'
  BY <1>3, <1>5, NotBehindKept DEF SInv, TypeOK, DocumentsOK
<1>10. JobsOK'
  BY <1>2, <1>4 DEF SInv, JobsOK
<1> QED
  BY <1>6, <1>7, <1>8, <1>9, <1>10 DEF SInv

ReaderRecord == [pc : ReaderPCs, doc : Document]

\* A read request that takes a step, and may add a document to the answers.
LEMMA ReaderMoves ==
  ASSUME SInv, NEW r \in Readers, NEW x \in ReaderRecord, reader' = [reader EXCEPT ![r] = x],
         db' = db, worker' = worker, history' = history,
         answers' \subseteq Document,
         \A doc \in answers' : doc \in answers \/ (doc.note \in Notes /\ NotBehind(doc)),
         ReaderOK(r)'
  PROVE  SInv'
<1>0. /\ NotesKept /\ jobs' = jobs /\ snapshots' = snapshots /\ faults' = faults
      /\ expiries' = expiries
  BY DEF db, history, NotesKept
<1>1. \A n, v : HasSnapshot(n, v)' <=> HasSnapshot(n, v)
  BY <1>0 DEF HasSnapshot
<1>2. Evolves
  BY <1>0, <1>1, NotesKeptEvolves
<1>3. TypeOK'
  BY <1>0 DEF SInv, TypeOK, NotesKept, ReaderRecord
<1>4. ChangesOK' /\ \A n \in Notes : blocks'[n] <= version'[n]
  BY <1>0 DEF SInv, ChangesOK, NotesKept
<1>5. \A w \in Workers : WorkerOK(w)'
  BY <1>2, WorkerKept
<1>6. \A q \in Readers : ReaderOK(q)'
  <2> SUFFICES ASSUME NEW q \in Readers, q # r PROVE ReaderOK(q)'
    OBVIOUS
  <2>1. reader'[q] = reader[q]
    BY DEF SInv, TypeOK
  <2> QED
    BY <1>2, <2>1, ReaderKept
<1>7. DocumentsOK'
  <2> SUFFICES ASSUME NEW doc \in snapshots \cup answers'
               PROVE  doc.note \in Notes /\ NotBehind(doc)'
    BY <1>0 DEF DocumentsOK
  <2>1. doc \in Document /\ doc.note \in Notes /\ NotBehind(doc)
    BY DEF SInv, TypeOK, DocumentsOK
  <2> QED
    BY <1>2, <2>1, NotBehindKept
<1>8. JobsOK'
  BY <1>0, <1>1 DEF SInv, JobsOK
<1> QED
  BY <1>3, <1>4, <1>5, <1>6, <1>7, <1>8 DEF SInv

\* Nothing a cursor or a document is compared with changes while the notes do not.
LEMMA SeqKept ==
  ASSUME db' = db
  PROVE  version' = version /\ blocks' = blocks /\ \A n, v : SeqOf(n, v)' = SeqOf(n, v)
BY DEF db, SeqOf

LEMMA GetNoteInv ==
  ASSUME SInv, NEW r \in Readers, NEW n \in Notes, GetNote(r, n)
  PROVE  SInv'
<1> DEFINE doc == [EmptyDocument EXCEPT !.note = n, !.version = version[n]]
           x == [reader[r] EXCEPT !.pc = "blocks", !.doc = doc]
<1>1. /\ version[n] > 0 /\ reader' = [reader EXCEPT ![r].pc = "blocks", ![r].doc = doc]
      /\ db' = db /\ worker' = worker /\ history' = history /\ answers' = answers
  BY DEF GetNote, ReaderStep
<1>2. version[n] \in 0..MaxVersion /\ version[n] \in 1..version[n] /\ reader[r] \in ReaderRecord
  BY <1>1, BoundsAssumption DEF SInv, TypeOK, ReaderRecord
<1>3. doc \in Document /\ doc.note = n /\ doc.version = version[n]
  <2>1. EmptyDocument \in Document
    BY BoundsAssumption DEF EmptyDocument, Document
  <2>2. doc \in Document
    BY <1>2, <2>1 DEF Document
  <2> QED
    BY <2>1, <2>2 DEF Document
<1> HIDE DEF doc
<1>4. x \in ReaderRecord /\ x.pc = "blocks" /\ x.doc = doc
  BY <1>2, <1>3 DEF ReaderRecord, ReaderPCs
<1>5. reader' = [reader EXCEPT ![r] = x] /\ reader'[r] = x
  BY <1>1 DEF SInv, TypeOK
<1>6. ReaderOK(r)'
  BY <1>1, <1>2, <1>3, <1>4, <1>5, SeqKept DEF ReaderOK
<1>7. answers' \subseteq Document
  BY <1>1 DEF SInv, TypeOK
<1> HIDE DEF x
<1> QED
  BY <1>1, <1>4, <1>5, <1>6, <1>7, ReaderMoves

\* What a read request knows of its note.
LEMMA BusyReader ==
  ASSUME SInv, NEW r \in Readers, reader[r].pc # "idle"
  PROVE  /\ reader[r] \in ReaderRecord /\ reader[r].doc \in Document /\ reader[r].doc.note \in Notes
         /\ reader[r].doc.version \in 1..version[reader[r].doc.note]
         /\ version[reader[r].doc.note] \in Nat /\ reader[r].doc.blocks \in Nat
BY BoundsAssumption DEF SInv, TypeOK, ReaderOK, ReaderRecord, Document

LEMMA GetBlocksInv ==
  ASSUME SInv, NEW r \in Readers, GetBlocks(r)
  PROVE  SInv'
<1> DEFINE n == reader[r].doc.note
           doc == [reader[r].doc EXCEPT !.blocks = blocks[n]]
           x == [reader[r] EXCEPT !.pc = "cursor", !.doc = doc]
<1>1. /\ reader[r].pc = "blocks" /\ reader' = [reader EXCEPT ![r].pc = "cursor", ![r].doc = doc]
      /\ db' = db /\ worker' = worker /\ history' = history /\ answers' = answers
  BY DEF GetBlocks, ReaderStep
<1>2. /\ n \in Notes /\ reader[r] \in ReaderRecord /\ reader[r].doc \in Document
      /\ reader[r].doc.version \in 1..version[n] /\ version[n] \in Nat
      /\ blocks[n] \in 0..MaxVersion /\ blocks[n] <= version[n]
  BY <1>1, BusyReader DEF SInv, TypeOK
<1>3. /\ doc \in Document /\ doc.note = n /\ doc.version = reader[r].doc.version
      /\ doc.blocks = blocks[n]
  BY <1>2 DEF Document
<1> HIDE DEF doc
<1>4. x \in ReaderRecord /\ x.pc = "cursor" /\ x.doc = doc
  BY <1>2, <1>3 DEF ReaderRecord, ReaderPCs
<1>5. reader' = [reader EXCEPT ![r] = x] /\ reader'[r] = x
  BY <1>1 DEF SInv, TypeOK
<1> HIDE DEF x, n
<1>6. ReaderOK(r)'
  BY <1>1, <1>2, <1>3, <1>4, <1>5, SeqKept DEF ReaderOK
<1>7. answers' \subseteq Document
  BY <1>1 DEF SInv, TypeOK
<1> QED
  BY <1>1, <1>4, <1>5, <1>6, <1>7, ReaderMoves

LEMMA GetCursorInv ==
  ASSUME SInv, NEW r \in Readers, GetCursor(r)
  PROVE  SInv'
<1> DEFINE n == reader[r].doc.note
           last == GetLastAppliedCursorForNote(n)
           doc == [reader[r].doc EXCEPT !.cursor = last]
           x == [reader[r] EXCEPT !.pc = "idle", !.doc = EmptyDocument]
<1>1. /\ reader[r].pc = "cursor" /\ reader' = [reader EXCEPT ![r].pc = "idle", ![r].doc = EmptyDocument]
      /\ db' = db /\ worker' = worker /\ history' = history /\ answers' = answers \cup {doc}
  BY DEF GetCursor, ReaderStep
<1>2. /\ n \in Notes /\ reader[r] \in ReaderRecord /\ reader[r].doc \in Document
      /\ reader[r].doc.version \in 1..version[n] /\ version[n] \in Nat
      /\ reader[r].doc.version \in 0..version[n] /\ reader[r].doc.blocks \in 0..version[n]
  BY <1>1, BusyReader DEF SInv, ReaderOK
<1>3. last \in Nat /\ last >= SeqOf(n, reader[r].doc.version) /\ last >= SeqOf(n, reader[r].doc.blocks)
  BY <1>2, LastCursor, LastCursorCovers
<1> HIDE DEF last
<1>4. /\ doc \in Document /\ doc.note = n /\ doc.version = reader[r].doc.version
      /\ doc.blocks = reader[r].doc.blocks /\ doc.cursor = last
  BY <1>2, <1>3 DEF Document
<1> HIDE DEF doc, n
<1>5. NotBehind(doc)
  BY <1>2, <1>3, <1>4 DEF NotBehind
<1>6. EmptyDocument \in Document
  BY BoundsAssumption DEF EmptyDocument, Document
<1>7. x \in ReaderRecord /\ x.pc = "idle"
  BY <1>2, <1>6 DEF ReaderRecord, ReaderPCs
<1>8. reader' = [reader EXCEPT ![r] = x] /\ reader'[r] = x
  BY <1>1 DEF SInv, TypeOK
<1> HIDE DEF x
<1>9. ReaderOK(r)'
  BY <1>7, <1>8 DEF ReaderOK
<1>10. answers' \subseteq Document
  BY <1>1, <1>4 DEF SInv, TypeOK
<1>11. \A d \in answers' : d \in answers \/ (d.note \in Notes /\ NotBehind(d))
  BY <1>1, <1>2, <1>4, <1>5
<1> QED
  BY <1>1, <1>7, <1>8, <1>9, <1>10, <1>11, ReaderMoves

\* The new change is the only one of its version and has the highest sequence.
LEMMA PushEvolves ==
  ASSUME SInv, NEW n \in Notes, NEW edits \in BOOLEAN, Push(n, edits)
  PROVE  /\ ChangesOK' /\ changes' \subseteq Change /\ Evolves
         /\ version' = [version EXCEPT ![n] = version[n] + 1]
         /\ version[n] + 1 \in 1..MaxVersion
<1> DEFINE v == version[n] + 1
           c == [note |-> n, result |-> v, seq |-> Cardinality(changes) + 1]
<1>1. /\ version' = [version EXCEPT ![n] = v] /\ changes' = changes \cup {c}
      /\ snapshots' = snapshots /\ version[n] < MaxVersion
  BY DEF Push
<1>2. version \in [Notes -> 0..MaxVersion] /\ v \in 1..MaxVersion /\ version[n] \in Nat
  BY <1>1, BoundsAssumption DEF SInv, TypeOK
<1>3. IsFiniteSet(changes) /\ Cardinality(changes) \in Nat
  BY FS_CardinalityType DEF SInv, ChangesOK
<1>4. c \in Change /\ c.note = n /\ c.result = v /\ c.seq = Cardinality(changes) + 1
  BY <1>2, <1>3 DEF Change
<1> HIDE DEF c
<1>5. \A d \in changes : /\ d \in Change /\ d.result <= version[d.note] /\ d.result \in Nat
                         /\ d.note \in Notes /\ d.seq \in Nat /\ d.seq <= Cardinality(changes)
  BY DEF SInv, TypeOK, ChangesOK, Change
<1>6. c \notin changes
  BY <1>2, <1>4, <1>5
<1>7. IsFiniteSet(changes') /\ Cardinality(changes') = Cardinality(changes) + 1
  BY <1>1, <1>3, <1>6, FS_AddElement
<1>8. \A m \in Notes : version'[m] \in Nat /\ version[m] <= version'[m] /\ (m # n => version'[m] = version[m])
  BY <1>1, <1>2
<1>9. changes' \subseteq Change
  BY <1>1, <1>4, <1>5
<1>10. ChangesOK'
  <2>1. \A d \in changes' : d.seq <= Cardinality(changes') /\ d.result <= version'[d.note]
    BY <1>1, <1>2, <1>3, <1>4, <1>5, <1>7, <1>8
  <2>2. \A m \in Notes : \A u \in 1..version'[m] : \E d \in changes' : d.note = m /\ d.result = u
    <3> TAKE m \in Notes
    <3> TAKE u \in 1..version'[m]
    <3>1. CASE m = n /\ u = v
      BY <1>1, <1>4, <3>1
    <3>2. CASE ~(m = n /\ u = v)
      <4>1. u \in 1..version[m]
        BY <1>1, <1>2, <1>8, <3>2
      <4> QED
        BY <1>1, <4>1 DEF SInv, ChangesOK
    <3> QED
      BY <3>1, <3>2
  <2>3. \A d, e \in changes' : d.note = e.note /\ d.result = e.result => d = e
    BY <1>1, <1>2, <1>4, <1>5 DEF SInv, ChangesOK
  <2> QED
    BY <1>7, <2>1, <2>2, <2>3 DEF ChangesOK
<1>11. \A m \in Notes : \A u \in 0..version[m] : SeqOf(m, u)' = SeqOf(m, u)
  <2> TAKE m \in Notes
  <2> TAKE u \in 0..version[m]
  <2>1. CASE u = 0
    BY <2>1, Zenon DEF SeqOf
  <2>2. CASE u # 0
    <3>1. PICK d \in changes : d.note = m /\ d.result = u /\ SeqOf(m, u) = d.seq
      BY <2>2, SeqOfChange
    <3> DEFINE e == CHOOSE e \in changes' : e.note = m /\ e.result = u
    <3>2. d \in changes'
      BY <1>1
    <3>3. e \in changes' /\ e.note = m /\ e.result = u
      BY <3>1, <3>2
    <3>4. SeqOf(m, u)' = e.seq
      BY <2>2 DEF SeqOf
    <3> HIDE DEF e
    <3>5. d = e
      BY <1>10, <3>1, <3>2, <3>3 DEF ChangesOK
    <3> QED
      BY <3>1, <3>4, <3>5
  <2> QED
    BY <2>1, <2>2
<1>12. DOMAIN jobs \subseteq DOMAIN jobs'
  <2>1. \/ jobs' = jobs
        \/ jobs' = [j \in DOMAIN jobs \cup {<<n, v>>} |->
                      IF j = <<n, v>> THEN [lock |-> "none", due |-> TRUE, completed |-> FALSE]
                      ELSE jobs[j]]
    BY DEF Push
  <2> QED
    BY <2>1
<1>13. \A m, u : HasSnapshot(m, u)' <=> HasSnapshot(m, u)
  BY <1>1 DEF HasSnapshot
<1> QED
  BY <1>1, <1>2, <1>8, <1>9, <1>10, <1>11, <1>12, <1>13 DEF Evolves

LEMMA PushInv ==
  ASSUME SInv, NEW n \in Notes, NEW edits \in BOOLEAN, Push(n, edits)
  PROVE  SInv'
<1> DEFINE v == version[n] + 1
<1>1. /\ ChangesOK' /\ changes' \subseteq Change /\ Evolves
      /\ version' = [version EXCEPT ![n] = v] /\ v \in 1..MaxVersion
  BY PushEvolves
<1>2. /\ snapshots' = snapshots /\ worker' = worker /\ reader' = reader /\ answers' = answers
      /\ faults' = faults /\ expiries' = expiries
      /\ blocks' = (IF edits THEN [blocks EXCEPT ![n] = v] ELSE blocks)
  BY DEF Push, history
<1>3. /\ DOMAIN jobs' \subseteq JobIds
      /\ \A j \in DOMAIN jobs' : /\ jobs'[j] \in Job
                                 /\ jobs'[j].completed => j \in DOMAIN jobs /\ jobs[j].completed
  <2>1. \/ jobs' = jobs
        \/ jobs' = [j \in DOMAIN jobs \cup {<<n, v>>} |->
                      IF j = <<n, v>> THEN [lock |-> "none", due |-> TRUE, completed |-> FALSE]
                      ELSE jobs[j]]
    BY DEF Push
  <2>2. <<n, v>> \in JobIds
    BY <1>1 DEF JobIds
  <2>3. [lock |-> "none", due |-> TRUE, completed |-> FALSE] \in Job
    BY DEF Job, Locks
  <2>4. CASE jobs' = jobs
    BY <2>4 DEF SInv, TypeOK
  <2>5. CASE jobs' # jobs
    <3> DEFINE new == [lock |-> "none", due |-> TRUE, completed |-> FALSE]
    <3>1. /\ DOMAIN jobs' = DOMAIN jobs \cup {<<n, v>>}
          /\ \A j \in DOMAIN jobs' : jobs'[j] = IF j = <<n, v>> THEN new ELSE jobs[j]
      BY <2>1, <2>5
    <3>2. new \in Job /\ ~new.completed
      BY <2>3
    <3> HIDE DEF new, v
    <3> QED
      BY <2>2, <3>1, <3>2 DEF SInv, TypeOK
  <2> QED
    BY <2>4, <2>5
<1>4. blocks' \in [Notes -> 0..MaxVersion] /\ \A m \in Notes : blocks'[m] <= version'[m]
  BY <1>1, <1>2, BoundsAssumption DEF SInv, TypeOK
<1>5. version' \in [Notes -> 0..MaxVersion]
  BY <1>1 DEF SInv, TypeOK
<1>6. TypeOK'
  BY <1>1, <1>2, <1>3, <1>4, <1>5 DEF SInv, TypeOK
<1>7. (\A w \in Workers : WorkerOK(w)') /\ \A r \in Readers : ReaderOK(r)'
  BY <1>1, <1>2, WorkerKept, ReaderKept
<1>8. DocumentsOK'
  BY <1>1, <1>2, NotBehindKept DEF SInv, TypeOK, DocumentsOK
<1>9. JobsOK'
  BY <1>2, <1>3 DEF SInv, JobsOK, HasSnapshot
<1> QED
  BY <1>1, <1>4, <1>6, <1>7, <1>8, <1>9 DEF SInv

-----------------------------------------------------------------------------
(* The invariant.                                                          *)

LEMMA InitInv == Init => SInv
<1> SUFFICES ASSUME Init PROVE SInv
  OBVIOUS
<1>1. TypeOK
  <2>1. EmptyDocument \in Document /\ 0 \in 0..MaxVersion /\ 0 \in 0..MaxFaults
    BY BoundsAssumption DEF EmptyDocument, Document
  <2>2. reader \in [Readers -> [pc : ReaderPCs, doc : Document]]
    BY <2>1 DEF Init, ReaderPCs
  <2>3. worker \in [Workers -> [pc : WorkerPCs, job : JobIds \cup {NoJob}, doc : Document]]
    BY IdleRecord DEF Init, WorkerRecord
  <2> QED
    BY <2>1, <2>2, <2>3 DEF Init, TypeOK
<1>2. ChangesOK
  BY FS_EmptySet DEF Init, ChangesOK
<1>3. \A n \in Notes : blocks[n] <= version[n]
  BY DEF Init
<1>4. \A w \in Workers : WorkerOK(w)
  BY IdleRecord DEF Init, WorkerOK
<1>5. \A r \in Readers : ReaderOK(r)
  BY DEF Init, ReaderOK
<1>6. DocumentsOK /\ JobsOK
  BY DEF Init, DocumentsOK, JobsOK
<1> QED
  BY <1>1, <1>2, <1>3, <1>4, <1>5, <1>6 DEF SInv

LEMMA StutterInv ==
  ASSUME SInv, UNCHANGED vars
  PROVE  SInv'
<1>1. /\ NotesKept /\ jobs' = jobs /\ snapshots' = snapshots /\ worker' = worker /\ reader' = reader
      /\ answers' = answers /\ faults' = faults /\ expiries' = expiries
  BY DEF vars, db, history, NotesKept
<1>2. \A n, v : HasSnapshot(n, v)' <=> HasSnapshot(n, v)
  BY <1>1 DEF HasSnapshot
<1>3. Evolves
  BY <1>1, <1>2, NotesKeptEvolves
<1>4. TypeOK' /\ ChangesOK' /\ \A n \in Notes : blocks'[n] <= version'[n]
  BY <1>1 DEF SInv, TypeOK, ChangesOK, NotesKept
<1>5. (\A w \in Workers : WorkerOK(w)') /\ \A r \in Readers : ReaderOK(r)'
  BY <1>1, <1>3, WorkerKept, ReaderKept
<1>6. DocumentsOK'
  BY <1>1, <1>3, NotBehindKept DEF SInv, TypeOK, DocumentsOK
<1>7. JobsOK'
  BY <1>1, <1>2 DEF SInv, JobsOK
<1> QED
  BY <1>4, <1>5, <1>6, <1>7 DEF SInv

LEMMA NextInv == SInv /\ [Next]_vars => SInv'
<1> SUFFICES ASSUME SInv, [Next]_vars PROVE SInv'
  OBVIOUS
<1>1. CASE \E n \in Notes, edits \in BOOLEAN : Push(n, edits)
  BY <1>1, PushInv
<1>2. CASE \E w \in Workers : ProcessOnce(w) \/ Faults(w)
  <2>1. PICK w \in Workers : ProcessOnce(w) \/ Faults(w)
    BY <1>2
  <2>2. CASE \E j \in JobIds : ClaimOutboxJob(w, j)
    BY <2>2, ClaimInv
  <2>3. CASE ReadNote(w) \/ ReadBlocks(w) \/ ReadCursor(w)
    BY <2>3, ReadNoteInv, ReadBlocksInv, ReadCursorInv
  <2>4. CASE Insert(w) \/ CommitUnknown(w)
    BY <2>4, InsertInv
  <2>5. CASE Complete(w) \/ Fail(w)
    BY <2>5, CompleteInv, FailInv
  <2>6. CASE ProcessError(w) \/ Crash(w)
    BY <2>6, FaultInv
  <2> QED
    BY <2>1, <2>2, <2>3, <2>4, <2>5, <2>6 DEF ProcessOnce, Faults
<1>3. CASE \E j \in JobIds : Time(j)
  BY <1>3, TimeInv
<1>4. CASE \E r \in Readers : Read(r)
  BY <1>4, GetNoteInv, GetBlocksInv, GetCursorInv DEF Read
<1>5. CASE UNCHANGED vars
  BY <1>5, StutterInv
<1> QED
  BY <1>1, <1>2, <1>3, <1>4, <1>5 DEF Next

LEMMA InvCorrect == Spec => []SInv
BY InitInv, NextInv, PTL DEF Spec

-----------------------------------------------------------------------------
(* Workers that share a job.                                               *)

Holders(j) == {w \in Workers : worker[w].job = j}

\* A job whose lock is not held has room for the next claim.
Allowed(j) == IF j \in DOMAIN jobs /\ jobs[j].lock = "held" THEN expiries[j] + 1 ELSE expiries[j]

OverlapInv ==
  /\ \A j \in DOMAIN jobs : j[2] <= version[j[1]]
  /\ \A j \in JobIds : Cardinality(Holders(j)) <= Allowed(j)

LEMMA HoldersFinite ==
  ASSUME NEW j
  PROVE  IsFiniteSet(Holders(j)) /\ Cardinality(Holders(j)) \in Nat
<1>1. Holders(j) \in SUBSET Workers
  BY DEF Holders
<1> QED
  BY <1>1, FS_Subset, FS_CardinalityType, WorkersAssumption

LEMMA AllowedType ==
  ASSUME SInv, NEW j \in JobIds
  PROVE  Allowed(j) \in Nat /\ expiries[j] \in Nat /\ Allowed(j) \in {expiries[j], expiries[j] + 1}
BY DEF SInv, TypeOK, Allowed

\* What a push does to the table of jobs: a new version may bring a new job.
LEMMA PushJobs ==
  ASSUME SInv, OverlapInv, NEW n \in Notes, NEW edits \in BOOLEAN, Push(n, edits)
  PROVE  /\ \A j \in DOMAIN jobs : j \in DOMAIN jobs' /\ jobs'[j] = jobs[j]
         /\ \A j \in DOMAIN jobs' \ DOMAIN jobs : jobs'[j].lock = "none"
         /\ \A j \in DOMAIN jobs' : j[2] <= version'[j[1]]
<1> DEFINE v == version[n] + 1
           new == [lock |-> "none", due |-> TRUE, completed |-> FALSE]
<1>1. \/ jobs' = jobs
      \/ jobs' = [j \in DOMAIN jobs \cup {<<n, v>>} |-> IF j = <<n, v>> THEN new ELSE jobs[j]]
  BY DEF Push
<1>2. version[n] \in Nat /\ version' = [version EXCEPT ![n] = v]
  BY DEF SInv, TypeOK, Push
<1>3. \A m \in Notes : version[m] \in Nat /\ version[m] <= version'[m]
  BY <1>2 DEF SInv, TypeOK
<1>4. \A j \in DOMAIN jobs : /\ j \in JobIds /\ j[1] \in Notes /\ j[2] \in Nat
                             /\ j # <<n, v>> /\ j[2] <= version'[j[1]]
  <2> SUFFICES ASSUME NEW j \in DOMAIN jobs
               PROVE  /\ j \in JobIds /\ j[1] \in Notes /\ j[2] \in Nat
                      /\ j # <<n, v>> /\ j[2] <= version'[j[1]]
    OBVIOUS
  <2>1. j \in JobIds /\ j[1] \in Notes /\ j[2] \in Nat /\ j[2] <= version[j[1]]
    BY DEF SInv, TypeOK, OverlapInv, JobIds
  <2>2. version'[j[1]] \in Nat
    BY <1>2, <2>1 DEF SInv, TypeOK
  <2> QED
    BY <1>2, <1>3, <2>1, <2>2
<1>5. CASE jobs' = jobs
  BY <1>4, <1>5
<1>6. CASE jobs' # jobs
  <2>1. /\ DOMAIN jobs' = DOMAIN jobs \cup {<<n, v>>}
        /\ \A j \in DOMAIN jobs' : jobs'[j] = IF j = <<n, v>> THEN new ELSE jobs[j]
    BY <1>1, <1>6
  <2>2. v <= version'[n] /\ new.lock = "none"
    BY <1>2 DEF SInv, TypeOK
  <2>3. \A j \in DOMAIN jobs' \ DOMAIN jobs : j = <<n, v>>
    BY <2>1
  <2>4. <<n, v>>[1] = n /\ <<n, v>>[2] = v
    OBVIOUS
  <2> HIDE DEF new, v
  <2> QED
    BY <1>4, <2>1, <2>2, <2>3, <2>4
<1> QED
  BY <1>5, <1>6

\* A step after which every job has the workers it had, and as much room.
LEMMA SameHolders ==
  ASSUME SInv, OverlapInv, \A w \in Workers : worker'[w].job = worker[w].job,
         \A j \in DOMAIN jobs' : j[2] <= version'[j[1]],
         \A j \in JobIds : Allowed(j)' >= Allowed(j), expiries' \in [JobIds -> Nat]
  PROVE  OverlapInv'
<1> SUFFICES ASSUME NEW j \in JobIds PROVE Cardinality(Holders(j)') <= Allowed(j)'
  BY DEF OverlapInv
<1>1. Holders(j)' = Holders(j)
  BY DEF Holders
<1>2. Cardinality(Holders(j)) <= Allowed(j) /\ Cardinality(Holders(j)) \in Nat /\ Allowed(j) \in Nat
  BY HoldersFinite, AllowedType DEF OverlapInv
<1>3. Allowed(j)' \in Nat
  BY DEF Allowed
<1> QED
  BY <1>1, <1>2, <1>3

LEMMA ClaimOverlap ==
  ASSUME SInv, OverlapInv, NEW w \in Workers, NEW j \in JobIds, ClaimOutboxJob(w, j)
  PROVE  OverlapInv'
<1> DEFINE x == [Idle EXCEPT !.pc = "note", !.job = j]
<1>1. /\ j \in DOMAIN jobs /\ jobs[j].lock # "held" /\ jobs[j].lock \in Locks
      /\ worker[w].pc = "idle" /\ version' = version /\ expiries' = expiries
      /\ jobs' = [jobs EXCEPT ![j].lock = "held"] /\ worker' = [worker EXCEPT ![w] = x]
  BY DEF ClaimOutboxJob, Claimable, SInv, TypeOK, Job, history
<1>2. x.job = j
  BY DEF Idle
<1> HIDE DEF x
<1>3. worker[w].job = NoJob /\ j # NoJob /\ \A i \in JobIds : i # NoJob
  BY <1>1, NamesAssumption DEF SInv, WorkerOK
<1>4. /\ DOMAIN jobs' = DOMAIN jobs /\ jobs'[j].lock = "held"
      /\ \A i \in DOMAIN jobs : i # j => jobs'[i] = jobs[i]
  BY <1>1 DEF SInv, TypeOK, Job
<1>5. Holders(j)' = Holders(j) \cup {w} /\ \A i \in JobIds : i # j => Holders(i)' = Holders(i)
  BY <1>1, <1>2, <1>3 DEF Holders, SInv, TypeOK
<1>6. Cardinality(Holders(j)') <= Cardinality(Holders(j)) + 1
  BY <1>5, HoldersFinite, FS_AddElement
<1>7. Allowed(j) = expiries[j] /\ Allowed(j)' = expiries[j] + 1
  BY <1>1, <1>4 DEF Allowed
<1>8. \A i \in JobIds : i # j => Allowed(i)' = Allowed(i)
  BY <1>1, <1>4 DEF Allowed
<1>9. Cardinality(Holders(j)') <= Allowed(j)'
  <2>1. Cardinality(Holders(j)) <= expiries[j] /\ expiries[j] \in Nat /\ Cardinality(Holders(j)) \in Nat
    BY <1>7, HoldersFinite, AllowedType DEF OverlapInv
  <2>2. Cardinality(Holders(j)') \in Nat
    BY <1>5, HoldersFinite, FS_AddElement, FS_CardinalityType
  <2> QED
    BY <1>6, <1>7, <2>1, <2>2
<1> QED
  BY <1>1, <1>4, <1>5, <1>8, <1>9 DEF OverlapInv

\* A worker gives up job j; the room of the other jobs stays, that of j loses at
\* most the place that has become free.
LEMMA ReleaseOverlap ==
  ASSUME SInv, OverlapInv, NEW w \in Workers, worker[w].pc # "idle",
         worker' = [worker EXCEPT ![w] = Idle], version' = version, expiries' = expiries,
         DOMAIN jobs' = DOMAIN jobs,
         \A i \in DOMAIN jobs : i # worker[w].job => jobs'[i] = jobs[i]
  PROVE  OverlapInv'
<1>0. PICK j \in JobIds : j = worker[w].job
  BY BusyWorker
<1>1. j # NoJob /\ \A i \in JobIds : i # NoJob
  BY NamesAssumption
<1>2. Holders(j)' = Holders(j) \ {w} /\ w \in Holders(j) /\ \A i \in JobIds : i # j => Holders(i)' = Holders(i)
  BY <1>0, <1>1, IdleRecord DEF Holders, SInv, TypeOK
<1>3. Cardinality(Holders(j)') = Cardinality(Holders(j)) - 1
  BY <1>2, HoldersFinite, FS_RemoveElement
<1>4. Allowed(j)' \in {expiries[j], expiries[j] + 1} /\ \A i \in JobIds : i # j => Allowed(i)' = Allowed(i)
  BY <1>0 DEF Allowed
<1>5. Cardinality(Holders(j)') <= Allowed(j)'
  <2>1. /\ Cardinality(Holders(j)) <= Allowed(j) /\ Allowed(j) \in Nat /\ expiries[j] \in Nat
        /\ Allowed(j) \in {expiries[j], expiries[j] + 1} /\ Cardinality(Holders(j)) \in Nat
    BY <1>1, HoldersFinite, AllowedType DEF OverlapInv
  <2> QED
    BY <1>3, <1>4, <2>1
<1> QED
  BY <1>2, <1>4, <1>5 DEF OverlapInv

\* Between the claim and the end of a job its worker keeps it.
LEMMA JobKept ==
  ASSUME SInv, NEW w \in Workers,
         \/ ReadNote(w) \/ ReadBlocks(w) \/ ReadCursor(w) \/ Insert(w)
         \/ ProcessError(w) \/ CommitUnknown(w)
  PROVE  \A q \in Workers : worker'[q].job = worker[q].job
<1>0. worker \in [Workers -> WorkerRecord]
  BY DEF SInv, TypeOK, WorkerRecord
<1>1. CASE ReadNote(w)
  BY <1>0, <1>1 DEF ReadNote, At, WorkerRecord
<1>2. CASE ReadBlocks(w)
  BY <1>0, <1>2 DEF ReadBlocks, WorkerRecord
<1>3. CASE ReadCursor(w)
  BY <1>0, <1>3 DEF ReadCursor, WorkerRecord
<1>4. CASE Insert(w) \/ ProcessError(w) \/ CommitUnknown(w)
  BY <1>0, <1>4 DEF Insert, ProcessError, CommitUnknown, At, WorkerRecord
<1> QED
  BY <1>1, <1>2, <1>3, <1>4

LEMMA NextOverlap == SInv /\ OverlapInv /\ [Next]_vars => OverlapInv'
<1> SUFFICES ASSUME SInv, OverlapInv, [Next]_vars PROVE OverlapInv'
  OBVIOUS
<1>0. expiries \in [JobIds -> Nat]
  BY DEF SInv, TypeOK
<1>1. CASE \E n \in Notes, edits \in BOOLEAN : Push(n, edits)
  <2>1. PICK n \in Notes, edits \in BOOLEAN : Push(n, edits)
    BY <1>1
  <2>2. worker' = worker /\ expiries' = expiries
    BY <2>1 DEF Push, history
  <2>3. /\ \A j \in DOMAIN jobs : j \in DOMAIN jobs' /\ jobs'[j] = jobs[j]
        /\ \A j \in DOMAIN jobs' \ DOMAIN jobs : jobs'[j].lock = "none"
        /\ \A j \in DOMAIN jobs' : j[2] <= version'[j[1]]
    BY <2>1, PushJobs
  <2>4. \A j \in JobIds : Allowed(j)' >= Allowed(j)
    BY <1>0, <2>2, <2>3 DEF Allowed
  <2> QED
    BY <1>0, <2>2, <2>3, <2>4, SameHolders
<1>2. CASE \E w \in Workers : ProcessOnce(w) \/ Faults(w)
  <2>1. PICK w \in Workers : ProcessOnce(w) \/ Faults(w)
    BY <1>2
  <2>2. CASE \E j \in JobIds : ClaimOutboxJob(w, j)
    BY <2>2, ClaimOverlap
  <2>3. CASE Complete(w) \/ Fail(w) \/ Crash(w)
    <3>1. /\ worker[w].pc # "idle" /\ worker' = [worker EXCEPT ![w] = Idle]
          /\ version' = version /\ expiries' = expiries
      BY <2>3 DEF Complete, Fail, Crash, db, history
    <3>2. DOMAIN jobs' = DOMAIN jobs /\ \A i \in DOMAIN jobs : i # worker[w].job => jobs'[i] = jobs[i]
      BY <2>3 DEF Complete, Fail, Crash, db, CompleteOutboxJob, FailOutboxJob
    <3> QED
      BY <3>1, <3>2, ReleaseOverlap
  <2>4. CASE \/ ReadNote(w) \/ ReadBlocks(w) \/ ReadCursor(w) \/ Insert(w)
             \/ ProcessError(w) \/ CommitUnknown(w)
    <3>1. jobs' = jobs /\ version' = version /\ expiries' = expiries
      BY <2>4 DEF ReadNote, ReadBlocks, ReadCursor, Insert, ProcessError, CommitUnknown, db, history
    <3>2. \A q \in Workers : worker'[q].job = worker[q].job
      BY <2>4, JobKept
    <3>3. \A j \in JobIds : Allowed(j)' >= Allowed(j)
      BY <1>0, <3>1 DEF Allowed
    <3>4. \A j \in DOMAIN jobs' : j[2] <= version'[j[1]]
      BY <3>1 DEF OverlapInv
    <3> QED
      BY <1>0, <3>1, <3>2, <3>3, <3>4, SameHolders
  <2> QED
    BY <2>1, <2>2, <2>3, <2>4 DEF ProcessOnce, Faults
<1>3. CASE \E j \in JobIds : Time(j)
  <2>1. PICK j \in JobIds : Time(j)
    BY <1>3
  <2>2. j \in DOMAIN jobs /\ worker' = worker /\ version' = version /\ DOMAIN jobs' = DOMAIN jobs
    BY <2>1 DEF Time, LockExpires, RetryDue
  <2>3. \A i \in DOMAIN jobs' : i[2] <= version'[i[1]]
    BY <2>2 DEF OverlapInv
  <2>4. expiries' \in [JobIds -> Nat] /\ \A i \in JobIds : Allowed(i)' >= Allowed(i)
    <3>1. CASE LockExpires(j)
      <4>1. /\ jobs' = [jobs EXCEPT ![j].lock = "stale"]
            /\ expiries' = [expiries EXCEPT ![j] = expiries[j] + 1]
        BY <3>1 DEF LockExpires
      <4>2. jobs'[j].lock = "stale" /\ \A i \in DOMAIN jobs : i # j => jobs'[i] = jobs[i]
        BY <2>2, <4>1 DEF SInv, TypeOK, Job
      <4> QED
        BY <1>0, <2>2, <4>1, <4>2 DEF Allowed
    <3>2. CASE RetryDue(j)
      <4>1. jobs' = [jobs EXCEPT ![j].due = TRUE] /\ expiries' = expiries
        BY <3>2 DEF RetryDue, history
      <4>2. \A i \in DOMAIN jobs : jobs'[i].lock = jobs[i].lock
        BY <2>2, <4>1 DEF SInv, TypeOK, Job
      <4> QED
        BY <1>0, <2>2, <4>1, <4>2 DEF Allowed
    <3> QED
      BY <2>1, <3>1, <3>2 DEF Time
  <2> QED
    BY <2>2, <2>3, <2>4, SameHolders
<1>4. CASE (\E r \in Readers : Read(r)) \/ UNCHANGED vars
  <2>1. jobs' = jobs /\ version' = version /\ expiries' = expiries /\ worker' = worker
    BY <1>4 DEF Read, GetNote, GetBlocks, GetCursor, ReaderStep, vars, db, history
  <2>2. \A j \in JobIds : Allowed(j)' >= Allowed(j)
    BY <1>0, <2>1 DEF Allowed
  <2>3. \A j \in DOMAIN jobs' : j[2] <= version'[j[1]]
    BY <2>1 DEF OverlapInv
  <2> QED
    BY <1>0, <2>1, <2>2, <2>3, SameHolders
<1> QED
  BY <1>1, <1>2, <1>3, <1>4 DEF Next

LEMMA InitOverlap == Init => OverlapInv
<1> SUFFICES ASSUME Init PROVE OverlapInv
  OBVIOUS
<1>0. \A w \in Workers : worker[w].job = NoJob
  BY IdleRecord DEF Init
<1>1. \A j \in JobIds : Holders(j) = {} /\ Allowed(j) = 0
  <2>1. DOMAIN jobs = {} /\ \A j \in JobIds : expiries[j] = 0
    BY DEF Init
  <2> QED
    BY <1>0, <2>1, NamesAssumption DEF Holders, Allowed
<1>2. \A j \in JobIds : Cardinality(Holders(j)) <= Allowed(j)
  <2>1. Cardinality({}) = 0
    BY FS_EmptySet
  <2> QED
    BY <1>1, <2>1
<1>3. \A j \in DOMAIN jobs : j[2] <= version[j[1]]
  BY DEF Init
<1> QED
  BY <1>2, <1>3 DEF OverlapInv

LEMMA OverlapCorrect == Spec => []OverlapInv
BY InvCorrect, InitOverlap, NextOverlap, PTL DEF Spec

-----------------------------------------------------------------------------
(* The theorems.                                                           *)

\* The tables, the workers and the readers are well typed: every maximum that is
\* taken exists, and no statement uses a job or a note that is not there.
THEOREM SnapshotTypeCorrect == Spec => []TypeOK
<1>1. SInv => TypeOK
  BY DEF SInv
<1> QED
  BY <1>1, InvCorrect, PTL

\* Whatever commits between the statements of GetNoteDocument, the cursor of a
\* stored or returned document covers its version and its blocks.
THEOREM DocumentsNotBehindCorrect == Spec => []DocumentsNotBehind
<1>1. SInv => DocumentsNotBehind
  BY DEF SInv, DocumentsOK, DocumentsNotBehind
<1> QED
  BY <1>1, InvCorrect, PTL

\* A completed job has left a snapshot that is new enough, with any number of
\* workers that time out, fail, crash or report late.
THEOREM CompletedHasSnapshotCorrect == Spec => []CompletedHasSnapshot
<1>1. SInv => CompletedHasSnapshot
  BY DEF SInv, JobsOK, HasSnapshot, CompletedHasSnapshot
<1> QED
  BY <1>1, InvCorrect, PTL

\* A job is in the hands of at most one worker more than its lock has timed out.
THEOREM OverlapBoundedCorrect == Spec => []OverlapBounded
<1>1. SInv /\ OverlapInv => OverlapBounded
  <2> SUFFICES ASSUME SInv, OverlapInv, NEW j \in JobIds
               PROVE  Cardinality(Holders(j)) <= 1 + expiries[j]
    BY DEF OverlapBounded, Holders
  <2>1. Cardinality(Holders(j)) \in Nat /\ Cardinality(Holders(j)) <= Allowed(j)
    BY HoldersFinite DEF OverlapInv
  <2> QED
    BY <2>1, AllowedType
<1> QED
  BY <1>1, InvCorrect, OverlapCorrect, PTL

\* A completed job is never reopened or claimed again, also not by the failure
\* report of a worker that lost its lock.
THEOREM CompletedIsFinalCorrect == Spec => CompletedIsFinal
<1> DEFINE Final == \A j \in DOMAIN jobs : jobs[j].completed =>
                      /\ jobs'[j].completed
                      /\ \A w \in Workers : worker'[w].job = j => worker[w].job = j
<1>1. SInv /\ OverlapInv /\ [Next]_vars => [Final]_vars
  <2> SUFFICES ASSUME SInv, OverlapInv, Next, NEW j \in DOMAIN jobs, jobs[j].completed
               PROVE  /\ jobs'[j].completed
                      /\ \A w \in Workers : worker'[w].job = j => worker[w].job = j
    OBVIOUS
  <2>0. j \in JobIds /\ j # NoJob
    BY NamesAssumption DEF SInv, TypeOK
  <2>1. CASE \E n \in Notes, edits \in BOOLEAN : Push(n, edits)
    BY <2>1, PushJobs DEF Push
  <2>2. CASE \E w \in Workers : ProcessOnce(w) \/ Faults(w)
    <3>1. PICK w \in Workers : ProcessOnce(w) \/ Faults(w)
      BY <2>2
    <3>2. CASE \E i \in JobIds : ClaimOutboxJob(w, i)
      <4>1. PICK i \in JobIds : ClaimOutboxJob(w, i)
        BY <3>2
      <4>2. i # j /\ jobs' = [jobs EXCEPT ![i].lock = "held"]
            /\ worker' = [worker EXCEPT ![w] = [Idle EXCEPT !.pc = "note", !.job = i]]
        BY <4>1 DEF ClaimOutboxJob, Claimable
      <4>3. [Idle EXCEPT !.pc = "note", !.job = i].job = i
        BY DEF Idle
      <4>4. \A q \in Workers : worker'[q].job = j => worker[q].job = j
        BY <4>2, <4>3 DEF SInv, TypeOK
      <4> QED
        BY <4>2, <4>4
    <3>3. CASE Complete(w) \/ Fail(w) \/ Crash(w)
      <4>1. worker' = [worker EXCEPT ![w] = Idle]
        BY <3>3 DEF Complete, Fail, Crash
      <4>2. \A q \in Workers : worker'[q].job = j => worker[q].job = j
        BY <2>0, <4>1, IdleRecord DEF SInv, TypeOK
      <4>3. jobs[j] \in Job
        BY DEF SInv, TypeOK
      <4>4. jobs'[j].completed
        BY <3>3, <4>3 DEF Complete, Fail, Crash, db, CompleteOutboxJob, FailOutboxJob, Job
      <4> QED
        BY <4>2, <4>4
    <3>4. CASE \/ ReadNote(w) \/ ReadBlocks(w) \/ ReadCursor(w) \/ Insert(w)
               \/ ProcessError(w) \/ CommitUnknown(w)
      <4>1. jobs' = jobs
        BY <3>4 DEF ReadNote, ReadBlocks, ReadCursor, Insert, ProcessError, CommitUnknown, db
      <4>2. \A q \in Workers : worker'[q].job = worker[q].job
        BY <3>4, JobKept
      <4> QED
        BY <4>1, <4>2
    <3> QED
      BY <3>1, <3>2, <3>3, <3>4 DEF ProcessOnce, Faults
  <2>3. CASE \E i \in JobIds : Time(i)
    <3>1. jobs[j] \in Job
      BY DEF SInv, TypeOK
    <3> QED
      BY <2>3, <3>1 DEF Time, LockExpires, RetryDue, Job
  <2>4. CASE \E r \in Readers : Read(r)
    BY <2>4 DEF Read, GetNote, GetBlocks, GetCursor, ReaderStep, db
  <2> QED
    BY <2>1, <2>2, <2>3, <2>4 DEF Next
<1> QED
  BY <1>1, InvCorrect, OverlapCorrect, PTL DEF Spec, CompletedIsFinal
=============================================================================
