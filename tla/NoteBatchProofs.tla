--------------------------- MODULE NoteBatchProofs ---------------------------
(***************************************************************************)
(* Batches: their atomicity, the documents returned with rejections, the   *)
(* snapshot jobs, and the refinement of NoteLog, for every value of the    *)
(* constants.                                                              *)
(*                                                                         *)
(* The argument: the operations of a request are sorted by note, so a      *)
(* request has one batch per note; what a transaction has logged and       *)
(* written below its savepoint is of notes before that of its batch, so a  *)
(* batch that is rolled back leaves nothing of its note, and one that is   *)
(* accepted takes its note from the committed version to the next.         *)
(***************************************************************************)
EXTENDS NoteDeviceProofs

-----------------------------------------------------------------------------
(* Batches in note order.                                                  *)

Elements(s) == {s[i] : i \in 1 .. Len(s)}

\* The operations are grouped by note.
Ranked(td) == \A i, j \in 1 .. Len(td) : i <= j => NoteRank(td[i].note) <= NoteRank(td[j].note)

\* A row of S is operation id of the device of request r.
Recorded(S, r, id) == \E x \in S : x.device = r.device /\ x.op.id = id

\* Every operation of r on note n is.
AllRecorded(S, r, n) == \A o \in Elements(r.ops) : o.note = n => Recorded(S, r, o.id)

Touches(t, n) == \E x \in t.pend : x.note = n

\* A transaction takes a note it has logged operations of one version further.
OneVersion(R, t, n) ==
  Version(NoteView(R, t, n)) = IF Touches(t, n) THEN Version(R[n]) + 1 ELSE Version(R[n])

\* The batches before b are over, those after it have not begun.
OrderOK(t, sv, c, r, td, b) ==
  /\ Ranked(td) /\ \A o \in Elements(td) : NoteRank(b.id) <= NoteRank(o.note)
  /\ c = "flush" => \A o \in Elements(td) : NoteRank(b.id) < NoteRank(o.note)
  /\ \A o \in Elements(r.ops) : o \in Elements(td) \/ NoteRank(o.note) <= NoteRank(b.id)
  /\ \A x \in t.pend : x \in sv.pend \/ x.note = b.id
  /\ \A x \in sv.pend : NoteRank(x.note) < NoteRank(b.id)
  /\ \A n \in Notes : t.ws[n] # Absent => n <= NoteRank(b.id)
  /\ \A n \in Notes : sv.ws[n] # Absent => n < NoteRank(b.id)

\* Operations of the batch that are no longer to do are in the log.
ProgressOK(C, t, r, td, b) ==
  /\ \A o \in Elements(r.ops) : o.note = b.id => o \in Elements(td) \/ Recorded(C \cup t.pend, r, o.id)
  /\ b.changed <=> Touches(t, b.id)

\* No row of S is of a note whose batch was rejected.
NotesAvoided(S, a) == \A e \in a.rejected : \A x \in S : x.note # e.note

\* The rows of S lead from the committed version of their note to the next.
ResultsOK(R, S) == \A x \in S : x.note \in Notes => x.result = Version(R[x.note]) + 1

\* The request has committed, with program counter c and failure f.
Ended(c, f) == c \in {"publish", "respond", "done"} \/ (c = "failed" /\ f.reason = "commit_unknown")

\* A handler with everything it owns as parameters.
BatchOK(p, R, C, t, sv, c, r, td, b, f, a) ==
  /\ ~Ended(c, f) => \A x \in C : x.by # p
  /\ ResultsOK(R, t.pend)
  /\ c \in {"page", "commit"} => \A n \in Notes : OneVersion(R, t, n)
  /\ c \in PushWork =>
       /\ OrderOK(t, sv, c, r, td, b)
       /\ \A n \in Notes : OneVersion(R, sv, n) /\ (n # b.id => OneVersion(R, t, n))
       /\ \A e \in a.accepted : AllRecorded(C \cup sv.pend, r, e.note)
       /\ \A e \in a.rejected : NoteRank(e.note) < NoteRank(b.id)
       /\ NotesAvoided(sv.pend, a)
  /\ c \in InBatch =>
       /\ ProgressOK(C, t, r, td, b)
       /\ b.id \in Notes => Version(NoteView(R, t, b.id)) = Version(R[b.id])
  /\ c = "rejected" => t = sv /\ (f.version # 0 => b.id \in Notes /\ f.version <= Version(R[b.id]))
  /\ c = "commit" => /\ \A e \in a.accepted : AllRecorded(C \cup t.pend, r, e.note)
                     /\ NotesAvoided(t.pend, a)
  /\ Ended(c, f) =>
       /\ \A e \in a.accepted : AllRecorded(C, r, e.note)
       /\ NotesAvoided({x \in C : x.by = p}, a)

BatchesOK(p) == BatchOK(p, rows, changes, tx[p], save[p], pc[p], req[p], todo[p], batch[p], failure[p], reply[p])

BatchesInv == \A p \in Handlers : BatchesOK(p)

\* A document that was returned with rejection e, when L are all the change rows
\* there are and s is the last sequence.
DocumentOK(R, L, s, e) ==
  e.snapshot # None =>
    /\ e.note \in Notes /\ e.version <= e.snapshot /\ e.snapshot <= Version(R[e.note]) /\ e.cursor <= s
    /\ \A x \in L : x.note = e.note => (x.seq <= e.cursor <=> x.result <= e.snapshot)

DocumentsInv == \A p \in Handlers : \A e \in reply[p].rejected : DocumentOK(rows, Logs, seq, e)

\* History H of a note that is due for a snapshot has a job for version v in J.
JobFor(J, H, n, v) ==
  LET due == {x \in H : x.result > LastSnapshotVersion(n)} IN
    SnapshotChangeThreshold > 0 /\ Cardinality(due) >= SnapshotChangeThreshold
      => \E j \in J : j.note = n /\ j.version = v

\* The same of note n as transaction t sees it.
TxScheduled(R, C, J, t, n) ==
  JobFor(J \cup t.jobs, NoteHistory(C, t, n), n, Version(NoteView(R, t, n)))

JobsOK(R, C, J, t, sv, c, b) ==
  /\ \A n \in Notes : n \in t.held /\ Extra(c, b, n) = 0 => TxScheduled(R, C, J, t, n)
  /\ c \in InBatch => \A n \in Notes : n \in sv.held => TxScheduled(R, C, J, sv, n)

JobsInv ==
  /\ \A n \in Notes : JobFor(outbox, {x \in changes : x.note = n}, n, Version(rows[n]))
  /\ \A p \in Handlers : JobsOK(rows, changes, outbox, tx[p], save[p], pc[p], batch[p])

-----------------------------------------------------------------------------
(* Sorted operations.                                                      *)

LEMMA NoteRankTyped ==
  /\ \A n \in Notes \cup {NilNote} : NoteRank(n) \in Int
  /\ \A n \in Notes : NoteRank(n) = n
  /\ \A m, n \in Notes \cup {NilNote} : NoteRank(m) = NoteRank(n) => m = n
  BY KeysAssumption DEF NoteRank

LEMMA SequenceElements ==
  ASSUME NEW td \in Seq(Operation)
  PROVE  /\ Len(td) \in Nat /\ Elements(td) \subseteq Operation
         /\ \A o \in Elements(td) : o.note \in Notes \cup {NilNote} /\ NoteRank(o.note) \in Int
         /\ \A i \in 1 .. Len(td) : td[i] \in Elements(td)
<1>1. Len(td) \in Nat /\ \A i \in 1 .. Len(td) : td[i] \in Operation
  BY LenProperties, ElementOfSeq
<1>2. Elements(td) \subseteq Operation
  BY <1>1 DEF Elements
<1>3. \A o \in Operation : o.note \in Notes \cup {NilNote}
  BY DEF Operation
<1> QED
  BY <1>1, <1>2, <1>3, NoteRankTyped DEF Elements

\* sortedOperations groups the operations of the request by note, and keeps all.
LEMMA SortedOperationsRanked ==
  ASSUME NEW ops \in Seq(Operation)
  PROVE  Ranked(SortedOperations(ops)) /\ Elements(ops) \subseteq Elements(SortedOperations(ops))
<1> DEFINE D == 1 .. Len(ops)
           s == SortedOperations(ops)
<1>1. PICK at \in [D -> D] :
        /\ s = [k \in D |-> ops[at[k]]]
        /\ \A i \in D : \E k \in D : at[k] = i
        /\ \A k, l \in D : k < l => Precedes(ops, at[k], at[l])
  BY SortedPositions
<1>2. Len(ops) \in Nat /\ \A i \in D : ops[i].note \in Notes \cup {NilNote}
  BY SequenceElements
<1>3. Len(s) = Len(ops)
  BY <1>1, <1>2
<1> HIDE DEF s
<1>4. ASSUME NEW k \in D, NEW l \in D, k <= l PROVE NoteRank(s[k].note) <= NoteRank(s[l].note)
  <2>1. s[k] = ops[at[k]] /\ s[l] = ops[at[l]] /\ at[k] \in D /\ at[l] \in D
    BY <1>1
  <2>2. NoteRank(s[k].note) \in Int /\ NoteRank(s[l].note) \in Int
    BY <1>2, <2>1, NoteRankTyped
  <2>3. CASE k = l
    BY <2>2, <2>3
  <2>4. CASE k < l
    <3>1. Precedes(ops, at[k], at[l])
      BY <1>1, <2>4
    <3> QED
      BY <2>1, <2>2, <3>1 DEF Precedes
  <2> QED
    BY <1>2, <1>4, <2>3, <2>4
<1>5. \A i \in D : \E k \in D : ops[i] = s[k]
  BY <1>1
<1> QED
  BY <1>3, <1>4, <1>5 DEF Ranked, Elements, s

\* The first of sorted operations, and the others.
LEMMA TailElements ==
  ASSUME NEW td \in Seq(Operation), td # <<>>, Ranked(td)
  PROVE  /\ Ranked(Tail(td)) /\ Elements(td) = {Head(td)} \cup Elements(Tail(td))
         /\ \A o \in Elements(td) : NoteRank(Head(td).note) <= NoteRank(o.note)
<1>1. /\ Len(td) \in Nat \ {0} /\ Head(td) = td[1] /\ Tail(td) \in Seq(Operation)
      /\ Len(Tail(td)) = Len(td) - 1 /\ \A i \in 1 .. Len(td) - 1 : Tail(td)[i] = td[i + 1]
  BY HeadTailProperties, LenProperties, EmptySeq
<1> DEFINE h == Head(td)
           s == Tail(td)
           n == Len(td)
<1> HIDE DEF h, s, n
<1>2. n \in Nat \ {0} /\ h = td[1] /\ Len(s) = n - 1 /\ \A i \in 1 .. n - 1 : s[i] = td[i + 1]
  BY <1>1 DEF h, s, n
<1>3. ASSUME NEW i \in 1 .. n PROVE td[i] = h \/ \E j \in 1 .. n - 1 : td[i] = s[j]
  <2>1. CASE i = 1
    BY <1>2, <2>1
  <2>2. CASE i # 1
    <3>1. i - 1 \in 1 .. n - 1 /\ (i - 1) + 1 = i
      BY <1>2, <2>2
    <3>2. s[i - 1] = td[i]
      BY <1>2, <3>1
    <3> QED
      BY <3>1, <3>2
  <2> QED
    BY <2>1, <2>2
<1>4. \A j \in 1 .. n - 1 : j + 1 \in 1 .. n /\ s[j] = td[j + 1]
  BY <1>2
<1>5. 1 \in 1 .. n
  BY <1>2
<1>6. Elements(td) = {h} \cup Elements(s)
  BY <1>2, <1>3, <1>4, <1>5 DEF Elements, n
<1>7. \A i, j \in 1 .. n : i <= j => NoteRank(td[i].note) <= NoteRank(td[j].note)
  BY DEF Ranked, n
<1>8. \A i, j \in 1 .. n - 1 : i <= j => NoteRank(s[i].note) <= NoteRank(s[j].note)
  <2>1. TAKE i, j \in 1 .. n - 1
  <2>2. i + 1 \in 1 .. n /\ j + 1 \in 1 .. n /\ s[i] = td[i + 1] /\ s[j] = td[j + 1]
    BY <1>4
  <2>3. i <= j => i + 1 <= j + 1
    BY <1>2
  <2> QED
    BY <1>7, <2>2, <2>3
<1>9. \A j \in 1 .. n : NoteRank(h.note) <= NoteRank(td[j].note)
  BY <1>2, <1>5, <1>7
<1> QED
  BY <1>2, <1>6, <1>8, <1>9 DEF Ranked, Elements, h, s, n

\* The end of sequence td, after its first m operations.
LEMMA SubSeqElements ==
  ASSUME NEW td \in Seq(Operation), Ranked(td), NEW m \in Nat, m <= Len(td)
  PROVE  LET rest == SubSeq(td, 1 + m, Len(td)) IN
           /\ Ranked(rest)
           /\ \A o \in Elements(rest) : \E i \in m + 1 .. Len(td) : o = td[i]
           /\ \A i \in m + 1 .. Len(td) : td[i] \in Elements(rest)
<1> DEFINE rest == SubSeq(td, 1 + m, Len(td))
           n == Len(td)
<1>1. n \in Nat /\ \A i \in 1 .. n : td[i] \in Operation
  BY LenProperties, ElementOfSeq
<1>2. Len(rest) = n - m /\ \A i \in 1 .. n - m : rest[i] = td[m + i]
  <2>1. 1 + m \in Int /\ 1 + m >= 1 /\ \A i \in 1 + m .. n : td[i] \in Operation
    BY <1>1
  <2>2. /\ Len(rest) = IF 1 + m <= n THEN n - (1 + m) + 1 ELSE 0
        /\ \A i \in 1 .. n - (1 + m) + 1 : rest[i] = td[(1 + m) + i - 1]
    BY <1>1, <2>1, SubSeqProperties
  <2>3. \A i \in 1 .. n - m : i \in 1 .. n - (1 + m) + 1 /\ (1 + m) + i - 1 = m + i
    BY <1>1
  <2> HIDE DEF rest
  <2> QED
    BY <1>1, <2>2, <2>3
<1> HIDE DEF rest, n
<1>3. \A i \in 1 .. n - m : m + i \in m + 1 .. n /\ m + i \in 1 .. n
  BY <1>1
<1>4. \A i \in m + 1 .. n : i - m \in 1 .. n - m /\ m + (i - m) = i
  BY <1>1
<1>5. \A i, j \in 1 .. n - m : i <= j => m + i <= m + j
  BY <1>1
<1>6. \A i, j \in 1 .. n : i <= j => NoteRank(td[i].note) <= NoteRank(td[j].note)
  BY DEF Ranked, n
<1>7. Ranked(rest)
  BY <1>2, <1>3, <1>5, <1>6 DEF Ranked
<1>8. \A o \in Elements(rest) : \E i \in m + 1 .. n : o = td[i]
  BY <1>2, <1>3 DEF Elements
<1>9. \A i \in m + 1 .. n : td[i] \in Elements(rest)
  <2>1. TAKE i \in m + 1 .. n
  <2>2. i - m \in 1 .. n - m /\ rest[i - m] = td[i]
    BY <1>2, <1>4
  <2> QED
    BY <1>2, <2>2 DEF Elements
<1> QED
  BY <1>7, <1>8, <1>9 DEF rest, n

\* AfterBatch drops the operations of the batch's note and no other.
LEMMA AfterBatchElements ==
  ASSUME NEW td \in Seq(Operation), Ranked(td), NEW n \in Notes \cup {NilNote},
         \A o \in Elements(td) : NoteRank(n) <= NoteRank(o.note)
  PROVE  /\ Ranked(AfterBatch(td, n))
         /\ \A o \in Elements(AfterBatch(td, n)) : o \in Elements(td) /\ NoteRank(n) < NoteRank(o.note)
         /\ \A o \in Elements(td) : o \in Elements(AfterBatch(td, n)) \/ o.note = n
<1> DEFINE l == Len(td)
           D == {i \in 1 .. l : \A j \in 1 .. i : td[j].note = n}
<1>1. l \in Nat /\ \A i \in 1 .. l : td[i] \in Elements(td) /\ td[i].note \in Notes \cup {NilNote}
  BY SequenceElements
<1>2. PICK m \in Nat : m <= l /\ D = 1 .. m
  <2>1. CASE D = {}
    <3>1. 0 \in Nat /\ 0 <= l /\ D = 1 .. 0
      BY <1>1, <2>1
    <3> QED
      BY <3>1
  <2>2. CASE D # {}
    <3>1. D \subseteq Nat /\ \A i \in D : i <= l
      BY <1>1
    <3>2. Max(D) \in D /\ \A i \in D : i <= Max(D)
      BY <1>1, <2>2, <3>1, MaxOfBounded
    <3>3. PICK m \in D : \A i \in D : i <= m
      BY <3>2
    <3>4. m \in 1 .. l /\ \A j \in 1 .. m : td[j].note = n
      BY <3>3
    <3>5. \A i \in 1 .. m : i \in D
      <4>1. TAKE i \in 1 .. m
      <4>2. i \in 1 .. l /\ \A j \in 1 .. i : j \in 1 .. m
        BY <1>1, <3>4
      <4> QED
        BY <3>4, <4>2
    <3>6. D = 1 .. m
      BY <1>1, <3>1, <3>3, <3>4, <3>5
    <3> QED
      BY <1>1, <3>4, <3>6
  <2> QED
    BY <2>1, <2>2
<1>3. Cardinality(D) = m
  <2>1. \A b \in Int : Cardinality(1 .. b) = IF 1 > b THEN 0 ELSE b - 1 + 1
    BY FS_Interval
  <2>2. Cardinality(1 .. m) = m
    BY <2>1
  <2> QED
    BY <1>2, <2>2, Zenon
<1>4. AfterBatch(td, n) = SubSeq(td, 1 + m, l)
  BY <1>3 DEF AfterBatch
<1> DEFINE rest == SubSeq(td, 1 + m, l)
<1>5. /\ Ranked(rest)
      /\ \A o \in Elements(rest) : \E i \in m + 1 .. l : o = td[i]
      /\ \A i \in m + 1 .. l : td[i] \in Elements(rest)
  BY <1>2, SubSeqElements
<1> HIDE DEF rest
<1>6. \A i \in 1 .. m : td[i].note = n
  BY <1>2
<1>7. ASSUME NEW i \in m + 1 .. l PROVE NoteRank(n) < NoteRank(td[i].note)
  <2>1. m + 1 \in 1 .. l /\ m + 1 \notin 1 .. m /\ m + 1 <= i /\ i \in 1 .. l
    BY <1>1, <1>2
  <2>2. PICK j \in 1 .. m + 1 : td[j].note # n
    BY <1>2, <2>1
  <2>3. j = m + 1
    BY <1>2, <1>6, <2>2
  <2>4. /\ NoteRank(td[m + 1].note) <= NoteRank(td[i].note) /\ NoteRank(n) <= NoteRank(td[m + 1].note)
        /\ td[m + 1].note # n
    BY <1>1, <2>1, <2>2, <2>3 DEF Ranked
  <2>5. /\ NoteRank(n) \in Int /\ NoteRank(td[m + 1].note) \in Int /\ NoteRank(td[i].note) \in Int
        /\ NoteRank(n) # NoteRank(td[m + 1].note)
    BY <1>1, <2>1, <2>4, NoteRankTyped
  <2> QED
    BY <2>4, <2>5
<1>8. \A i \in 1 .. l : i \in 1 .. m \/ i \in m + 1 .. l
  BY <1>1, <1>2
<1>9. ASSUME NEW o \in Elements(rest) PROVE o \in Elements(td) /\ NoteRank(n) < NoteRank(o.note)
  <2>1. PICK i \in m + 1 .. l : o = td[i]
    BY <1>5, <1>9
  <2>2. i \in 1 .. l
    BY <1>1, <1>2
  <2> QED
    BY <1>1, <1>7, <2>1, <2>2
<1>10. ASSUME NEW o \in Elements(td) PROVE o \in Elements(rest) \/ o.note = n
  <2>1. PICK i \in 1 .. l : o = td[i]
    BY <1>10 DEF Elements
  <2> QED
    BY <1>5, <1>6, <1>8, <2>1
<1> QED
  BY <1>4, <1>5, <1>9, <1>10 DEF rest

-----------------------------------------------------------------------------
(* A handler that stands still, and a batch that begins.                   *)

\* What transaction t has made of a note stays if the rows it has locked do.
LEMMA OneVersionStays ==
  ASSUME NEW R, NEW S, NEW t, TxLocks(t), \A n \in Notes : n \in t.held => S[n] = R[n],
         NEW n \in Notes, OneVersion(R, t, n)
  PROVE  OneVersion(S, t, n)
<1>1. CASE n \in t.held
  BY <1>1 DEF OneVersion, NoteView
<1>2. CASE n \notin t.held
  <2>1. t.ws[n] = Absent /\ ~Touches(t, n)
    BY <1>2 DEF TxLocks, Touches
  <2> QED
    BY <2>1 DEF OneVersion, NoteView
<1> QED
  BY <1>1, <1>2

LEMMA AllRecordedGrows ==
  ASSUME NEW S, NEW T, S \subseteq T, NEW r
  PROVE  /\ \A id : Recorded(S, r, id) => Recorded(T, r, id)
         /\ \A n : AllRecorded(S, r, n) => AllRecorded(T, r, n)
  BY DEF Recorded, AllRecorded

LEMMA BatchStays ==
  ASSUME NEW q, NEW R, NEW S, NEW C, NEW E, NEW t, NEW sv, NEW c, NEW r, NEW td, NEW b, NEW f, NEW a,
         BatchOK(q, R, C, t, sv, c, r, td, b, f, a), C \subseteq E, \A x \in E : x \in C \/ x.by # q,
         TxLocks(t), c \in InBatch => TxLocks(sv) /\ \A n \in Notes : n \in sv.held => n \in t.held,
         \A n \in Notes : n \in t.held => S[n] = R[n],
         \A n \in Notes : Version(R[n]) \in Nat /\ Version(S[n]) \in Nat /\ Version(R[n]) <= Version(S[n]),
         f.version \in Nat
  PROVE  BatchOK(q, S, E, t, sv, c, r, td, b, f, a)
<1>1. ASSUME NEW n \in Notes, OneVersion(R, t, n) PROVE OneVersion(S, t, n)
  BY <1>1, OneVersionStays
<1>2. ASSUME c \in PushWork, NEW n \in Notes, OneVersion(R, sv, n) PROVE OneVersion(S, sv, n)
  <2>1. TxLocks(sv) /\ \A m \in Notes : m \in sv.held => m \in t.held
    BY <1>2 DEF BatchOK, Ended, PushWork, InBatch
  <2> QED
    BY <1>2, <2>1, OneVersionStays
<1>3. ResultsOK(S, t.pend)
  BY DEF BatchOK, Ended, ResultsOK, TxLocks
<1>4. /\ \A id : Recorded(C \cup t.pend, r, id) => Recorded(E \cup t.pend, r, id)
      /\ \A n : AllRecorded(C \cup t.pend, r, n) => AllRecorded(E \cup t.pend, r, n)
      /\ \A n : AllRecorded(C \cup sv.pend, r, n) => AllRecorded(E \cup sv.pend, r, n)
      /\ \A n : AllRecorded(C, r, n) => AllRecorded(E, r, n)
  BY DEF Recorded, AllRecorded
<1>5. {x \in E : x.by = q} \subseteq {x \in C : x.by = q}
  OBVIOUS
<1>6. ~Ended(c, f) => \A x \in E : x.by # q
  BY DEF BatchOK, Ended
<1>7. c \in {"page", "commit"} => \A n \in Notes : OneVersion(S, t, n)
  BY <1>1 DEF BatchOK, Ended
<1>8. c \in PushWork =>
       /\ OrderOK(t, sv, c, r, td, b)
       /\ \A n \in Notes : OneVersion(S, sv, n) /\ (n # b.id => OneVersion(S, t, n))
       /\ \A e \in a.accepted : AllRecorded(E \cup sv.pend, r, e.note)
       /\ \A e \in a.rejected : NoteRank(e.note) < NoteRank(b.id)
       /\ NotesAvoided(sv.pend, a)
  BY <1>1, <1>2, <1>4 DEF BatchOK, Ended
<1>9. c \in InBatch => ProgressOK(E, t, r, td, b)
  BY <1>4 DEF BatchOK, Ended, ProgressOK
<1>10. c \in InBatch /\ b.id \in Notes => Version(NoteView(S, t, b.id)) = Version(S[b.id])
  <2>1. CASE b.id \in t.held
    BY <2>1 DEF BatchOK, Ended, NoteView
  <2>2. CASE b.id \notin t.held
    BY <2>2 DEF TxLocks, NoteView
  <2> QED
    BY <2>1, <2>2
<1>11. c = "rejected" => t = sv /\ (f.version # 0 => b.id \in Notes /\ f.version <= Version(S[b.id]))
  BY DEF BatchOK, Ended
<1>12. c = "commit" => /\ \A e \in a.accepted : AllRecorded(E \cup t.pend, r, e.note)
                       /\ NotesAvoided(t.pend, a)
  BY <1>4 DEF BatchOK, Ended
<1>13. Ended(c, f) =>
         /\ \A e \in a.accepted : AllRecorded(E, r, e.note)
         /\ NotesAvoided({x \in E : x.by = q}, a)
  BY <1>4, <1>5 DEF BatchOK, Ended, NotesAvoided
<1> QED
  BY <1>3, <1>6, <1>7, <1>8, <1>9, <1>10, <1>11, <1>12, <1>13 DEF BatchOK, Ended

\* The next batch begins on transaction t, with operations td to do.
LEMMA BatchOpens ==
  ASSUME NEW p, NEW R, NEW C, NEW t, NEW r, NEW td \in Seq(Operation), NEW f, NEW a,
         Ranked(td), \A x \in C : x.by # p, ResultsOK(R, t.pend), \A n \in Notes : OneVersion(R, t, n),
         \A e \in a.accepted : AllRecorded(C \cup t.pend, r, e.note), NotesAvoided(t.pend, a),
         \A u \in Elements(td) :
           /\ \A x \in t.pend : NoteRank(x.note) < NoteRank(u.note)
           /\ \A n \in Notes : t.ws[n] # Absent => n < NoteRank(u.note)
           /\ \A e \in a.rejected : NoteRank(e.note) < NoteRank(u.note)
           /\ \A o \in Elements(r.ops) : o \in Elements(td) \/ NoteRank(o.note) < NoteRank(u.note),
         t.pend \subseteq Change, r.ops \in Seq(Operation)
  PROVE  BatchOK(p, R, C, t, t, IF td = <<>> THEN "commit" ELSE "find", r, td,
                 NewBatch(IF td = <<>> THEN NilNote ELSE Head(td).note), f, a)
<1>1. CASE td = <<>>
  BY <1>1 DEF BatchOK, Ended, PushWork, InBatch
<1>2. CASE td # <<>>
  <2> DEFINE h == Head(td)
             b == NewBatch(h.note)
  <2>1. h \in Elements(td) /\ \A o \in Elements(td) : NoteRank(h.note) <= NoteRank(o.note)
    BY <1>2, TailElements
  <2>2. b.id = h.note /\ ~b.changed
    BY DEF NewBatch
  <2>3. h.note \in Notes \cup {NilNote} /\ NoteRank(h.note) \in Int
    BY <2>1, SequenceElements
  <2>4. \A x \in t.pend : x.note \in Notes \cup {NilNote} /\ NoteRank(x.note) \in Int
    BY NoteRankTyped DEF Change
  <2>5. \A o \in Elements(r.ops) : o.note \in Notes \cup {NilNote} /\ NoteRank(o.note) \in Int
    BY SequenceElements
  <2> HIDE DEF h, b
  <2>6. OrderOK(t, t, "find", r, td, b)
    <3>1. \A x \in t.pend : NoteRank(x.note) < NoteRank(b.id)
      BY <2>1, <2>2, <2>3, <2>4
    <3>2. \A o \in Elements(r.ops) : o \in Elements(td) \/ NoteRank(o.note) <= NoteRank(b.id)
      BY <2>1, <2>2, <2>3, <2>5
    <3>3. \A n \in Notes : t.ws[n] # Absent => n < NoteRank(b.id) /\ n <= NoteRank(b.id)
      BY <2>1, <2>2, <2>3, KeysAssumption
    <3> QED
      BY <2>1, <2>2, <3>1, <3>2, <3>3 DEF OrderOK
  <2>7. ~Touches(t, b.id)
    BY <2>1, <2>2, <2>3 DEF Touches
  <2>8. ProgressOK(C, t, r, td, b)
    <3>1. \A o \in Elements(r.ops) : o.note = b.id => o \in Elements(td)
      BY <2>1, <2>2, <2>3
    <3> QED
      BY <2>2, <2>7, <3>1 DEF ProgressOK
  <2>9. b.id \in Notes => Version(NoteView(R, t, b.id)) = Version(R[b.id])
    BY <2>7 DEF OneVersion
  <2>10. \A e \in a.rejected : NoteRank(e.note) < NoteRank(b.id)
    BY <2>1, <2>2
  <2>11. BatchOK(p, R, C, t, t, "find", r, td, b, f, a)
    BY <2>6, <2>8, <2>9, <2>10 DEF BatchOK, Ended
  <2> QED
    BY <1>2, <2>11 DEF b, h
<1> QED
  BY <1>1, <1>2

-----------------------------------------------------------------------------
(* Operations of a batch.                                                  *)

LEMMA BatchHandler ==
  ASSUME TypeInv, ChainInv, DevicesInv, BatchesInv, NEW p \in Handlers
  PROVE  /\ BatchOK(p, rows, changes, tx[p], save[p], pc[p], req[p], todo[p], batch[p], failure[p], reply[p])
         /\ tx[p] \in TxState /\ save[p] \in TxState /\ tx[p].pend \subseteq Change /\ save[p].pend \subseteq Change
         /\ todo[p] \in Seq(Operation) /\ reply[p] \in Reply /\ failure[p].version \in Nat
         /\ batch[p] \in BatchState /\ batch[p].id \in Notes \cup {NilNote} /\ NoteRank(batch[p].id) \in Int
         /\ TxLocks(tx[p])
         /\ pc[p] \in InBatch =>
              TxLocks(save[p]) /\ \A n \in Notes : n \in save[p].held => n \in tx[p].held
         /\ pc[p] # "idle" => req[p] \in Request /\ req[p].ops \in Seq(Operation)
         /\ pc[p] \in {"find", "apply", "lookup"} => todo[p] # <<>> /\ Head(todo[p]).note = batch[p].id
         /\ \A n \in Notes : Version(rows[n]) \in Nat /\ Version(Visible(p, n)) \in Nat
<1>1. BatchOK(p, rows, changes, tx[p], save[p], pc[p], req[p], todo[p], batch[p], failure[p], reply[p])
  BY DEF BatchesInv, BatchesOK
<1>2. HandlerOK(seq, tx[p], save[p], pc[p], req[p], todo[p], batch[p], failure[p], reply[p])
  BY DEF TypeInv, HandlerInv
<1>3. /\ tx[p] \in TxState /\ save[p] \in TxState /\ todo[p] \in Seq(Operation) /\ reply[p] \in Reply
      /\ batch[p] \in BatchState /\ failure[p] \in Failure
      /\ pc[p] # "idle" => req[p] \in Request
      /\ pc[p] \in {"find", "apply", "lookup"} => todo[p] # <<>> /\ Head(todo[p]).note = batch[p].id
  BY <1>2 DEF HandlerOK, TypedTx
<1>4. tx[p].pend \subseteq Change /\ save[p].pend \subseteq Change
  BY <1>3 DEF TxState
<1>5. batch[p].id \in Notes \cup {NilNote} /\ failure[p].version \in Nat
  BY <1>3 DEF BatchState, Failure
<1>6. pc[p] # "idle" => req[p].ops \in Seq(Operation)
  BY <1>3 DEF Request
<1>7. HandlerChain(p, rows, changes, tx[p], save[p], pc[p], batch[p])
  BY DEF ChainInv
<1>8. /\ TxLocks(tx[p])
      /\ pc[p] \in InBatch =>
           TxLocks(save[p]) /\ \A n \in Notes : n \in save[p].held => n \in tx[p].held
  BY <1>7 DEF HandlerChain
<1>9. \A n \in Notes : Version(rows[n]) \in Nat /\ Version(Visible(p, n)) \in Nat
  BY ChainTypes, VersionTyped
<1> QED
  BY <1>1, <1>3, <1>4, <1>5, <1>6, <1>8, <1>9, NoteRankTyped

\* And if it works on a batch.
LEMMA BatchWorks ==
  ASSUME TypeInv, ChainInv, DevicesInv, BatchesInv, NEW p \in Handlers, pc[p] \in PushWork
  PROVE  /\ OrderOK(tx[p], save[p], pc[p], req[p], todo[p], batch[p])
         /\ ResultsOK(rows, tx[p].pend)
         /\ \A n \in Notes : OneVersion(rows, save[p], n) /\ (n # batch[p].id => OneVersion(rows, tx[p], n))
         /\ \A e \in reply[p].accepted : AllRecorded(changes \cup save[p].pend, req[p], e.note)
         /\ \A e \in reply[p].rejected : NoteRank(e.note) < NoteRank(batch[p].id)
         /\ NotesAvoided(save[p].pend, reply[p]) /\ \A x \in changes : x.by # p
         /\ pc[p] \in InBatch =>
              /\ ProgressOK(changes, tx[p], req[p], todo[p], batch[p])
              /\ batch[p].id \in Notes =>
                   Version(NoteView(rows, tx[p], batch[p].id)) = Version(rows[batch[p].id])
         /\ pc[p] = "rejected" =>
              /\ tx[p] = save[p]
              /\ failure[p].version # 0 =>
                   batch[p].id \in Notes /\ failure[p].version <= Version(rows[batch[p].id])
  BY BatchHandler DEF BatchOK, Ended, PushWork

\* The first operation to do is done.
LEMMA AdvanceOrder ==
  ASSUME NEW t, NEW sv, NEW c, NEW r, NEW td \in Seq(Operation), NEW b, b.id \in Notes \cup {NilNote},
         OrderOK(t, sv, c, r, td, b), td # <<>>, Head(td).note = b.id, NEW u, NEW b2, b2.id = b.id,
         \A x \in u.pend : x \in t.pend \/ x.note = b.id,
         \A n \in Notes : n # b.id => u.ws[n] = t.ws[n],
         NEW c2, c2 = "flush" => ~(Tail(td) # <<>> /\ Head(Tail(td)).note = b.id)
  PROVE  OrderOK(u, sv, c2, r, Tail(td), b2)
<1> DEFINE s == Tail(td)
           h == Head(td)
<1>1. Ranked(td) /\ \A o \in Elements(td) : NoteRank(b.id) <= NoteRank(o.note)
  BY DEF OrderOK
<1>2. Ranked(s) /\ Elements(td) = {h} \cup Elements(s) /\ s \in Seq(Operation)
  BY <1>1, TailElements, HeadTailProperties
<1>3. NoteRank(b.id) \in Int
  BY NoteRankTyped
<1> HIDE DEF s, h
<1>4. ASSUME ~(s # <<>> /\ Head(s).note = b.id), NEW o \in Elements(s)
      PROVE  NoteRank(b.id) < NoteRank(o.note)
  <2>1. s # <<>>
    BY <1>4 DEF Elements
  <2> DEFINE g == Head(s)
  <2>2. g \in Elements(s) /\ NoteRank(g.note) <= NoteRank(o.note)
    BY <1>2, <1>4, <2>1, TailElements
  <2>3. NoteRank(b.id) <= NoteRank(g.note) /\ g.note # b.id
    BY <1>1, <1>2, <1>4, <2>1, <2>2
  <2>4. /\ NoteRank(g.note) \in Int /\ NoteRank(o.note) \in Int /\ g.note \in Notes \cup {NilNote}
    BY <1>2, <2>2, SequenceElements
  <2>5. NoteRank(b.id) # NoteRank(g.note)
    BY <2>3, <2>4, NoteRankTyped
  <2> HIDE DEF g
  <2> QED
    BY <1>3, <2>2, <2>3, <2>4, <2>5
<1>5. \A o \in Elements(r.ops) : o \in Elements(s) \/ NoteRank(o.note) <= NoteRank(b.id)
  <2>1. NoteRank(h.note) <= NoteRank(b.id)
    BY <1>3 DEF h
  <2> QED
    BY <1>2, <2>1 DEF OrderOK
<1>6. \A x \in u.pend : x \in sv.pend \/ x.note = b.id
  BY DEF OrderOK
<1>7. \A n \in Notes : u.ws[n] # Absent => n <= NoteRank(b.id)
  BY <1>3, NoteRankTyped DEF OrderOK
<1>8. \A o \in Elements(s) : NoteRank(b.id) <= NoteRank(o.note)
  BY <1>1, <1>2
<1> QED
  BY <1>2, <1>4, <1>5, <1>6, <1>7, <1>8 DEF OrderOK, s

LEMMA AdvanceProgress ==
  ASSUME NEW C, NEW t, NEW r, NEW td \in Seq(Operation), td # <<>>, Ranked(td), NEW b, ProgressOK(C, t, r, td, b),
         NEW u, t.pend \subseteq u.pend, NEW b2, b2.id = b.id, b2.changed <=> Touches(u, b.id),
         Recorded(C \cup u.pend, r, Head(td).id)
  PROVE  ProgressOK(C, u, r, Tail(td), b2)
<1>1. Elements(td) = {Head(td)} \cup Elements(Tail(td))
  BY TailElements
<1>2. \A id : Recorded(C \cup t.pend, r, id) => Recorded(C \cup u.pend, r, id)
  BY DEF Recorded
<1>3. \A o \in Elements(r.ops) : o.note = b.id => o \in Elements(Tail(td)) \/ Recorded(C \cup u.pend, r, o.id)
  BY <1>1, <1>2 DEF ProgressOK
<1> QED
  BY <1>3 DEF ProgressOK

\* Handler p, after the step.
BatchDone(p) ==
  BatchOK(p, rows', changes', tx'[p], save'[p], pc'[p], req'[p], todo'[p], batch'[p], failure'[p], reply'[p])

\* An operation is found in the log, or logged.
LEMMA BatchAdvances ==
  ASSUME TypeInv, ChainInv, DevicesInv, BatchesInv, NEW p \in Handlers, pc[p] \in {"find", "apply"},
         Advances(p), save'[p] = save[p], SameRequest(p), Silent,
         NEW N, tx'[p].pend = tx[p].pend \cup N, \A x \in N : x.note = batch[p].id,
         \A n \in Notes : n # batch[p].id => tx'[p].ws[n] = tx[p].ws[n],
         ResultsOK(rows, N),
         batch[p].id \in Notes => Version(NoteView(rows, tx'[p], batch[p].id)) = Version(rows[batch[p].id]),
         batch'[p].id = batch[p].id, batch'[p].changed <=> (batch[p].changed \/ N # {}),
         Recorded(changes \cup tx'[p].pend, req[p], Op(p).id)
  PROVE  BatchDone(p)
<1> DEFINE t == tx[p]
           u == tx'[p]
           b == batch[p]
           td == todo[p]
           r == req[p]
           c == pc'[p]
<1>1. /\ BatchOK(p, rows, changes, t, save[p], pc[p], r, td, b, failure[p], reply[p])
      /\ td \in Seq(Operation) /\ td # <<>> /\ Head(td).note = b.id /\ b.id \in Notes \cup {NilNote}
  BY BatchHandler
<1>2. /\ OrderOK(t, save[p], pc[p], r, td, b) /\ ProgressOK(changes, t, r, td, b) /\ ResultsOK(rows, t.pend)
      /\ \A n \in Notes : OneVersion(rows, save[p], n) /\ (n # b.id => OneVersion(rows, t, n))
      /\ \A e \in reply[p].accepted : AllRecorded(changes \cup save[p].pend, r, e.note)
      /\ \A e \in reply[p].rejected : NoteRank(e.note) < NoteRank(b.id)
      /\ NotesAvoided(save[p].pend, reply[p]) /\ \A x \in changes : x.by # p
  BY BatchWorks DEF PushWork, InBatch
<1>3. c = (IF Tail(td) # <<>> /\ Head(Tail(td)).note = b.id THEN "find" ELSE "flush") /\ todo'[p] = Tail(td)
  BY <1>1 DEF Advances, Op
<1>4. Ranked(td)
  BY <1>2 DEF OrderOK
<1>5. OrderOK(u, save[p], c, r, Tail(td), batch'[p])
  <2> DEFINE b2 == batch'[p]
             sv == save[p]
             c1 == pc[p]
  <2>1. /\ \A x \in u.pend : x \in t.pend \/ x.note = b.id
        /\ \A n \in Notes : n # b.id => u.ws[n] = t.ws[n]
        /\ OrderOK(t, sv, c1, r, td, b) /\ b2.id = b.id
    BY <1>2
  <2> HIDE DEF t, u, b, td, r, b2, sv, c, c1
  <2>2. OrderOK(u, sv, c, r, Tail(td), b2)
    BY <1>1, <1>3, <2>1, AdvanceOrder
  <2> QED
    BY <2>2 DEF b2, sv
<1>6. batch'[p].changed <=> Touches(u, b.id)
  BY <1>2 DEF ProgressOK, Touches
<1>7. ProgressOK(changes, u, r, Tail(td), batch'[p])
  BY <1>1, <1>2, <1>4, <1>6, AdvanceProgress DEF Op
<1>8. ResultsOK(rows, u.pend)
  BY <1>2 DEF ResultsOK
<1>9. ASSUME NEW n \in Notes, n # b.id PROVE OneVersion(rows, u, n)
  <2>1. Touches(u, n) <=> Touches(t, n)
    BY <1>9 DEF Touches
  <2> QED
    BY <1>2, <1>9, <2>1 DEF OneVersion, NoteView
<1>10. c \in {"find", "flush"} /\ c \in PushWork /\ c \in InBatch
  BY <1>3 DEF PushWork, InBatch
<1>11. BatchOK(p, rows, changes, u, save[p], c, r, Tail(td), batch'[p], failure'[p], reply[p])
  BY <1>2, <1>5, <1>7, <1>8, <1>9, <1>10 DEF BatchOK, Ended
<1> QED
  BY <1>3, <1>11 DEF BatchDone, Silent, SameRequest

LEMMA BatchRetry ==
  ASSUME TypeInv, ChainInv, DevicesInv, BatchesInv, NEW p \in Handlers, RetryShape(p)
  PROVE  BatchDone(p)
<1>1. /\ pc[p] = "find" /\ Advances(p) /\ save'[p] = save[p] /\ SameRequest(p) /\ Silent
      /\ tx'[p].pend = tx[p].pend \cup {} /\ tx'[p].ws = tx[p].ws
      /\ batch'[p].id = batch[p].id /\ batch'[p].changed = batch[p].changed
  BY DEF RetryShape, OnlyLocks
<1>2. Recorded(changes \cup tx'[p].pend, req[p], Op(p).id)
  BY <1>1 DEF RetryShape, Processed, VisibleChanges, Recorded
<1>3. batch[p].id \in Notes => Version(NoteView(rows, tx'[p], batch[p].id)) = Version(rows[batch[p].id])
  <2>1. batch[p].id \in Notes => Version(NoteView(rows, tx[p], batch[p].id)) = Version(rows[batch[p].id])
    BY <1>1, BatchWorks DEF InBatch, PushWork
  <2> QED
    BY <1>1, <2>1 DEF NoteView
<1>4. ResultsOK(rows, {}) /\ \A x \in {} : x.note = batch[p].id
  BY DEF ResultsOK
<1>5. batch'[p].changed <=> (batch[p].changed \/ {} # {})
  BY <1>1, Zenon
<1>6. \A n \in Notes : n # batch[p].id => tx'[p].ws[n] = tx[p].ws[n]
  BY <1>1
<1> QED
  BY <1>1, <1>2, <1>3, <1>4, <1>5, <1>6, BatchAdvances

\* What an accepted operation logs.
LEMMA AcceptedChange ==
  ASSUME TypeInv, ChainInv, DevicesInv, BatchesInv, NEW p \in Handlers, AcceptShape(p)
  PROVE  \E x \in Change :
           /\ pc[p] = "apply" /\ Advances(p) /\ save'[p] = save[p] /\ SameRequest(p) /\ Silent /\ seq' = seq + 1
           /\ tx'[p].pend = tx[p].pend \cup {x} /\ tx'[p].jobs = tx[p].jobs
           /\ x.note = batch[p].id /\ x.note = Op(p).note /\ x.seq = seq + 1
           /\ x.device = req[p].device /\ x.op = Op(p) /\ x.by = p
           /\ batch'[p].id = batch[p].id /\ batch'[p].changed
           /\ \A n \in Notes : n # batch[p].id =>
                tx'[p].ws[n] = tx[p].ws[n] /\ (n \in tx'[p].held <=> n \in tx[p].held)
           /\ batch[p].id \in Notes =>
                /\ x.result = Version(rows[batch[p].id]) + 1
                /\ Version(NoteView(rows, tx'[p], batch[p].id)) = Version(rows[batch[p].id])
<1>1. PICK t, b, base, result :
        /\ Prepared(p, t, b, base, result)
        /\ tx'[p] = Logged(t, NewChange(p, Op(p), base, result))
        /\ batch'[p] = Marked(b, NewChange(p, Op(p), base, result))
  BY DEF AcceptShape
<1> DEFINE x == NewChange(p, Op(p), base, result)
<1>2. /\ pc[p] = "apply" /\ t \in TxState /\ t.pend = tx[p].pend /\ t.jobs = tx[p].jobs
      /\ b \in BatchState /\ b.id = batch[p].id /\ base \in Nat /\ result \in Nat
      /\ Op(p).note \in Notes => PreparedNote(p, t, b, base, result)
  BY <1>1 DEF Prepared
<1>3. /\ Op(p) \in Operation /\ Op(p).note \in Notes \cup {NilNote} /\ Op(p).note = batch[p].id
      /\ User(p) \in Users /\ req[p].device \in Devices /\ seq \in Nat
  BY <1>2, CurrentRequest DEF TypeInv, StoreInv, Operation
<1>4. \A n \in Notes : n # batch[p].id => t.ws[n] = tx[p].ws[n] /\ (n \in t.held <=> n \in tx[p].held)
  BY <1>1, <1>3 DEF Prepared
<1>5. /\ x \in Change /\ x.seq = seq + 1 /\ x.device = req[p].device /\ x.by = p
      /\ x.note = Op(p).note /\ x.op = Op(p) /\ x.result = result
  BY <1>2, <1>3 DEF NewChange, Change
<1> HIDE DEF x
<1>6. /\ tx'[p].pend = tx[p].pend \cup {x} /\ tx'[p].ws = t.ws /\ tx'[p].held = t.held /\ tx'[p].jobs = t.jobs
      /\ batch'[p].id = batch[p].id /\ batch'[p].changed
  BY <1>1, <1>2 DEF Logged, Marked, TxState, BatchState, x
<1>7. ASSUME batch[p].id \in Notes
      PROVE  /\ result = Version(rows[batch[p].id]) + 1
             /\ Version(NoteView(rows, tx'[p], batch[p].id)) = Version(rows[batch[p].id])
  <2> DEFINE n == batch[p].id
  <2>1. Version(NoteView(rows, tx[p], n)) = Version(rows[n])
    BY <1>2, <1>7, BatchHandler DEF BatchOK, Ended, InBatch
  <2>2. base = Version(Visible(p, n)) /\ result = base + 1 /\ OwnedBy(NoteView(rows, t, n), User(p))
        /\ NoteView(rows, t, n).version = base
    BY <1>2, <1>3, <1>7 DEF PreparedNote
  <2>3. Visible(p, n) = NoteView(rows, tx[p], n)
    BY DEF Visible, NoteView
  <2>4. NoteView(rows, tx'[p], n) = NoteView(rows, t, n)
    BY <1>6 DEF NoteView
  <2> HIDE DEF n
  <2>5. Version(NoteView(rows, t, n)) = base
    BY <2>2 DEF OwnedBy, Version
  <2> QED
    BY <2>1, <2>2, <2>3, <2>4, <2>5 DEF n
<1>8. Advances(p) /\ save'[p] = save[p] /\ SameRequest(p) /\ Silent /\ seq' = seq + 1
  BY DEF AcceptShape
<1> QED
  BY <1>2, <1>3, <1>4, <1>5, <1>6, <1>7, <1>8

LEMMA BatchAccept ==
  ASSUME TypeInv, ChainInv, DevicesInv, BatchesInv, NEW p \in Handlers, AcceptShape(p)
  PROVE  BatchDone(p)
<1>1. PICK x \in Change :
           /\ pc[p] = "apply" /\ Advances(p) /\ save'[p] = save[p] /\ SameRequest(p) /\ Silent
           /\ tx'[p].pend = tx[p].pend \cup {x} /\ x.note = batch[p].id
           /\ x.device = req[p].device /\ x.op = Op(p)
           /\ batch'[p].id = batch[p].id /\ batch'[p].changed
           /\ \A n \in Notes : n # batch[p].id => tx'[p].ws[n] = tx[p].ws[n]
           /\ batch[p].id \in Notes =>
                /\ x.result = Version(rows[batch[p].id]) + 1
                /\ Version(NoteView(rows, tx'[p], batch[p].id)) = Version(rows[batch[p].id])
  BY AcceptedChange
<1>2. Recorded(changes \cup tx'[p].pend, req[p], Op(p).id)
  BY <1>1 DEF Recorded
<1>3. ResultsOK(rows, {x})
  BY <1>1 DEF ResultsOK
<1>4. batch'[p].changed <=> (batch[p].changed \/ {x} # {})
  BY <1>1
<1>5. \A y \in {x} : y.note = batch[p].id
  BY <1>1
<1> QED
  BY <1>1, <1>2, <1>3, <1>4, <1>5, BatchAdvances

LEMMA BatchQuiet ==
  ASSUME TypeInv, ChainInv, DevicesInv, BatchesInv, NEW p \in Handlers, QuietShape(p)
  PROVE  BatchDone(p)
<1>1. /\ pc[p] \in {"find", "apply"} /\ pc'[p] \in {"apply", "lookup"}
      /\ tx'[p] = tx[p] /\ SameBatch(p) /\ SameRequest(p) /\ Silent
  BY DEF QuietShape
<1>2. OrderOK(tx[p], save[p], pc'[p], req[p], todo[p], batch[p])
  BY <1>1, BatchWorks DEF PushWork, OrderOK
<1>3. BatchOK(p, rows, changes, tx[p], save[p], pc'[p], req[p], todo[p], batch[p], failure'[p], reply[p])
  BY <1>1, <1>2, BatchWorks DEF BatchOK, Ended, PushWork, InBatch
<1> QED
  BY <1>1, <1>3 DEF BatchDone, SameBatch, SameRequest, Silent

\* A rejection goes back to the savepoint, where the batch has left nothing.
LEMMA BatchReject ==
  ASSUME TypeInv, ChainInv, DevicesInv, BatchesInv, NEW p \in Handlers, RejectShape(p)
  PROVE  BatchDone(p)
<1> DEFINE sv == save[p]
           b == batch[p]
           f == failure'[p]
<1>1. /\ pc[p] \in {"apply", "lookup"} /\ pc'[p] = "rejected" /\ tx'[p] = sv
      /\ SameBatch(p) /\ SameRequest(p) /\ Silent /\ Op(p).note = b.id
  BY BatchHandler DEF RejectShape, Op
<1>2. pc[p] \in PushWork /\ pc[p] \in InBatch
  BY <1>1 DEF PushWork, InBatch
<1>3. /\ OrderOK(tx[p], sv, pc[p], req[p], todo[p], b) /\ ResultsOK(rows, tx[p].pend)
      /\ b.id \in Notes => Version(NoteView(rows, tx[p], b.id)) = Version(rows[b.id])
  BY <1>2, BatchWorks
<1>4. NoteRank(b.id) \in Int /\ sv.pend \subseteq tx[p].pend
  BY <1>2, BatchHandler, DeviceHandler DEF DeviceOK
<1>5. OrderOK(sv, sv, "rejected", req[p], todo[p], b)
  <2>1. \A n \in Notes : sv.ws[n] # Absent => n <= NoteRank(b.id)
    BY <1>3, <1>4, KeysAssumption DEF OrderOK
  <2> QED
    BY <1>3, <2>1 DEF OrderOK
<1>6. ResultsOK(rows, sv.pend)
  BY <1>3, <1>4 DEF ResultsOK
<1>7. f.version # 0 => b.id \in Notes /\ f.version <= Version(rows[b.id])
  <2>1. f.version = 0 \/ (b.id \in Notes /\ f.version = Version(Visible(p, b.id)))
    BY <1>1 DEF RejectShape
  <2>2. b.id \in Notes => Version(Visible(p, b.id)) = Version(rows[b.id]) /\ Version(rows[b.id]) \in Nat
    BY <1>3, BatchHandler DEF Visible, NoteView
  <2> QED
    BY <2>1, <2>2
<1>8. BatchOK(p, rows, changes, sv, sv, "rejected", req[p], todo[p], b, f, reply[p])
  BY <1>2, <1>5, <1>6, <1>7, BatchWorks DEF BatchOK, Ended, PushWork, InBatch
<1> QED
  BY <1>1, <1>8 DEF BatchDone, SameBatch, SameRequest, Silent

\* A step that opens the next batch.
LEMMA BatchOpened ==
  ASSUME NEW p, NEW td \in Seq(Operation), OpensBatch(p, td), Silent, req'[p] = req[p],
         Ranked(td), \A x \in changes : x.by # p, ResultsOK(rows, tx'[p].pend),
         \A n \in Notes : OneVersion(rows, tx'[p], n),
         \A e \in reply'[p].accepted : AllRecorded(changes \cup tx'[p].pend, req[p], e.note),
         NotesAvoided(tx'[p].pend, reply'[p]),
         \A u \in Elements(td) :
           /\ \A x \in tx'[p].pend : NoteRank(x.note) < NoteRank(u.note)
           /\ \A n \in Notes : tx'[p].ws[n] # Absent => n < NoteRank(u.note)
           /\ \A e \in reply'[p].rejected : NoteRank(e.note) < NoteRank(u.note)
           /\ \A o \in Elements(req[p].ops) : o \in Elements(td) \/ NoteRank(o.note) < NoteRank(u.note),
         tx'[p].pend \subseteq Change, req[p].ops \in Seq(Operation)
  PROVE  BatchDone(p)
<1> DEFINE t == tx'[p]
           r == req[p]
           a == reply'[p]
           f == failure'[p]
           R == rows
           C == changes
<1>1. /\ \A x \in C : x.by # p /\ ResultsOK(R, t.pend)
      /\ \A n \in Notes : OneVersion(R, t, n)
      /\ \A e \in a.accepted : AllRecorded(C \cup t.pend, r, e.note)
      /\ NotesAvoided(t.pend, a) /\ t.pend \subseteq Change /\ r.ops \in Seq(Operation)
  OBVIOUS
<1>2. \A u \in Elements(td) :
           /\ \A x \in t.pend : NoteRank(x.note) < NoteRank(u.note)
           /\ \A n \in Notes : t.ws[n] # Absent => n < NoteRank(u.note)
           /\ \A e \in a.rejected : NoteRank(e.note) < NoteRank(u.note)
           /\ \A o \in Elements(r.ops) : o \in Elements(td) \/ NoteRank(o.note) < NoteRank(u.note)
  OBVIOUS
<1>3. ResultsOK(R, t.pend)
  OBVIOUS
<1> HIDE DEF t, r, a, f, R, C
<1>4. BatchOK(p, R, C, t, t, IF td = <<>> THEN "commit" ELSE "find", r, td,
              NewBatch(IF td = <<>> THEN NilNote ELSE Head(td).note), f, a)
  BY <1>1, <1>2, <1>3, BatchOpens
<1>5. /\ rows' = R /\ changes' = C /\ tx'[p] = t /\ save'[p] = t /\ req'[p] = r /\ todo'[p] = td
      /\ failure'[p] = f /\ reply'[p] = a
      /\ batch'[p] = NewBatch(IF td = <<>> THEN NilNote ELSE Head(td).note)
      /\ pc'[p] = IF td = <<>> THEN "commit" ELSE "find"
  BY DEF OpensBatch, Silent, t, r, a, f, R, C
<1> QED
  BY <1>4, <1>5 DEF BatchDone

LEMMA BatchFlush ==
  ASSUME TypeInv, ChainInv, DevicesInv, BatchesInv, NEW p \in Handlers, FlushShape(p)
  PROVE  BatchDone(p)
<1> DEFINE t == tx[p]
           u == tx'[p]
           b == batch[p]
           td == todo[p]
           r == req[p]
           a == reply[p]
<1>1. /\ pc[p] = "flush" /\ OpensBatch(p, td) /\ Silent /\ req'[p] = r /\ u.pend = t.pend
      /\ \A n \in Notes : n # b.id => u.ws[n] = t.ws[n]
      /\ b.id \in Notes => IF b.changed /\ b.note # Absent
                           THEN OwnedBy(u.ws[b.id], b.note.owner) /\ u.ws[b.id].version = b.note.version + 1
                           ELSE u.ws[b.id] = t.ws[b.id]
  BY DEF FlushShape
<1>2. pc[p] \in PushWork /\ pc[p] \in InBatch
  BY <1>1 DEF PushWork, InBatch
<1>3. /\ OrderOK(t, save[p], "flush", r, td, b) /\ ProgressOK(changes, t, r, td, b) /\ ResultsOK(rows, t.pend)
      /\ \A n \in Notes : OneVersion(rows, save[p], n) /\ (n # b.id => OneVersion(rows, t, n))
      /\ \A e \in a.accepted : AllRecorded(changes \cup save[p].pend, r, e.note)
      /\ \A e \in a.rejected : NoteRank(e.note) < NoteRank(b.id)
      /\ NotesAvoided(save[p].pend, a) /\ \A x \in changes : x.by # p
      /\ b.id \in Notes => Version(NoteView(rows, t, b.id)) = Version(rows[b.id])
  BY <1>1, <1>2, BatchWorks
<1>4. /\ NoteRank(b.id) \in Int /\ b.id \in Notes \cup {NilNote} /\ save[p].pend \subseteq t.pend
      /\ td \in Seq(Operation) /\ t.pend \subseteq Change /\ r.ops \in Seq(Operation) /\ a \in Reply
  BY <1>1, <1>2, BatchHandler, DeviceHandler DEF DeviceOK
<1>5. /\ b.note # Absent => NoteView(rows, t, b.id) # Absent /\ b.note.version = NoteView(rows, t, b.id).version
      /\ b.changed /\ b.id \in Notes => b.note # Absent
  BY <1>2 DEF ChainInv, HandlerChain
<1>6. PICK e0 : e0.note = b.id /\ reply'[p] = [a EXCEPT !.accepted = @ \cup {e0}]
  BY DEF FlushShape
<1>7. reply'[p].accepted = a.accepted \cup {e0} /\ reply'[p].rejected = a.rejected
  BY <1>4, <1>6 DEF Reply
<1> HIDE DEF t, u, b, td, r, a
<1>8. \A n \in Notes : OneVersion(rows, u, n)
  <2>1. ASSUME NEW n \in Notes, n # b.id PROVE OneVersion(rows, u, n)
    <3>1. Touches(u, n) <=> Touches(t, n)
      BY <1>1 DEF Touches
    <3> QED
      BY <1>1, <1>3, <2>1, <3>1 DEF OneVersion, NoteView
  <2>2. ASSUME b.id \in Notes PROVE OneVersion(rows, u, b.id)
    <3>1. Touches(u, b.id) <=> b.changed
      BY <1>1, <1>3 DEF Touches, ProgressOK
    <3>2. CASE b.changed
      <4>1. Version(NoteView(rows, u, b.id)) = b.note.version + 1
        BY <1>1, <1>5, <2>2, <3>2 DEF NoteView, Version, OwnedBy
      <4>2. b.note.version = Version(rows[b.id])
        BY <1>3, <1>5, <2>2, <3>2 DEF Version
      <4> QED
        BY <3>1, <3>2, <4>1, <4>2 DEF OneVersion
    <3>3. CASE ~b.changed
      BY <1>1, <1>3, <2>2, <3>1, <3>3 DEF OneVersion, NoteView
    <3> QED
      BY <3>2, <3>3
  <2> QED
    BY <2>1, <2>2
<1>9. \A o \in Elements(td) : NoteRank(b.id) < NoteRank(o.note) /\ NoteRank(o.note) \in Int
  BY <1>3, <1>4, SequenceElements DEF OrderOK
<1>10. AllRecorded(changes \cup t.pend, r, b.id)
  <2>1. \A o \in Elements(td) : o.note # b.id
    BY <1>4, <1>9
  <2>2. \A o \in Elements(r.ops) :
          o.note = b.id => o \in Elements(td) \/ Recorded(changes \cup t.pend, r, o.id)
    BY <1>3 DEF ProgressOK
  <2> QED
    BY <2>1, <2>2 DEF AllRecorded
<1>11. \A e \in reply'[p].accepted : AllRecorded(changes \cup u.pend, r, e.note)
  BY <1>1, <1>3, <1>4, <1>6, <1>7, <1>10 DEF AllRecorded, Recorded
<1>12. NotesAvoided(u.pend, reply'[p])
  BY <1>1, <1>3, <1>4, <1>7 DEF NotesAvoided, OrderOK
<1>13. /\ \A x \in t.pend : NoteRank(x.note) <= NoteRank(b.id) /\ NoteRank(x.note) \in Int
       /\ \A e \in a.rejected : NoteRank(e.note) \in Int
       /\ \A o \in Elements(r.ops) : NoteRank(o.note) \in Int
  <2>1. \A x \in t.pend : NoteRank(x.note) \in Int
    BY <1>4, NoteRankTyped DEF Change
  <2>2. \A e \in a.rejected : NoteRank(e.note) \in Int
    BY <1>4, NoteRankTyped DEF Reply, Rejected
  <2>3. \A o \in Elements(r.ops) : NoteRank(o.note) \in Int
    BY <1>4, SequenceElements
  <2>4. \A x \in t.pend : NoteRank(x.note) <= NoteRank(b.id)
    BY <1>3, <1>4, <2>1 DEF OrderOK
  <2> QED
    BY <2>1, <2>2, <2>3, <2>4
<1>14. ASSUME NEW o \in Elements(td)
       PROVE  /\ \A x \in u.pend : NoteRank(x.note) < NoteRank(o.note)
              /\ \A n \in Notes : u.ws[n] # Absent => n < NoteRank(o.note)
              /\ \A e \in reply'[p].rejected : NoteRank(e.note) < NoteRank(o.note)
              /\ \A q \in Elements(r.ops) : q \in Elements(td) \/ NoteRank(q.note) < NoteRank(o.note)
  <2>1. NoteRank(b.id) < NoteRank(o.note) /\ NoteRank(o.note) \in Int
    BY <1>9
  <2>2. \A x \in u.pend : NoteRank(x.note) < NoteRank(o.note)
    BY <1>1, <1>4, <1>13, <2>1
  <2>3. ASSUME NEW n \in Notes, u.ws[n] # Absent PROVE n < NoteRank(o.note)
    <3>1. CASE n = b.id
      BY <2>1, <3>1, NoteRankTyped
    <3>2. CASE n # b.id
      BY <1>1, <1>3, <1>4, <2>1, <2>3, <3>2, KeysAssumption DEF OrderOK
    <3> QED
      BY <3>1, <3>2
  <2>4. \A e \in reply'[p].rejected : NoteRank(e.note) < NoteRank(o.note)
    BY <1>3, <1>4, <1>7, <1>13, <2>1
  <2>5. \A q \in Elements(r.ops) : q \in Elements(td) \/ NoteRank(q.note) < NoteRank(o.note)
    BY <1>3, <1>4, <1>13, <2>1 DEF OrderOK
  <2> QED
    BY <2>2, <2>3, <2>4, <2>5
<1>15. Ranked(td) /\ ResultsOK(rows, u.pend) /\ u.pend \subseteq Change
  BY <1>1, <1>3, <1>4 DEF OrderOK
<1> QED
  BY <1>1, <1>3, <1>4, <1>8, <1>11, <1>12, <1>14, <1>15, BatchOpened DEF u, r

LEMMA BatchRejectBatch ==
  ASSUME TypeInv, ChainInv, DevicesInv, BatchesInv, NEW p \in Handlers, RejectBatchShape(p)
  PROVE  BatchDone(p)
<1> DEFINE t == tx[p]
           u == tx'[p]
           b == batch[p]
           td == todo[p]
           s == AfterBatch(td, b.id)
           r == req[p]
           a == reply[p]
<1>1. /\ pc[p] = "rejected" /\ OpensBatch(p, s) /\ Silent /\ req'[p] = r /\ u.pend = t.pend /\ u.ws = t.ws
  BY DEF RejectBatchShape, OnlyLocks
<1>2. pc[p] \in PushWork
  BY <1>1 DEF PushWork
<1>3. /\ OrderOK(t, t, pc[p], r, td, b) /\ ResultsOK(rows, t.pend)
      /\ \A n \in Notes : OneVersion(rows, t, n)
      /\ \A e \in a.accepted : AllRecorded(changes \cup t.pend, r, e.note)
      /\ \A e \in a.rejected : NoteRank(e.note) < NoteRank(b.id)
      /\ NotesAvoided(t.pend, a) /\ \A x \in changes : x.by # p
  BY <1>1, <1>2, BatchWorks
<1>4. /\ NoteRank(b.id) \in Int /\ b.id \in Notes \cup {NilNote}
      /\ td \in Seq(Operation) /\ t.pend \subseteq Change /\ r.ops \in Seq(Operation) /\ a \in Reply
  BY <1>1, BatchHandler
<1>5. PICK e0 : e0.note = b.id /\ reply'[p] = [a EXCEPT !.rejected = @ \cup {e0}]
  BY DEF RejectBatchShape
<1>6. reply'[p].rejected = a.rejected \cup {e0} /\ reply'[p].accepted = a.accepted
  BY <1>4, <1>5 DEF Reply
<1>7. s \in Seq(Operation)
  BY <1>4, AfterBatchType
<1> HIDE DEF t, u, b, td, r, a
<1>8. /\ Ranked(td) /\ \A o \in Elements(td) : NoteRank(b.id) <= NoteRank(o.note)
      /\ \A o \in Elements(r.ops) : o \in Elements(td) \/ NoteRank(o.note) <= NoteRank(b.id)
      /\ \A x \in t.pend : NoteRank(x.note) < NoteRank(b.id)
      /\ \A n \in Notes : t.ws[n] # Absent => n < NoteRank(b.id)
  BY <1>3 DEF OrderOK
<1>9. /\ Ranked(s)
      /\ \A o \in Elements(s) : o \in Elements(td) /\ NoteRank(b.id) < NoteRank(o.note)
      /\ \A o \in Elements(td) : o \in Elements(s) \/ o.note = b.id
  BY <1>4, <1>8, AfterBatchElements
<1> HIDE DEF s
<1>10. /\ \A x \in t.pend : NoteRank(x.note) \in Int
       /\ \A e \in a.rejected : NoteRank(e.note) \in Int
       /\ \A o \in Elements(r.ops) : NoteRank(o.note) \in Int
       /\ \A o \in Elements(s) : NoteRank(o.note) \in Int
  <2>1. \A x \in t.pend : NoteRank(x.note) \in Int
    BY <1>4, NoteRankTyped DEF Change
  <2>2. \A e \in a.rejected : NoteRank(e.note) \in Int
    BY <1>4, NoteRankTyped DEF Reply, Rejected
  <2> QED
    BY <1>4, <1>7, <2>1, <2>2, SequenceElements
<1>11. \A n \in Notes : OneVersion(rows, u, n)
  BY <1>1, <1>3 DEF OneVersion, NoteView, Touches
<1>12. NotesAvoided(u.pend, reply'[p])
  <2>1. \A x \in t.pend : x.note # b.id
    BY <1>4, <1>8
  <2> QED
    BY <1>1, <1>3, <1>5, <1>6, <2>1 DEF NotesAvoided
<1>13. ASSUME NEW o \in Elements(s)
       PROVE  /\ \A x \in u.pend : NoteRank(x.note) < NoteRank(o.note)
              /\ \A n \in Notes : u.ws[n] # Absent => n < NoteRank(o.note)
              /\ \A e \in reply'[p].rejected : NoteRank(e.note) < NoteRank(o.note)
              /\ \A q \in Elements(r.ops) : q \in Elements(s) \/ NoteRank(q.note) < NoteRank(o.note)
  <2>1. NoteRank(b.id) < NoteRank(o.note) /\ NoteRank(o.note) \in Int
    BY <1>9, <1>10
  <2>2. \A x \in u.pend : NoteRank(x.note) < NoteRank(o.note)
    BY <1>1, <1>4, <1>8, <1>10, <2>1
  <2>3. \A n \in Notes : u.ws[n] # Absent => n < NoteRank(o.note)
    BY <1>1, <1>4, <1>8, <2>1, KeysAssumption
  <2>4. \A e \in reply'[p].rejected : NoteRank(e.note) < NoteRank(o.note)
    BY <1>3, <1>4, <1>5, <1>6, <1>10, <2>1
  <2>5. ASSUME NEW q \in Elements(r.ops), q \notin Elements(s) PROVE NoteRank(q.note) < NoteRank(o.note)
    <3>1. NoteRank(q.note) <= NoteRank(b.id)
      BY <1>4, <1>8, <1>9, <2>5
    <3> QED
      BY <1>4, <1>10, <2>1, <3>1
  <2> QED
    BY <2>2, <2>3, <2>4, <2>5
<1>14. /\ ResultsOK(rows, u.pend) /\ u.pend \subseteq Change
       /\ \A e \in reply'[p].accepted : AllRecorded(changes \cup u.pend, r, e.note)
  BY <1>1, <1>3, <1>4, <1>6
<1> QED
  BY <1>1, <1>3, <1>4, <1>7, <1>9, <1>11, <1>12, <1>13, <1>14, BatchOpened DEF u, r

LEMMA BatchLock ==
  ASSUME TypeInv, ChainInv, DevicesInv, BatchesInv, NEW p \in Handlers, LockShape(p)
  PROVE  BatchDone(p)
<1> DEFINE t == Lock(EmptyTx, req[p].device)
           td == SortedOperations(req[p].ops)
<1>1. /\ pc[p] = "lock" /\ req'[p] = req[p] /\ reply'[p] = reply[p] /\ Silent
  BY DEF LockShape, SameRequest
<1>2. tx[p] = EmptyTx /\ reply[p] = NoReply /\ req[p].ops \in Seq(Operation) /\ \A x \in changes : x.by # p
  BY <1>1, DeviceHandler, BatchHandler DEF DeviceOK, Working, BatchOK, Ended
<1>3. tx'[p] = t /\ reply'[p].accepted = {} /\ reply'[p].rejected = {}
  BY <1>1, <1>2 DEF LockShape, NoReply
<1>4. t.pend = {} /\ \A n \in Notes : t.ws[n] = Absent
  BY EmptyTxFacts DEF Lock, TxState, Keys
<1> HIDE DEF t
<1>5. \A n \in Notes : OneVersion(rows, t, n)
  BY <1>4 DEF OneVersion, NoteView, Touches
<1>6. ResultsOK(rows, t.pend) /\ t.pend \subseteq Change /\ NotesAvoided(t.pend, reply'[p])
  BY <1>4 DEF ResultsOK, NotesAvoided
<1>7. CASE req[p].kind = "push" /\ OpensBatch(p, td)
  <2>1. Ranked(td) /\ Elements(req[p].ops) \subseteq Elements(td) /\ td \in Seq(Operation)
    BY <1>2, SortedOperationsRanked, SortedOperationsIsSeq
  <2> HIDE DEF td
  <2>2. \A u \in Elements(td) :
           /\ \A x \in tx'[p].pend : NoteRank(x.note) < NoteRank(u.note)
           /\ \A n \in Notes : tx'[p].ws[n] # Absent => n < NoteRank(u.note)
           /\ \A e \in reply'[p].rejected : NoteRank(e.note) < NoteRank(u.note)
           /\ \A o \in Elements(req[p].ops) : o \in Elements(td) \/ NoteRank(o.note) < NoteRank(u.note)
    BY <1>3, <1>4, <2>1
  <2>3. \A e \in reply'[p].accepted : AllRecorded(changes \cup tx'[p].pend, req[p], e.note)
    BY <1>3
  <2>4. ResultsOK(rows, tx'[p].pend) /\ tx'[p].pend \subseteq Change /\ NotesAvoided(tx'[p].pend, reply'[p])
        /\ \A n \in Notes : OneVersion(rows, tx'[p], n)
    BY <1>3, <1>5, <1>6
  <2> QED
    BY <1>1, <1>2, <1>7, <2>1, <2>2, <2>3, <2>4, BatchOpened
<1>8. CASE req[p].kind = "pull" /\ pc'[p] = "page"
  <2>1. BatchOK(p, rows, changes, t, save'[p], "page", req[p], todo'[p], batch'[p], failure'[p], reply'[p])
    BY <1>2, <1>5, <1>6 DEF BatchOK, Ended, PushWork, InBatch
  <2> QED
    BY <1>1, <1>3, <1>8, <2>1 DEF BatchDone, Silent
<1> QED
  BY <1>7, <1>8 DEF LockShape

LEMMA BatchPage ==
  ASSUME TypeInv, ChainInv, DevicesInv, BatchesInv, NEW p \in Handlers, PageShape(p)
  PROVE  BatchDone(p)
<1>1. pc[p] = "page" /\ pc'[p] = "commit" /\ req'[p] = req[p] /\ Silent
  BY DEF PageShape
<1>2. /\ tx[p] \in TxState /\ tx[p].pend = {} /\ reply[p] = NoReply /\ req[p].device \in Devices
      /\ \A x \in changes : x.by # p
      /\ \A n \in Notes : OneVersion(rows, tx[p], n)
  BY <1>1, DeviceHandler, BatchHandler DEF DeviceOK, BatchOK, Ended, Request
<1> DEFINE d == req[p].device
           row == tx'[p].ws[d]
<1>3. \E v : tx'[p] = Write(tx[p], d, v)
  BY DEF PageShape
<1>4. tx'[p].pend = {} /\ \A n \in Notes : tx'[p].ws[n] = tx[p].ws[n]
  BY <1>2, <1>3, KeysAssumption DEF Write, TxState, Keys
<1>5. reply'[p].accepted = {} /\ reply'[p].rejected = {}
  BY <1>2 DEF PageShape, NoReply
<1>6. \A n \in Notes : OneVersion(rows, tx'[p], n)
  BY <1>2, <1>4 DEF OneVersion, NoteView, Touches
<1>7. BatchOK(p, rows, changes, tx'[p], save'[p], "commit", req[p], todo'[p], batch'[p], failure'[p], reply'[p])
  BY <1>2, <1>4, <1>5, <1>6 DEF BatchOK, Ended, PushWork, InBatch, ResultsOK, NotesAvoided
<1> QED
  BY <1>1, <1>7 DEF BatchDone, Silent

LEMMA BatchCommit ==
  ASSUME TypeInv, ChainInv, DevicesInv, BatchesInv, NEW p \in Handlers, CommitShape(p)
  PROVE  BatchDone(p)
<1>1. /\ pc[p] = "commit" /\ pc'[p] \in {"publish", "respond"} /\ tx'[p] = EmptyTx
      /\ SameBatch(p) /\ SameRequest(p) /\ changes' = changes \cup tx[p].pend
  BY DEF CommitShape
<1>2. /\ \A x \in changes : x.by # p
      /\ \A e \in reply[p].accepted : AllRecorded(changes \cup tx[p].pend, req[p], e.note)
      /\ NotesAvoided(tx[p].pend, reply[p])
  BY <1>1, BatchHandler DEF BatchOK, Ended
<1>3. NotesAvoided({x \in changes' : x.by = p}, reply[p])
  BY <1>1, <1>2 DEF NotesAvoided
<1>4. ResultsOK(rows', EmptyTx.pend)
  BY EmptyTxFacts DEF ResultsOK
<1>5. BatchOK(p, rows', changes', EmptyTx, save[p], pc'[p], req[p], todo[p], batch[p], failure'[p], reply[p])
  BY <1>1, <1>2, <1>3, <1>4 DEF BatchOK, Ended, PushWork, InBatch
<1> QED
  BY <1>1, <1>5 DEF BatchDone, SameBatch, SameRequest

LEMMA BatchEnd ==
  ASSUME TypeInv, ChainInv, DevicesInv, BatchesInv, NEW p \in Handlers,
         FailShape(p) \/ ReceiveShape(p) \/ PublishShape(p) \/ RespondShape(p) \/ UnknownShape(p)
  PROVE  BatchDone(p)
<1>1. rows' = rows /\ changes' = changes /\ todo'[p] = todo[p] /\ batch'[p] = batch[p] /\ save'[p] = save[p]
      /\ reply'[p] = reply[p]
  BY DEF FailShape, ReceiveShape, PublishShape, RespondShape, UnknownShape, SameBatch, SameRequest, Silent
<1>2. tx'[p] = EmptyTx
  BY DeviceHandler DEF FailShape, ReceiveShape, PublishShape, RespondShape, UnknownShape, DeviceOK, Working
<1>3. ResultsOK(rows, EmptyTx.pend)
  BY EmptyTxFacts DEF ResultsOK
<1>4. CASE FailShape(p) \/ ReceiveShape(p)
  <2>1. /\ pc[p] \notin {"publish", "respond", "done", "failed"} /\ pc'[p] \in {"lock", "failed"}
        /\ pc'[p] = "failed" => failure'[p].reason # "commit_unknown"
    BY <1>4 DEF FailShape, ReceiveShape, InTx
  <2>2. \A x \in changes : x.by # p
    BY <2>1, BatchHandler DEF BatchOK, Ended
  <2>3. BatchOK(p, rows, changes, EmptyTx, save[p], pc'[p], req'[p], todo[p], batch[p], failure'[p], reply[p])
    BY <1>3, <2>1, <2>2 DEF BatchOK, Ended, PushWork, InBatch
  <2> QED
    BY <1>1, <1>2, <2>3 DEF BatchDone
<1>5. CASE PublishShape(p) \/ RespondShape(p) \/ UnknownShape(p)
  <2>1. /\ pc[p] \in {"publish", "respond"} /\ pc'[p] \in {"done", "failed"} /\ Ended(pc'[p], failure'[p])
        /\ req'[p] = req[p]
    BY <1>5 DEF PublishShape, RespondShape, UnknownShape, SameRequest, Ended
  <2>2. /\ \A e \in reply[p].accepted : AllRecorded(changes, req[p], e.note)
        /\ NotesAvoided({x \in changes : x.by = p}, reply[p])
    BY <2>1, BatchHandler DEF BatchOK, Ended
  <2>3. BatchOK(p, rows, changes, EmptyTx, save[p], pc'[p], req[p], todo[p], batch[p], failure'[p], reply[p])
    BY <1>3, <2>1, <2>2 DEF BatchOK, Ended, PushWork, InBatch
  <2> QED
    BY <1>1, <1>2, <2>1, <2>3 DEF BatchDone
<1> QED
  BY <1>4, <1>5

LEMMA BatchOwn ==
  ASSUME TypeInv, ChainInv, DevicesInv, BatchesInv, NEW p \in Handlers, BatchShape(p) \/ RequestShape(p)
  PROVE  BatchDone(p)
  BY BatchLock, BatchRetry, BatchQuiet, BatchAccept, BatchReject, BatchFlush, BatchRejectBatch, BatchEnd,
     BatchCommit, BatchPage DEF BatchShape, OperationShape, RequestShape

-----------------------------------------------------------------------------
(* What a step makes of the committed tables.                              *)

\* A commit takes the notes it has logged operations of one version further.
LEMMA CommitNotes ==
  ASSUME TypeInv, ChainInv, DevicesInv, BatchesInv, NEW p \in Handlers, CommitShape(p)
  PROVE  /\ changes' = changes \cup tx[p].pend /\ outbox' = outbox \cup tx[p].jobs
         /\ \A n \in Notes :
              /\ rows'[n] = NoteView(rows, tx[p], n) /\ (n \notin tx[p].held => rows'[n] = rows[n])
              /\ Version(rows'[n]) = IF Touches(tx[p], n) THEN Version(rows[n]) + 1 ELSE Version(rows[n])
              /\ Version(rows'[n]) \in Nat /\ Version(rows[n]) <= Version(rows'[n])
         /\ \A x \in tx[p].pend : x.by = p /\ x.device = req[p].device
                                  /\ (x.note \in Notes => x.result = Version(rows[x.note]) + 1)
<1>1. /\ pc[p] = "commit" /\ rows' = [k \in Keys |-> Visible(p, k)]
      /\ changes' = changes \cup tx[p].pend /\ outbox' = outbox \cup tx[p].jobs
  BY DEF CommitShape
<1>2. /\ \A n \in Notes : OneVersion(rows, tx[p], n) /\ Version(rows[n]) \in Nat
      /\ ResultsOK(rows, tx[p].pend) /\ TxLocks(tx[p])
  BY <1>1, BatchHandler DEF BatchOK, Ended
<1>3. ASSUME NEW n \in Notes
      PROVE  /\ rows'[n] = NoteView(rows, tx[p], n) /\ (n \notin tx[p].held => rows'[n] = rows[n])
             /\ Version(rows'[n]) = IF Touches(tx[p], n) THEN Version(rows[n]) + 1 ELSE Version(rows[n])
             /\ Version(rows'[n]) \in Nat /\ Version(rows[n]) <= Version(rows'[n])
  <2>1. rows'[n] = NoteView(rows, tx[p], n)
    BY <1>1 DEF Keys, Visible, NoteView
  <2>2. n \notin tx[p].held => rows'[n] = rows[n]
    BY <1>2, <2>1 DEF TxLocks, NoteView
  <2>3. Version(rows'[n]) = IF Touches(tx[p], n) THEN Version(rows[n]) + 1 ELSE Version(rows[n])
    BY <1>2, <2>1 DEF OneVersion
  <2>4. Version(rows'[n]) \in Nat /\ Version(rows[n]) <= Version(rows'[n])
    BY <1>2, <2>3
  <2> QED
    BY <2>1, <2>2, <2>3, <2>4
<1>4. \A x \in tx[p].pend : x.by = p /\ x.device = req[p].device
  BY DeviceHandler DEF DeviceOK
<1> QED
  BY <1>1, <1>2, <1>3, <1>4 DEF ResultsOK

\* No other step changes them.
LEMMA OthersCommitNothing ==
  ASSUME NEW p \in Handlers, BatchShape(p) \/ RequestShape(p), ~CommitShape(p)
  PROVE  rows' = rows /\ changes' = changes /\ outbox' = outbox /\ snapshots' = snapshots
<1>1. CASE BatchShape(p)
  BY <1>1 DEF BatchShape, OperationShape, LockShape, RetryShape, QuietShape, AcceptShape, RejectShape, FlushShape,
     RejectBatchShape, FailShape, Silent
<1>2. CASE RequestShape(p)
  BY <1>2 DEF RequestShape, ReceiveShape, PublishShape, PageShape, RespondShape, UnknownShape, Silent
<1> QED
  BY <1>1, <1>2

LEMMA DeviceRowsOnly ==
  ASSUME TypeInv, NEW d \in Devices, DeviceShape(d)
  PROVE  \A n \in Notes : rows'[n] = rows[n]
<1>1. rows \in [Keys -> Row \cup {Absent}] /\ \A n \in Notes : n \in Keys /\ n # d
  BY ShapeTypes, KeysAssumption DEF Keys
<1> QED
  BY <1>1 DEF DeviceShape

\* What other handlers have locked stays as it is.
LEMMA HeldNotesStay ==
  ASSUME TypeInv, ChainInv, DevicesInv, BatchesInv, NEW p \in Handlers, BatchShape(p) \/ RequestShape(p),
         NEW q \in Handlers \ {p}
  PROVE  /\ \A n \in Notes : n \in tx[q].held => rows'[n] = rows[n]
         /\ \A n \in Notes : /\ Version(rows[n]) \in Nat /\ Version(rows'[n]) \in Nat
                             /\ Version(rows[n]) <= Version(rows'[n])
         /\ changes \subseteq changes' /\ \A x \in changes' : x \in changes \/ x.by # q
<1>1. \A n \in Notes : Version(rows[n]) \in Nat
  BY BatchHandler
<1>2. CASE CommitShape(p)
  <2>1. \A n \in Notes : n \in tx[q].held => n \notin tx[p].held
    BY DEF ChainInv, Exclusive
  <2>2. /\ changes' = changes \cup tx[p].pend /\ \A x \in tx[p].pend : x.by = p
        /\ \A n \in Notes : /\ n \notin tx[p].held => rows'[n] = rows[n]
                            /\ Version(rows'[n]) \in Nat /\ Version(rows[n]) <= Version(rows'[n])
    BY <1>2, CommitNotes
  <2> QED
    BY <1>1, <2>1, <2>2
<1>3. CASE ~CommitShape(p)
  BY <1>1, <1>3, OthersCommitNothing
<1> QED
  BY <1>2, <1>3

LEMMA BatchesStep ==
  ASSUME TypeInv, ChainInv, DevicesInv, BatchesInv, StepShape
  PROVE  BatchesInv'
<1>1. ASSUME NEW q \in Handlers, NEW R, NEW E,
             changes \subseteq E, \A x \in E : x \in changes \/ x.by # q,
             \A n \in Notes : n \in tx[q].held => R[n] = rows[n],
             \A n \in Notes : Version(rows[n]) \in Nat /\ Version(R[n]) \in Nat /\ Version(rows[n]) <= Version(R[n])
      PROVE  BatchOK(q, R, E, tx[q], save[q], pc[q], req[q], todo[q], batch[q], failure[q], reply[q])
  <2> DEFINE t == tx[q]
             sv == save[q]
             c == pc[q]
             r == req[q]
             td == todo[q]
             b == batch[q]
             f == failure[q]
             a == reply[q]
             C == changes
             S == rows
  <2>1. /\ BatchOK(q, S, C, t, sv, c, r, td, b, f, a) /\ TxLocks(t) /\ f.version \in Nat
        /\ c \in InBatch => TxLocks(sv) /\ \A n \in Notes : n \in sv.held => n \in t.held
    BY BatchHandler
  <2>2. /\ \A n \in Notes : n \in t.held => R[n] = S[n]
        /\ \A n \in Notes : Version(S[n]) \in Nat /\ Version(R[n]) \in Nat /\ Version(S[n]) <= Version(R[n])
        /\ C \subseteq E /\ \A x \in E : x \in C \/ x.by # q
    BY <1>1
  <2> HIDE DEF t, sv, c, r, td, b, f, a, C, S
  <2>3. BatchOK(q, R, E, t, sv, c, r, td, b, f, a)
    BY <2>1, <2>2, BatchStays
  <2> QED
    BY <2>3 DEF t, sv, c, r, td, b, f, a
<1>2. ASSUME NEW p \in Handlers, Alone(p), BatchShape(p) \/ RequestShape(p) PROVE BatchesInv'
  <2>1. BatchDone(p)
    BY <1>2, BatchOwn
  <2>2. ASSUME NEW q \in Handlers \ {p} PROVE BatchDone(q)
    <3>1. BatchOK(q, rows', changes', tx[q], save[q], pc[q], req[q], todo[q], batch[q], failure[q], reply[q])
      BY <1>1, <1>2, HeldNotesStay
    <3> QED
      BY <1>2, <3>1 DEF Alone, BatchDone
  <2> QED
    BY <2>1, <2>2 DEF BatchesInv, BatchesOK, BatchDone
<1>3. ASSUME NEW d \in Devices, DeviceShape(d) PROVE BatchesInv'
  <2>1. ASSUME NEW q \in Handlers PROVE BatchDone(q)
    <3>1. \A n \in Notes : rows'[n] = rows[n] /\ Version(rows[n]) \in Nat
      BY <1>3, DeviceRowsOnly, BatchHandler
    <3>2. BatchOK(q, rows', changes, tx[q], save[q], pc[q], req[q], todo[q], batch[q], failure[q], reply[q])
      BY <1>1, <3>1
    <3> QED
      BY <1>3, <3>2 DEF DeviceShape, BatchDone
  <2> QED
    BY <2>1 DEF BatchesInv, BatchesOK, BatchDone
<1>4. CASE Still
  BY <1>4 DEF BatchesInv, BatchesOK, Still
<1> QED
  BY <1>2, <1>3, <1>4 DEF StepShape

-----------------------------------------------------------------------------
(* The documents that rejections return.                                   *)

\* What is logged in a step is beyond every sequence and version there was.
LEMMA NewLogs ==
  ASSUME TypeInv, ChainInv, DevicesInv, BatchesInv, StepShape
  PROVE  /\ seq \in Nat /\ seq' \in Nat /\ seq <= seq'
         /\ \A y \in Logs' : \/ y \in Logs
                             \/ y.seq = seq + 1 /\ (y.note \in Notes => y.result = Version(rows[y.note]) + 1)
<1>1. seq \in Nat /\ seq' \in Nat /\ seq <= seq' /\ \A y \in Logs' : y \in Logs \/ y.seq = seq + 1
  BY LogsGrow
<1>2. ASSUME NEW y \in Logs', y \notin Logs, y.note \in Notes PROVE y.result = Version(rows[y.note]) + 1
  <2>1. PICK p \in Handlers : Alone(p) /\ (BatchShape(p) \/ RequestShape(p))
    BY <1>2 DEF StepShape, DeviceShape, Still, Logs
  <2>2. changes' \subseteq Logs
    <3>1. CASE CommitShape(p)
      BY <3>1 DEF CommitShape, Logs
    <3>2. CASE ~CommitShape(p)
      BY <2>1, <3>2, OthersCommitNothing DEF Logs
    <3> QED
      BY <3>1, <3>2
  <2>3. PICK q \in Handlers : y \in tx'[q].pend /\ y \notin tx[q].pend
    BY <1>2, <2>2 DEF Logs
  <2>4. q = p
    BY <2>1, <2>3 DEF Alone
  <2>5. AcceptShape(p)
    BY <2>1, <2>3, <2>4, LogShapes
  <2>6. PICK x \in Change : /\ tx'[p].pend = tx[p].pend \cup {x} /\ x.note = batch[p].id
                            /\ batch[p].id \in Notes => x.result = Version(rows[batch[p].id]) + 1
    BY <2>5, AcceptedChange
  <2> QED
    BY <1>2, <2>3, <2>4, <2>6
<1> QED
  BY <1>1, <1>2

LEMMA DocumentStays ==
  ASSUME TypeInv, ChainInv, DevicesInv, BatchesInv, StepShape, NEW e \in Rejected, DocumentOK(rows, Logs, seq, e),
         \A n \in Notes : Version(rows[n]) \in Nat /\ Version(rows'[n]) \in Nat /\ Version(rows[n]) <= Version(rows'[n])
  PROVE  DocumentOK(rows', Logs', seq', e)
<1> SUFFICES ASSUME e.snapshot # None PROVE DocumentOK(rows', Logs', seq', e)
  BY DEF DocumentOK
<1> DEFINE n == e.note
<1>1. /\ n \in Notes /\ e.version <= e.snapshot /\ e.snapshot <= Version(rows[n]) /\ e.cursor <= seq
      /\ \A x \in Logs : x.note = n => (x.seq <= e.cursor <=> x.result <= e.snapshot)
  BY DEF DocumentOK
<1>2. e.snapshot \in Nat /\ e.cursor \in Nat
  BY DEF Rejected
<1>3. Version(rows[n]) \in Nat /\ Version(rows'[n]) \in Nat /\ Version(rows[n]) <= Version(rows'[n])
  BY <1>1
<1>4. seq \in Nat /\ seq' \in Nat /\ seq <= seq'
  BY NewLogs
<1> HIDE DEF n
<1>5. e.snapshot <= Version(rows'[n]) /\ e.cursor <= seq'
  BY <1>1, <1>2, <1>3, <1>4
<1>6. ASSUME NEW x \in Logs', x.note = n PROVE x.seq <= e.cursor <=> x.result <= e.snapshot
  <2>1. CASE x \in Logs
    BY <1>1, <1>6, <2>1
  <2>2. CASE x.seq = seq + 1 /\ x.result = Version(rows[n]) + 1
    <3>1. ~(x.seq <= e.cursor)
      BY <1>1, <1>2, <1>4, <2>2
    <3>2. ~(x.result <= e.snapshot)
      BY <1>1, <1>2, <1>3, <2>2
    <3> QED
      BY <3>1, <3>2
  <2> QED
    BY <1>1, <1>6, <2>1, <2>2, NewLogs
<1> QED
  BY <1>1, <1>5, <1>6 DEF DocumentOK, n

\* Every step moves the committed versions forward.
LEMMA VersionsGrow ==
  ASSUME TypeInv, ChainInv, DevicesInv, BatchesInv, StepShape
  PROVE  \A n \in Notes : Version(rows[n]) \in Nat /\ Version(rows'[n]) \in Nat /\ Version(rows[n]) <= Version(rows'[n])
<1>1. \A n \in Notes : Version(rows[n]) \in Nat
  BY ChainTypes, VersionTyped DEF TypeInv, StoreInv, TypedRow, Keys
<1>2. ASSUME NEW p \in Handlers, CommitShape(p)
      PROVE  \A n \in Notes : Version(rows'[n]) \in Nat /\ Version(rows[n]) <= Version(rows'[n])
  BY <1>2, CommitNotes
<1>3. ASSUME NEW p \in Handlers, BatchShape(p) \/ RequestShape(p), ~CommitShape(p) PROVE rows' = rows
  BY <1>3, OthersCommitNothing
<1>4. ASSUME NEW d \in Devices, DeviceShape(d) PROVE \A n \in Notes : rows'[n] = rows[n]
  BY <1>4, DeviceRowsOnly
<1>5. CASE \A n \in Notes : rows'[n] = rows[n]
  BY <1>1, <1>5
<1>6. CASE \E p \in Handlers : CommitShape(p)
  BY <1>1, <1>2, <1>6
<1>7. Still => rows' = rows
  BY DEF Still
<1> QED
  BY <1>3, <1>4, <1>5, <1>6, <1>7 DEF StepShape

\* The document of a rejected batch: the note is locked again, so it has no
\* uncommitted operations, and all its committed ones are of its version or older.
LEMMA DocumentCurrent ==
  ASSUME TypeInv, ChainInv, DevicesInv, BatchesInv, NEW p \in Handlers, pc[p] = "rejected",
         NEW r, r.note = batch[p].id, CurrentDocument(p, r)
  PROVE  DocumentOK(rows, Logs, seq, r)
<1> DEFINE n == batch[p].id
           S == {0} \cup {c.seq : c \in {d \in VisibleChanges(p) : d.note = n}}
           v == Version(rows[n])
<1>1. /\ n \in Notes /\ Free(p, n) /\ r.snapshot = Version(Visible(p, n)) /\ r.cursor = Max(S)
      /\ r.version \in {r.snapshot, failure[p].version}
  BY DEF CurrentDocument, LastAppliedCursor
<1>2. pc[p] \in PushWork
  BY DEF PushWork
<1>3. /\ OrderOK(tx[p], save[p], pc[p], req[p], todo[p], batch[p]) /\ tx[p] = save[p]
      /\ OneVersion(rows, tx[p], n) /\ (failure[p].version # 0 => failure[p].version <= v)
  BY <1>1, <1>2, BatchWorks
<1>4. v \in Nat /\ failure[p].version \in Nat /\ NoteRank(n) \in Int
  BY <1>1, BatchHandler
<1>5. ~Touches(tx[p], n)
  BY <1>3, <1>4 DEF Touches, OrderOK
<1>6. r.snapshot = v
  BY <1>1, <1>3, <1>5 DEF OneVersion, Visible, NoteView
<1>7. r.version <= r.snapshot
  BY <1>1, <1>3, <1>4, <1>6
<1>8. seq \in Nat /\ \A c \in VisibleChanges(p) : c.seq \in Nat /\ c.seq <= seq
  BY ChainTypes DEF VisibleChanges
<1>9. Max(S) \in S /\ \A s \in S : s <= Max(S)
  <2>1. S \subseteq Nat /\ S # {} /\ \A s \in S : s <= seq
    BY <1>8
  <2> HIDE DEF S
  <2> QED
    BY <1>8, <2>1, MaxOfBounded
<1>10. r.cursor <= seq
  BY <1>1, <1>8, <1>9
<1>11. ASSUME NEW x \in Logs, x.note = n PROVE x \in changes
  <2>1. ASSUME NEW q \in Handlers, x \in tx[q].pend PROVE FALSE
    <3>1. CASE q = p
      BY <1>5, <1>11, <2>1, <3>1 DEF Touches
    <3>2. CASE q # p
      <4>1. TxLocks(tx[q])
        BY BatchHandler
      <4> QED
        BY <1>1, <1>11, <2>1, <3>2, <4>1 DEF TxLocks, Free
    <3> QED
      BY <3>1, <3>2
  <2> QED
    BY <1>11, <2>1 DEF Logs
<1>12. \A c \in changes : c.note = n => c.result \in 1 .. v
  BY <1>1 DEF ChainInv, CommittedChain, GoodLog
<1>13. ASSUME NEW x \in Logs, x.note = n PROVE x.seq <= r.cursor /\ x.result <= r.snapshot
  <2>1. x \in changes
    BY <1>11, <1>13
  <2>2. x.seq \in S
    BY <1>13, <2>1 DEF VisibleChanges
  <2>3. x.seq <= r.cursor
    BY <1>1, <1>9, <2>2
  <2>4. x.result <= r.snapshot
    BY <1>4, <1>6, <1>12, <1>13, <2>1
  <2> QED
    BY <2>3, <2>4
<1>14. r.snapshot <= Version(rows[r.note])
  BY <1>4, <1>6
<1> HIDE DEF n, S, v
<1> QED
  BY <1>1, <1>7, <1>10, <1>13, <1>14 DEF DocumentOK, n

\* What a step adds to the rejections of a handler.
LEMMA NewRejections ==
  ASSUME TypeInv, DevicesInv, NEW p \in Handlers, BatchShape(p) \/ RequestShape(p)
  PROVE  \A e \in reply'[p].rejected :
           \/ e \in reply[p].rejected
           \/ pc[p] = "rejected" /\ e.note = batch[p].id /\ (e.snapshot # None => CurrentDocument(p, e))
<1>1. reply[p] \in Reply
  BY DeviceHandler
<1>2. CASE RejectBatchShape(p)
  <2>1. PICK r : /\ r.note = batch[p].id /\ reply'[p] = [reply[p] EXCEPT !.rejected = @ \cup {r}]
                 /\ r.snapshot # None => CurrentDocument(p, r)
    BY <1>2 DEF RejectBatchShape
  <2>2. reply'[p].rejected = reply[p].rejected \cup {r} /\ pc[p] = "rejected"
    BY <1>1, <1>2, <2>1 DEF Reply, RejectBatchShape
  <2> QED
    BY <2>1, <2>2
<1>3. CASE FlushShape(p)
  <2>1. PICK a : reply'[p] = [reply[p] EXCEPT !.accepted = @ \cup {a}]
    BY <1>3 DEF FlushShape
  <2> QED
    BY <1>1, <2>1 DEF Reply
<1>4. CASE PageShape(p)
  BY <1>1, <1>4 DEF PageShape, Reply
<1>5. CASE BatchShape(p) /\ ~RejectBatchShape(p) /\ ~FlushShape(p)
  BY <1>5 DEF BatchShape, OperationShape, LockShape, RetryShape, QuietShape, AcceptShape, RejectShape, FailShape,
     SameRequest
<1>6. CASE RequestShape(p) /\ ~PageShape(p)
  BY <1>6 DEF RequestShape, ReceiveShape, CommitShape, PublishShape, RespondShape, UnknownShape, SameRequest
<1> QED
  BY <1>2, <1>3, <1>4, <1>5, <1>6

LEMMA DocumentsStep ==
  ASSUME TypeInv, ChainInv, DevicesInv, BatchesInv, DocumentsInv, StepShape, TypeInv'
  PROVE  DocumentsInv'
<1>1. \A q \in Handlers : reply'[q].rejected \subseteq Rejected
  BY DEF TypeInv, HandlerInv, HandlerOK, Reply
<1>2. ASSUME NEW e \in Rejected, DocumentOK(rows, Logs, seq, e) PROVE DocumentOK(rows', Logs', seq', e)
  BY <1>2, VersionsGrow, DocumentStays
<1>3. ASSUME NEW q \in Handlers, NEW e \in reply'[q].rejected PROVE DocumentOK(rows, Logs, seq, e)
  <2>1. CASE e \in reply[q].rejected
    BY <2>1 DEF DocumentsInv
  <2>2. CASE e \notin reply[q].rejected
    <3>1. PICK p \in Handlers : Alone(p) /\ (BatchShape(p) \/ RequestShape(p))
      BY <1>3, <2>2 DEF StepShape, DeviceShape, Still
    <3>2. q = p
      BY <1>3, <2>2, <3>1 DEF Alone
    <3>3. pc[p] = "rejected" /\ e.note = batch[p].id /\ (e.snapshot # None => CurrentDocument(p, e))
      BY <1>3, <2>2, <3>1, <3>2, NewRejections
    <3>4. CASE e.snapshot # None
      BY <3>3, <3>4, DocumentCurrent
    <3>5. CASE e.snapshot = None
      BY <3>5 DEF DocumentOK
    <3> QED
      BY <3>4, <3>5
  <2> QED
    BY <2>1, <2>2
<1> QED
  BY <1>1, <1>2, <1>3 DEF DocumentsInv

-----------------------------------------------------------------------------
(* Snapshot jobs.                                                          *)

\* The jobs of a note it has: adding some changes nothing.
LEMMA JobForMonotonic ==
  ASSUME NEW J, NEW K, J \subseteq K, NEW H, NEW n, NEW v, JobFor(J, H, n, v)
  PROVE  JobFor(K, H, n, v)
  BY DEF JobFor

\* Transaction t, if the rows it has locked, and their history, stay.
LEMMA ScheduledStays ==
  ASSUME NEW R, NEW S, NEW C, NEW E, NEW J, NEW K, NEW t, NEW n, TxScheduled(R, C, J, t, n), J \subseteq K,
         S[n] = R[n], {x \in E : x.note = n} = {x \in C : x.note = n}
  PROVE  TxScheduled(S, E, K, t, n)
<1>1. NoteHistory(E, t, n) = NoteHistory(C, t, n)
  BY DEF NoteHistory
<1>2. NoteView(S, t, n) = NoteView(R, t, n)
  BY DEF NoteView
<1>3. J \cup t.jobs \subseteq K \cup t.jobs
  OBVIOUS
<1> DEFINE H == NoteHistory(C, t, n)
           v == Version(NoteView(R, t, n))
           A == J \cup t.jobs
           B == K \cup t.jobs
<1>4. JobFor(A, H, n, v) /\ A \subseteq B
  BY <1>3 DEF TxScheduled
<1> HIDE DEF H, v, A, B
<1>5. JobFor(B, H, n, v)
  BY <1>4, JobForMonotonic
<1> QED
  BY <1>1, <1>2, <1>5 DEF TxScheduled, H, v, B

\* The same transaction with more locks and jobs.
LEMMA ScheduledSame ==
  ASSUME NEW R, NEW C, NEW J, NEW t, NEW u, NEW n, TxScheduled(R, C, J, t, n), t.jobs \subseteq u.jobs,
         u.ws[n] = t.ws[n], {x \in u.pend : x.note = n} = {x \in t.pend : x.note = n}
  PROVE  TxScheduled(R, C, J, u, n)
<1>1. NoteHistory(C, u, n) = NoteHistory(C, t, n)
  BY DEF NoteHistory
<1>2. NoteView(R, u, n) = NoteView(R, t, n)
  BY DEF NoteView
<1> DEFINE H == NoteHistory(C, t, n)
           v == Version(NoteView(R, t, n))
           A == J \cup t.jobs
           B == J \cup u.jobs
<1>4. JobFor(A, H, n, v) /\ A \subseteq B
  BY DEF TxScheduled
<1> HIDE DEF H, v, A, B
<1>5. JobFor(B, H, n, v)
  BY <1>4, JobForMonotonic
<1> QED
  BY <1>1, <1>2, <1>5 DEF TxScheduled, H, v, B

\* A note the transaction has not touched is scheduled because the committed one is.
LEMMA ScheduledCommitted ==
  ASSUME NEW R, NEW C, NEW J, NEW t, NEW n, t.ws[n] = Absent, ~Touches(t, n),
         JobFor(J, {x \in C : x.note = n}, n, Version(R[n]))
  PROVE  TxScheduled(R, C, J, t, n)
<1>1. NoteHistory(C, t, n) = {x \in C : x.note = n}
  BY DEF NoteHistory, Touches
<1>2. NoteView(R, t, n) = R[n]
  BY DEF NoteView
<1> DEFINE H == {x \in C : x.note = n}
           v == Version(R[n])
           B == J \cup t.jobs
<1>3. J \subseteq B /\ JobFor(J, H, n, v)
  OBVIOUS
<1> HIDE DEF H, v, B
<1>4. JobFor(B, H, n, v)
  BY <1>3, JobForMonotonic
<1> QED
  BY <1>1, <1>2, <1>4 DEF TxScheduled, H, v, B

\* Every note the handler is not in the middle of is scheduled, locked or not.
LEMMA ViewScheduled ==
  ASSUME TypeInv, ChainInv, JobsInv, NEW p \in Handlers, NEW n \in Notes, Extra(pc[p], batch[p], n) = 0
  PROVE  TxScheduled(rows, changes, outbox, tx[p], n)
<1>1. CASE n \in tx[p].held
  BY <1>1 DEF JobsInv, JobsOK
<1>2. CASE n \notin tx[p].held
  <2>1. TxLocks(tx[p])
    BY DEF ChainInv, HandlerChain
  <2>2. tx[p].ws[n] = Absent /\ ~Touches(tx[p], n)
    BY <1>2, <2>1 DEF TxLocks, Touches
  <2>3. JobFor(outbox, {x \in changes : x.note = n}, n, Version(rows[n]))
    BY DEF JobsInv
  <2> QED
    BY <2>2, <2>3, ScheduledCommitted
<1> QED
  BY <1>1, <1>2

\* Handler p, after the step.
JobsDone(p) == JobsOK(rows', changes', outbox', tx'[p], save'[p], pc'[p], batch'[p])

LEMMA JobsOpens ==
  ASSUME NEW p, NEW ops, OpensBatch(p, ops), Silent,
         \A n \in Notes : TxScheduled(rows, changes, outbox, tx'[p], n)
  PROVE  JobsDone(p)
<1>1. save'[p] = tx'[p] /\ rows' = rows /\ changes' = changes /\ outbox' = outbox
  BY DEF OpensBatch, Silent
<1> QED
  BY <1>1 DEF JobsDone, JobsOK

\* A step that only takes locks.
LEMMA JobsLocks ==
  ASSUME TypeInv, ChainInv, JobsInv, NEW p \in Handlers, NEW n \in Notes, Extra(pc[p], batch[p], n) = 0,
         tx'[p].ws[n] = tx[p].ws[n], tx'[p].pend = tx[p].pend, tx[p].jobs \subseteq tx'[p].jobs
  PROVE  TxScheduled(rows, changes, outbox, tx'[p], n)
<1> DEFINE t == tx[p]
           u == tx'[p]
           R == rows
           C == changes
           J == outbox
<1>1. /\ TxScheduled(R, C, J, t, n) /\ t.jobs \subseteq u.jobs /\ u.ws[n] = t.ws[n]
      /\ {x \in u.pend : x.note = n} = {x \in t.pend : x.note = n}
  BY ViewScheduled
<1> HIDE DEF t, u, R, C, J
<1>2. TxScheduled(R, C, J, u, n)
  BY <1>1, ScheduledSame
<1> QED
  BY <1>2 DEF u, R, C, J

LEMMA JobsWithinBatch ==
  ASSUME TypeInv, ChainInv, DevicesInv, BatchesInv, JobsInv, NEW p \in Handlers, OperationShape(p)
  PROVE  JobsDone(p)
<1>1. /\ Silent /\ save'[p] = save[p] /\ rows' = rows /\ changes' = changes /\ outbox' = outbox
      /\ pc[p] \in InBatch
  BY DEF OperationShape, RetryShape, QuietShape, AcceptShape, RejectShape, SameBatch, Silent, InBatch, Prepared
<1>2. \A n \in Notes : n \in save[p].held => TxScheduled(rows, changes, outbox, save[p], n)
  BY <1>1 DEF JobsInv, JobsOK
<1>3. CASE RejectShape(p)
  <2>1. pc'[p] = "rejected" /\ tx'[p] = save[p]
    BY <1>3 DEF RejectShape
  <2> QED
    BY <1>1, <1>2, <2>1 DEF JobsDone, JobsOK, InBatch
<1>4. CASE RetryShape(p) \/ QuietShape(p)
  <2>1. /\ tx'[p].ws = tx[p].ws /\ tx'[p].pend = tx[p].pend /\ tx'[p].jobs = tx[p].jobs
        /\ batch'[p].id = batch[p].id /\ batch'[p].changed = batch[p].changed
    BY <1>4 DEF RetryShape, QuietShape, OnlyLocks, SameBatch
  <2>2. pc'[p] \in InBatch
    BY <1>4 DEF RetryShape, QuietShape, Advances, InBatch
  <2>3. \A n \in Notes : Extra(pc'[p], batch'[p], n) = Extra(pc[p], batch[p], n)
    BY <1>1, <2>1, <2>2 DEF Extra
  <2>4. ASSUME NEW n \in Notes, Extra(pc'[p], batch'[p], n) = 0
        PROVE  TxScheduled(rows, changes, outbox, tx'[p], n)
    BY <2>1, <2>3, <2>4, JobsLocks
  <2> QED
    BY <1>1, <1>2, <2>4 DEF JobsDone, JobsOK
<1>5. CASE AcceptShape(p)
  <2>1. PICK x \in Change :
           /\ Advances(p) /\ tx'[p].pend = tx[p].pend \cup {x} /\ tx'[p].jobs = tx[p].jobs
           /\ x.note = batch[p].id /\ batch'[p].id = batch[p].id /\ batch'[p].changed
           /\ \A n \in Notes : n # batch[p].id => tx'[p].ws[n] = tx[p].ws[n]
    BY <1>5, AcceptedChange
  <2>2. pc'[p] \in InBatch
    BY <2>1 DEF Advances, InBatch
  <2>3. ASSUME NEW n \in Notes, Extra(pc'[p], batch'[p], n) = 0
        PROVE  TxScheduled(rows, changes, outbox, tx'[p], n)
    <3>1. n # batch[p].id
      BY <2>1, <2>2, <2>3 DEF Extra
    <3>2. Extra(pc[p], batch[p], n) = 0
      BY <3>1 DEF Extra
    <3> DEFINE t == tx[p]
               u == tx'[p]
               R == rows
               C == changes
               J == outbox
    <3>3. /\ TxScheduled(R, C, J, t, n) /\ t.jobs \subseteq u.jobs /\ u.ws[n] = t.ws[n]
          /\ {y \in u.pend : y.note = n} = {y \in t.pend : y.note = n}
      BY <2>1, <3>1, <3>2, ViewScheduled
    <3> HIDE DEF t, u, R, C, J
    <3>4. TxScheduled(R, C, J, u, n)
      BY <3>3, ScheduledSame
    <3> QED
      BY <3>4 DEF u, R, C, J
  <2> QED
    BY <1>1, <1>2, <2>3 DEF JobsDone, JobsOK
<1> QED
  BY <1>3, <1>4, <1>5 DEF OperationShape

\* A batch that brings its note to a threshold leaves a job for the new version.
LEMMA JobsFlush ==
  ASSUME TypeInv, ChainInv, DevicesInv, BatchesInv, JobsInv, NEW p \in Handlers, FlushShape(p)
  PROVE  JobsDone(p)
<1> DEFINE t == tx[p]
           u == tx'[p]
           b == batch[p]
<1>1. /\ pc[p] = "flush" /\ OpensBatch(p, todo[p]) /\ Silent /\ u.pend = t.pend /\ t.jobs \subseteq u.jobs
      /\ \A n \in Notes : n # b.id => u.ws[n] = t.ws[n]
      /\ b.id \in Notes => IF b.changed /\ b.note # Absent
                           THEN OwnedBy(u.ws[b.id], b.note.owner) /\ u.ws[b.id].version = b.note.version + 1
                           ELSE u.ws[b.id] = t.ws[b.id]
      /\ b.changed /\ b.note # Absent /\ SnapshotDue(p, b.id) =>
           \E j \in u.jobs : j.note = b.id /\ j.version = b.note.version + 1
  BY DEF FlushShape
<1>2. pc[p] \in InBatch
  BY <1>1 DEF InBatch
<1>3. b.changed /\ b.id \in Notes => b.note # Absent
  BY <1>2 DEF ChainInv, HandlerChain
<1>4. ASSUME NEW n \in Notes, n # b.id \/ ~b.changed PROVE TxScheduled(rows, changes, outbox, u, n)
  <2>1. Extra(pc[p], b, n) = 0
    BY <1>4 DEF Extra
  <2>2. u.ws[n] = t.ws[n]
    BY <1>1, <1>4
  <2> QED
    BY <1>1, <2>1, <2>2, JobsLocks
<1>5. ASSUME b.id \in Notes, b.changed PROVE TxScheduled(rows, changes, outbox, u, b.id)
  <2> DEFINE n == b.id
             H == NoteHistory(changes, u, n)
             due == {x \in H : x.result > LastSnapshotVersion(n)}
             v == Version(NoteView(rows, u, n))
  <2>1. v = b.note.version + 1
    BY <1>1, <1>3, <1>5 DEF NoteView, Version, OwnedBy
  <2>2. due = UnsnapshottedChanges(p, n)
    BY <1>1 DEF NoteHistory, UnsnapshottedChanges, VisibleChanges
  <2>3. SnapshotChangeThreshold > 0 /\ Cardinality(due) >= SnapshotChangeThreshold => SnapshotDue(p, n)
    BY <2>2 DEF SnapshotDue
  <2>4. SnapshotChangeThreshold > 0 /\ Cardinality(due) >= SnapshotChangeThreshold
          => \E j \in outbox \cup u.jobs : j.note = n /\ j.version = v
    BY <1>1, <1>3, <1>5, <2>1, <2>3
  <2> QED
    BY <2>4 DEF TxScheduled, JobFor
<1>6. \A n \in Notes : TxScheduled(rows, changes, outbox, u, n)
  BY <1>4, <1>5
<1> QED
  BY <1>1, <1>6, JobsOpens

LEMMA JobsBetween ==
  ASSUME TypeInv, ChainInv, DevicesInv, BatchesInv, JobsInv, NEW p \in Handlers,
         RejectBatchShape(p) \/ LockShape(p) \/ PageShape(p)
  PROVE  JobsDone(p)
<1>1. pc[p] \in {"rejected", "lock", "page"} /\ Silent
  BY DEF RejectBatchShape, LockShape, PageShape
<1>2. \A n \in Notes : Extra(pc[p], batch[p], n) = 0
  BY <1>1 DEF Extra, InBatch
<1>3. /\ tx'[p].pend = tx[p].pend /\ tx'[p].jobs = tx[p].jobs
      /\ \A n \in Notes : tx'[p].ws[n] = tx[p].ws[n]
  <2>1. tx[p] \in TxState /\ (pc[p] # "idle" => req[p].device \in Devices)
    BY DeviceHandler DEF Request
  <2>2. CASE RejectBatchShape(p)
    BY <2>2 DEF RejectBatchShape, OnlyLocks
  <2>3. CASE LockShape(p)
    BY <2>1, <2>3 DEF LockShape, Lock, TxState
  <2>4. CASE PageShape(p)
    <3>1. \E v : tx'[p] = Write(tx[p], req[p].device, v)
      BY <2>4 DEF PageShape
    <3> QED
      BY <1>1, <2>1, <3>1, KeysAssumption DEF Write, TxState, Keys
  <2> QED
    BY <2>2, <2>3, <2>4
<1>4. ASSUME NEW n \in Notes PROVE TxScheduled(rows, changes, outbox, tx'[p], n)
  BY <1>2, <1>3, JobsLocks
<1>5. CASE pc'[p] \notin InBatch
  BY <1>1, <1>4, <1>5 DEF JobsDone, JobsOK, Silent
<1>6. CASE \E ops : OpensBatch(p, ops)
  BY <1>1, <1>4, <1>6, JobsOpens
<1> QED
  BY <1>5, <1>6 DEF RejectBatchShape, LockShape, PageShape, InBatch

LEMMA JobsEnd ==
  ASSUME TypeInv, ChainInv, DevicesInv, BatchesInv, JobsInv, NEW p \in Handlers,
         FailShape(p) \/ ReceiveShape(p) \/ PublishShape(p) \/ RespondShape(p) \/ UnknownShape(p)
         \/ CommitShape(p)
  PROVE  JobsDone(p)
<1>1. tx'[p] = EmptyTx
  BY DeviceHandler DEF FailShape, ReceiveShape, PublishShape, RespondShape, UnknownShape, CommitShape, DeviceOK, Working
<1>2. pc'[p] \notin InBatch
  BY DEF FailShape, ReceiveShape, PublishShape, RespondShape, UnknownShape, CommitShape, InBatch
<1> QED
  BY <1>1, <1>2, EmptyTxFacts DEF JobsDone, JobsOK

LEMMA JobsOwn ==
  ASSUME TypeInv, ChainInv, DevicesInv, BatchesInv, JobsInv, NEW p \in Handlers, BatchShape(p) \/ RequestShape(p)
  PROVE  JobsDone(p)
  BY JobsWithinBatch, JobsFlush, JobsBetween, JobsEnd DEF BatchShape, RequestShape

LEMMA JobsStep ==
  ASSUME TypeInv, ChainInv, DevicesInv, BatchesInv, JobsInv, StepShape
  PROVE  JobsInv'
<1> DEFINE Done == /\ \A n \in Notes : JobFor(outbox', {x \in changes' : x.note = n}, n, Version(rows'[n]))
                   /\ \A q \in Handlers : JobsDone(q)
<1>1. snapshots' = snapshots
  <2>1. ASSUME NEW p \in Handlers, BatchShape(p) \/ RequestShape(p) PROVE snapshots' = snapshots
    <3>1. CASE CommitShape(p)
      BY <3>1 DEF CommitShape
    <3> QED
      BY <2>1, <3>1, OthersCommitNothing
  <2> QED
    BY <2>1 DEF StepShape, DeviceShape, Still
<1>2. Done => JobsInv'
  <2>1. \A n : LastSnapshotVersion(n)' = LastSnapshotVersion(n)
    BY <1>1 DEF LastSnapshotVersion
  <2> QED
    BY <2>1 DEF JobsInv, JobsDone, JobsOK, TxScheduled, JobFor
<1>3. ASSUME NEW q \in Handlers, NEW R, NEW E, NEW K, outbox \subseteq K,
             \A n \in Notes : n \in tx[q].held =>
               R[n] = rows[n] /\ {x \in E : x.note = n} = {x \in changes : x.note = n}
      PROVE  JobsOK(R, E, K, tx[q], save[q], pc[q], batch[q])
  <2>1. JobsOK(rows, changes, outbox, tx[q], save[q], pc[q], batch[q])
    BY DEF JobsInv
  <2>2. ASSUME NEW t, NEW n \in Notes, n \in tx[q].held, TxScheduled(rows, changes, outbox, t, n)
        PROVE  TxScheduled(R, E, K, t, n)
    <3> DEFINE S == rows
               C == changes
               J == outbox
    <3>1. TxScheduled(S, C, J, t, n) /\ J \subseteq K /\ R[n] = S[n]
          /\ {x \in E : x.note = n} = {x \in C : x.note = n}
      BY <1>3, <2>2
    <3> HIDE DEF S, C, J
    <3> QED
      BY <3>1, ScheduledStays
  <2>3. pc[q] \in InBatch => \A n \in Notes : n \in save[q].held => n \in tx[q].held
    BY DEF ChainInv, HandlerChain
  <2> QED
    BY <2>1, <2>2, <2>3 DEF JobsOK
<1>4. ASSUME NEW p \in Handlers, Alone(p), BatchShape(p) \/ RequestShape(p) PROVE Done
  <2>1. JobsDone(p)
    BY <1>4, JobsOwn
  <2>2. outbox \subseteq outbox'
    <3>1. CASE CommitShape(p)
      BY <3>1 DEF CommitShape
    <3> QED
      BY <1>4, <3>1, OthersCommitNothing
  <2>3. ASSUME NEW q \in Handlers \ {p}, NEW n \in Notes, n \in tx[q].held
        PROVE  {x \in changes' : x.note = n} = {x \in changes : x.note = n}
    <3>1. CASE CommitShape(p)
      <4>1. n \notin tx[p].held
        BY <2>3 DEF ChainInv, Exclusive
      <4>2. \A x \in tx[p].pend : x.note # n
        BY <4>1, BatchHandler DEF TxLocks
      <4>3. changes' = changes \cup tx[p].pend
        BY <3>1 DEF CommitShape
      <4> QED
        BY <4>2, <4>3
    <3> QED
      BY <1>4, <3>1, OthersCommitNothing
  <2>4. ASSUME NEW q \in Handlers \ {p} PROVE JobsDone(q)
    <3>1. \A n \in Notes : n \in tx[q].held =>
            rows'[n] = rows[n] /\ {x \in changes' : x.note = n} = {x \in changes : x.note = n}
      BY <1>4, <2>3, HeldNotesStay
    <3>2. JobsOK(rows', changes', outbox', tx[q], save[q], pc[q], batch[q])
      BY <1>3, <2>2, <3>1
    <3> QED
      BY <1>4, <3>2 DEF Alone, JobsDone
  <2>5. ASSUME NEW n \in Notes PROVE JobFor(outbox', {x \in changes' : x.note = n}, n, Version(rows'[n]))
    <3>1. CASE CommitShape(p)
      <4>1. Extra(pc[p], batch[p], n) = 0
        BY <3>1 DEF CommitShape, Extra, InBatch
      <4>2. TxScheduled(rows, changes, outbox, tx[p], n)
        BY <4>1, ViewScheduled
      <4>3. outbox' = outbox \cup tx[p].jobs /\ rows'[n] = NoteView(rows, tx[p], n)
        BY <3>1, CommitNotes
      <4>4. {x \in changes' : x.note = n} = NoteHistory(changes, tx[p], n)
        BY <3>1 DEF CommitShape, NoteHistory
      <4> QED
        BY <4>2, <4>3, <4>4 DEF TxScheduled
    <3>2. CASE ~CommitShape(p)
      BY <1>4, <3>2, OthersCommitNothing DEF JobsInv
    <3> QED
      BY <3>1, <3>2
  <2> QED
    BY <2>1, <2>4, <2>5
<1>5. ASSUME NEW d \in Devices, DeviceShape(d) PROVE Done
  <2>1. \A n \in Notes : rows'[n] = rows[n]
    BY <1>5, DeviceRowsOnly
  <2>2. UNCHANGED <<changes, outbox, tx, save, pc, batch>>
    BY <1>5 DEF DeviceShape
  <2>3. ASSUME NEW q \in Handlers PROVE JobsDone(q)
    <3>1. JobsOK(rows', changes, outbox, tx[q], save[q], pc[q], batch[q])
      BY <1>3, <2>1
    <3> QED
      BY <2>2, <3>1 DEF JobsDone
  <2>4. \A n \in Notes : JobFor(outbox', {x \in changes' : x.note = n}, n, Version(rows'[n]))
    BY <2>1, <2>2 DEF JobsInv
  <2> QED
    BY <2>3, <2>4
<1>6. ASSUME Still PROVE Done
  <2>1. UNCHANGED <<rows, changes, outbox, tx, save, pc, batch>>
    BY <1>6 DEF Still
  <2> QED
    BY <2>1 DEF JobsInv, JobsDone
<1> QED
  BY <1>2, <1>4, <1>5, <1>6 DEF StepShape

-----------------------------------------------------------------------------
(* The invariants together, and what they show.                            *)

LogInv == BatchesInv /\ DocumentsInv /\ JobsInv

LEMMA InitLog == Init => LogInv
<1>1. SUFFICES ASSUME Init PROVE LogInv
  OBVIOUS
<1>2. /\ changes = {} /\ seq = 0 /\ outbox = {} /\ snapshots = {}
      /\ \A p \in Handlers : tx[p] = EmptyTx /\ save[p] = EmptyTx /\ pc[p] = "idle" /\ reply[p] = NoReply
  BY <1>1 DEF Init
<1>3. BatchesInv
  BY <1>2, EmptyTxFacts DEF BatchesInv, BatchesOK, BatchOK, Ended, PushWork, InBatch, ResultsOK
<1>4. DocumentsInv
  BY <1>2 DEF DocumentsInv, NoReply
<1>5. ASSUME NEW n \in Notes PROVE JobFor(outbox, {x \in changes : x.note = n}, n, Version(rows[n]))
  <2> DEFINE due == {y \in {x \in changes : x.note = n} : y.result > LastSnapshotVersion(n)}
  <2>1. due = {}
    BY <1>2
  <2>2. Cardinality(due) = 0
    BY <2>1, FS_EmptySet
  <2>3. ~(SnapshotChangeThreshold > 0 /\ Cardinality(due) >= SnapshotChangeThreshold)
    BY <2>2, ThresholdAssumption
  <2> QED
    BY <2>3 DEF JobFor
<1>6. \A p \in Handlers : JobsOK(rows, changes, outbox, tx[p], save[p], pc[p], batch[p])
  BY <1>2, EmptyTxFacts DEF JobsOK, InBatch
<1> QED
  BY <1>3, <1>4, <1>5, <1>6 DEF LogInv, JobsInv

LEMMA NextLog ==
  ASSUME TypeInv, ChainInv, SyncInv, LogInv, [Next]_vars, TypeInv'
  PROVE  LogInv'
<1>1. StepShape /\ DevicesInv
  BY SyncShape DEF SyncInv
<1>2. BatchesInv'
  BY <1>1, BatchesStep DEF LogInv
<1>3. DocumentsInv'
  BY <1>1, DocumentsStep DEF LogInv
<1>4. JobsInv'
  BY <1>1, JobsStep DEF LogInv
<1> QED
  BY <1>2, <1>3, <1>4 DEF LogInv

LEMMA LogIsInvariant == Spec => [](TypeInv /\ ChainInv /\ SyncInv /\ LogInv)
<1>1. Init => LogInv
  BY InitLog
<1>2. TypeInv /\ ChainInv /\ SyncInv /\ LogInv /\ [Next]_vars /\ (TypeInv /\ ChainInv /\ SyncInv)'
        => LogInv'
  BY NextLog
<1> QED
  BY <1>1, <1>2, SyncIsInvariant, PTL DEF Spec

\* A note batch is accepted or rejected as a whole: runBatch's savepoint takes back
\* the operations of a batch that is refused, and of no other.  A request that failed
\* has committed nothing, unless the answer it lost was that of COMMIT: then it has
\* committed all that it accepted, and nothing of what it rejected.
THEOREM BatchAtomicityCorrect == Spec => []BatchAtomicity
<1>1. ASSUME TypeInv, ChainInv, SyncInv, LogInv PROVE BatchAtomicity
  <2>1. ASSUME NEW p \in Handlers, Committed(p), NEW a \in reply[p].accepted,
               NEW i \in 1 .. Len(req[p].ops), req[p].ops[i].note = a.note
        PROVE  \E c \in changes : c.device = req[p].device /\ c.op.id = req[p].ops[i].id
    <3>1. AllRecorded(changes, req[p], a.note)
      BY <1>1, <2>1, BatchHandler DEF SyncInv, LogInv, BatchOK, Ended, Committed
    <3>2. req[p].ops[i] \in Elements(req[p].ops)
      BY <2>1 DEF Elements
    <3> QED
      BY <2>1, <3>1, <3>2 DEF AllRecorded, Recorded
  <2>2. ASSUME NEW p \in Handlers, Committed(p), NEW r \in reply[p].rejected,
               NEW c \in changes, c.by = p
        PROVE  c.note # r.note
    <3>1. NotesAvoided({x \in changes : x.by = p}, reply[p])
      BY <1>1, <2>2, BatchHandler DEF SyncInv, LogInv, BatchOK, Ended, Committed
    <3> QED
      BY <2>2, <3>1 DEF NotesAvoided
  <2>3. ASSUME NEW p \in Handlers, pc[p] = "failed", ~Committed(p) PROVE \A c \in changes : c.by # p
    BY <1>1, <2>3, BatchHandler DEF SyncInv, LogInv, BatchOK, Ended, Committed
  <2> QED
    BY <2>1, <2>2, <2>3 DEF BatchAtomicity
<1> QED
  BY <1>1, LogIsInvariant, PTL

\* The document returned with a rejection is at least as new as the version that
\* conflicted, although rolling back to the savepoint unlocked the note, and its
\* cursor covers exactly the changes it contains, now and later.
THEOREM RejectionSnapshotFreshCorrect == Spec => []RejectionSnapshotFresh
<1>1. LogInv => RejectionSnapshotFresh
  BY DEF LogInv, DocumentsInv, DocumentOK, Logs, RejectionSnapshotFresh
<1> QED
  BY <1>1, LogIsInvariant, PTL

\* enqueueSnapshotIfNeeded, in the transaction of the batch, leaves no note with a
\* due history without a job for its current version.
THEOREM SnapshotScheduledCorrect == Spec => []SnapshotScheduled
<1>1. ASSUME TypeInv, ChainInv, SyncInv, LogInv PROVE SnapshotScheduled
  <2> SUFFICES ASSUME NEW n \in Notes, SnapshotChangeThreshold > 0,
                      Cardinality({c \in changes : c.note = n /\ c.result > LastSnapshotVersion(n)})
                        >= SnapshotChangeThreshold
               PROVE  \E j \in outbox : j.note = n /\ j.version = rows[n].version
    BY DEF SnapshotScheduled
  <2> DEFINE D == {c \in changes : c.note = n /\ c.result > LastSnapshotVersion(n)}
             E == {y \in {x \in changes : x.note = n} : y.result > LastSnapshotVersion(n)}
  <2>1. D = E
    OBVIOUS
  <2>2. PICK j \in outbox : j.note = n /\ j.version = Version(rows[n])
    BY <1>1, <2>1 DEF LogInv, JobsInv, JobFor
  <2>3. D # {}
    <3>1. ASSUME D = {} PROVE FALSE
      <4>1. Cardinality(D) = 0
        BY <3>1, FS_EmptySet
      <4> HIDE DEF D
      <4>2. Cardinality(D) >= SnapshotChangeThreshold
        BY DEF D
      <4> QED
        BY <4>1, <4>2, ThresholdAssumption
    <3> QED
      BY <3>1
  <2>4. PICK c \in changes : c.note = n
    BY <2>3
  <2>5. rows[n] # Absent
    <3>1. c.result \in 1 .. Version(rows[n])
      BY <1>1, <2>4 DEF ChainInv, CommittedChain, GoodLog
    <3> QED
      BY <3>1 DEF Version
  <2> QED
    BY <2>2, <2>5 DEF Version
<1> QED
  BY <1>1, LogIsInvariant, PTL

-----------------------------------------------------------------------------
(* The refinement of NoteLog.                                              *)

Entry(c) == [note |-> c.note, version |-> c.result, device |-> c.device, id |-> c.op.id]

LEMMA EntryFacts ==
  /\ \A c : /\ Entry(c).note = c.note /\ Entry(c).version = c.result
            /\ Entry(c).device = c.device /\ Entry(c).id = c.op.id
  /\ NoteEntries = {Entry(c) : c \in {d \in changes : d.note \in Notes}}
  BY DEF Entry, NoteEntries

LEMMA NoteVersionIs == NoteVersion = [n \in Notes |-> Version(rows[n])]
  BY DEF NoteVersion, Version

\* A commit appends the batches of the notes it has logged operations of.
LEMMA CommitAppends ==
  ASSUME TypeInv, ChainInv, DevicesInv, IdsInv, BatchesInv, NEW p \in Handlers, CommitShape(p)
  PROVE  Log!Next
<1> DEFINE S == {n \in Notes : Touches(tx[p], n)}
           new == NoteEntries' \ NoteEntries
           P == tx[p].pend
<1>1. /\ changes' = changes \cup P /\ P \subseteq Logs /\ changes \subseteq Logs
      /\ \A x \in P : /\ x.by = p /\ x.device = req[p].device
                      /\ x.note \in Notes => x.result = Version(rows[x.note]) + 1
  BY CommitNotes DEF Logs
<1>2. \A n \in Notes :
        Version(rows'[n]) = IF Touches(tx[p], n) THEN Version(rows[n]) + 1 ELSE Version(rows[n])
  BY CommitNotes
<1>3. \A c \in changes : c.by # p
  BY BatchHandler DEF BatchOK, Ended, CommitShape
<1>4. ASSUME NEW x \in P, NEW c \in changes PROVE x.device # c.device \/ x.op.id # c.op.id
  <2>1. x # c
    BY <1>1, <1>3
  <2>2. x \in Logs /\ c \in Logs
    BY <1>1
  <2> QED
    BY <2>1, <2>2 DEF IdsInv, DistinctLogs
<1>5. /\ NoteEntries = {Entry(c) : c \in {d \in changes : d.note \in Notes}}
      /\ NoteEntries' = {Entry(c) : c \in {d \in changes' : d.note \in Notes}}
  <2>1. NoteEntries = {Entry(c) : c \in {d \in changes : d.note \in Notes}}
    BY EntryFacts
  <2>2. NoteEntries' = {Entry(c) : c \in {d \in changes' : d.note \in Notes}}
    BY DEF NoteEntries, Entry
  <2> QED
    BY <2>1, <2>2
<1>6. ASSUME NEW e \in new
      PROVE  \E x \in P : x.note \in Notes /\ e = Entry(x)
  <2>1. PICK x \in changes' : x.note \in Notes /\ e = Entry(x)
    BY <1>5, <1>6
  <2>2. x \notin changes
    BY <1>5, <1>6, <2>1
  <2> QED
    BY <1>1, <2>1, <2>2
<1>7. ASSUME NEW x \in P, x.note \in Notes PROVE Entry(x) \in new
  <2>1. Entry(x) \in NoteEntries'
    BY <1>1, <1>5, <1>7
  <2>2. ASSUME NEW c \in changes, Entry(x) = Entry(c) PROVE FALSE
    BY <1>4, <2>2, EntryFacts
  <2>3. Entry(x) \notin NoteEntries
    BY <1>5, <2>2
  <2> QED
    BY <2>1, <2>3
<1>8. NoteVersion = [n \in Notes |-> Version(rows[n])] /\ NoteVersion' = [n \in Notes |-> Version(rows'[n])]
  <2>1. NoteVersion' = [n \in Notes |-> Version(rows'[n])]
    BY DEF NoteVersion, Version
  <2> QED
    BY <2>1, NoteVersionIs
<1>9. NoteVersion' = [n \in Notes |-> IF n \in S THEN NoteVersion[n] + 1 ELSE NoteVersion[n]]
  BY <1>2, <1>8
<1>10. NoteEntries \subseteq NoteEntries'
  BY <1>1, <1>5
<1> HIDE DEF new
<1>11. \A n \in S : \E e \in new : e.note = n
  BY <1>7, EntryFacts DEF Touches
<1>12. ASSUME NEW e \in new PROVE e.note \in S /\ e.version = NoteVersion[e.note] + 1 /\ e.device = req[p].device
  <2>1. PICK x \in P : x.note \in Notes /\ e = Entry(x)
    BY <1>6, <1>12
  <2>2. e.note = x.note /\ e.version = x.result /\ e.device = x.device
    BY <2>1, EntryFacts
  <2>3. x.note \in S
    BY <2>1 DEF Touches
  <2> QED
    BY <1>1, <1>8, <2>1, <2>2, <2>3
<1>13. ASSUME NEW e \in new, NEW f \in NoteEntries PROVE e.device # f.device \/ e.id # f.id
  <2>1. PICK x \in P : e = Entry(x)
    BY <1>6, <1>13
  <2>2. PICK c \in changes : f = Entry(c)
    BY <1>5, <1>13
  <2> QED
    BY <1>4, <2>1, <2>2, EntryFacts
<1>14. Log!Append(S)
  <2>1. \A e, f \in new : e.device = f.device
    BY <1>12
  <2> HIDE DEF S
  <2> QED
    BY <1>9, <1>10, <1>11, <1>12, <1>13, <2>1 DEF Log!Append, new
<1>15. S \in SUBSET Notes
  OBVIOUS
<1> QED
  BY <1>14, <1>15 DEF Log!Next

\* Every other step leaves the abstract log as it is.
LEMMA StepRefines ==
  ASSUME TypeInv, ChainInv, DevicesInv, IdsInv, BatchesInv, StepShape
  PROVE  Log!Next \/ UNCHANGED <<NoteVersion, NoteEntries>>
<1>1. ASSUME changes' = changes, \A n \in Notes : rows'[n] = rows[n] PROVE UNCHANGED <<NoteVersion, NoteEntries>>
  <2>1. NoteVersion' = [n \in Notes |-> Version(rows'[n])]
    BY DEF NoteVersion, Version
  <2>2. NoteVersion' = NoteVersion
    BY <1>1, <2>1, NoteVersionIs
  <2>3. NoteEntries' = NoteEntries
    BY <1>1 DEF NoteEntries
  <2> QED
    BY <2>2, <2>3
<1>2. ASSUME NEW p \in Handlers, BatchShape(p) \/ RequestShape(p)
      PROVE  Log!Next \/ UNCHANGED <<NoteVersion, NoteEntries>>
  <2>1. CASE CommitShape(p)
    BY <2>1, CommitAppends
  <2>2. CASE ~CommitShape(p)
    BY <1>1, <1>2, <2>2, OthersCommitNothing
  <2> QED
    BY <2>1, <2>2
<1>3. ASSUME NEW d \in Devices, DeviceShape(d) PROVE UNCHANGED <<NoteVersion, NoteEntries>>
  <2>1. changes' = changes
    BY <1>3 DEF DeviceShape
  <2> QED
    BY <1>1, <1>3, <2>1, DeviceRowsOnly
<1>4. ASSUME Still PROVE UNCHANGED <<NoteVersion, NoteEntries>>
  BY <1>1, <1>4 DEF Still
<1> QED
  BY <1>2, <1>3, <1>4 DEF StepShape

LEMMA InitRefines == Init => Log!Init
<1>1. SUFFICES ASSUME Init PROVE Log!Init
  OBVIOUS
<1>2. changes = {} /\ \A n \in Notes : rows[n] = Absent
  BY <1>1, OwnerAssumption, KeysAssumption DEF Init, Keys
<1>3. NoteVersion = [n \in Notes |-> 0]
  BY <1>2 DEF NoteVersion
<1>4. NoteEntries = {}
  BY <1>2 DEF NoteEntries
<1> QED
  BY <1>3, <1>4 DEF Log!Init

\* Push sync implements NoteLog: a commit of a handler is one device appending a
\* batch to some notes, each of which gets its next version, and no operation twice;
\* every other step is invisible there.
THEOREM ImplementsNoteLogCorrect == Spec => ImplementsNoteLog
<1>1. TypeInv /\ ChainInv /\ SyncInv /\ LogInv /\ [Next]_vars => [Log!Next]_<<NoteVersion, NoteEntries>>
  BY SyncShape, StepRefines DEF SyncInv, LogInv
<1> QED
  BY <1>1, InitRefines, LogIsInvariant, PTL DEF Spec, ImplementsNoteLog, Log!Spec
=============================================================================
