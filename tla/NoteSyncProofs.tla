---------------------------- MODULE NoteSyncProofs ----------------------------
(***************************************************************************)
(* Proofs about NoteSync, for every value of its constants: types first,   *)
(* then the version chain of a note (VersionChain, NoLostUpdate and        *)
(* SequenceFollowsVersion).                                                *)
(*                                                                         *)
(* The argument for the chain: a note is locked by at most one transaction;*)
(* a transaction writes and logs only notes it has locked; so while it     *)
(* holds a note, the committed row and log of that note stand still, and   *)
(* what it adds on top of them is its own.                                 *)
(***************************************************************************)
EXTENDS NoteSync, TLAPS, FiniteSetTheorems, SequenceTheorems, WellFoundedInduction

-----------------------------------------------------------------------------
(* Lemmas about the operators the model is built from. *)

\* A nonempty set of numbers below a bound has a maximum, and Max finds it.
LEMMA MaxOfBounded ==
  ASSUME NEW S, S \subseteq Nat, S # {}, NEW N \in Nat, \A s \in S : s <= N
  PROVE  Max(S) \in S /\ \A s \in S : s <= Max(S)
<1> DEFINE T == {k \in Nat : \E s \in S : k = N - s}
<1>1. T \subseteq Nat /\ T # {}
  <2>1. PICK s \in S : TRUE
    OBVIOUS
  <2>2. N - s \in T
    OBVIOUS
  <2> QED
    BY <2>2
<1>2. PICK t \in T : \A u \in T : ~(<<u, t>> \in OpToRel(<, Nat))
  BY <1>1, NatLessThanWellFounded, WFMin, Zenon
<1>3. \A u \in T : ~(u < t)
  BY <1>1, <1>2 DEF OpToRel
<1>4. PICK m \in S : t = N - m
  OBVIOUS
<1>5. \A s \in S : m >= s
  <2>1. TAKE s \in S
  <2>2. N - s \in T
    OBVIOUS
  <2>3. ~(N - s < N - m)
    BY <1>3, <1>4, <2>2
  <2> QED
    BY <2>3
<1>6. Max(S) \in S /\ \A y \in S : Max(S) >= y
  BY <1>5 DEF Max
<1> QED
  BY <1>6

\* The order of sortedOperations is a strict total order on positions.
LEMMA PrecedesIsTotalOrder ==
  ASSUME NEW ops \in Seq(Operation)
  PROVE  /\ \A i \in 1 .. Len(ops) : ~Precedes(ops, i, i)
         /\ \A i, j \in 1 .. Len(ops) : i # j => Precedes(ops, i, j) \/ Precedes(ops, j, i)
         /\ \A i, j, k \in 1 .. Len(ops) :
              Precedes(ops, i, j) /\ Precedes(ops, j, k) => Precedes(ops, i, k)
<1>1. \A i \in 1 .. Len(ops) : ops[i].note \in Notes \cup {NilNote} /\ ops[i].seq \in Int
  <2>1. TAKE i \in 1 .. Len(ops)
  <2>2. ops[i] \in Operation
    BY ElementOfSeq
  <2> QED
    BY <2>2 DEF Operation
<1>2. \A m \in Notes \cup {NilNote} : NoteRank(m) \in Int
  BY KeysAssumption DEF NoteRank
<1>3. \A m, n \in Notes \cup {NilNote} : NoteRank(m) = NoteRank(n) => m = n
  BY KeysAssumption DEF NoteRank
<1> DEFINE note(i) == ops[i].note
           rank(i) == NoteRank(ops[i].note)
           sn(i) == ops[i].seq
<1>4. \A i \in 1 .. Len(ops) : rank(i) \in Int /\ sn(i) \in Int
  BY <1>1, <1>2
<1>5. \A i, j \in 1 .. Len(ops) : rank(i) = rank(j) <=> note(i) = note(j)
  BY <1>1, <1>3
<1>6. \A i, j \in 1 .. Len(ops) :
         Precedes(ops, i, j) <=> \/ rank(i) < rank(j)
                                 \/ rank(i) = rank(j) /\ sn(i) < sn(j)
                                 \/ rank(i) = rank(j) /\ sn(i) = sn(j) /\ i < j
  BY <1>5 DEF Precedes
<1> HIDE DEF note, rank, sn
<1>7. Len(ops) \in Nat
  BY LenProperties
<1>8. \A i \in 1 .. Len(ops) : ~Precedes(ops, i, i)
  BY <1>4, <1>6, <1>7
<1>9. \A i, j \in 1 .. Len(ops) : i # j => Precedes(ops, i, j) \/ Precedes(ops, j, i)
  BY <1>4, <1>6, <1>7
<1>10. \A i, j, k \in 1 .. Len(ops) :
          Precedes(ops, i, j) /\ Precedes(ops, j, k) => Precedes(ops, i, k)
  <2>1. SUFFICES ASSUME NEW i \in 1 .. Len(ops), NEW j \in 1 .. Len(ops), NEW k \in 1 .. Len(ops),
                        Precedes(ops, i, j), Precedes(ops, j, k)
                 PROVE  Precedes(ops, i, k)
    OBVIOUS
  <2>2. /\ rank(i) \in Int /\ rank(j) \in Int /\ rank(k) \in Int
        /\ sn(i) \in Int /\ sn(j) \in Int /\ sn(k) \in Int
    BY <1>4
  <2> QED
    BY <1>6, <1>7, <2>1, <2>2
<1> QED
  BY <1>8, <1>9, <1>10

\* sortedOperations permutes the positions of the request so that they are in
\* order: in particular the CHOOSE in its model always has a witness.
LEMMA SortedPositions ==
  ASSUME NEW ops \in Seq(Operation)
  PROVE  \E at \in [1 .. Len(ops) -> 1 .. Len(ops)] :
           /\ SortedOperations(ops) = [k \in 1 .. Len(ops) |-> ops[at[k]]]
           /\ \A i \in 1 .. Len(ops) : \E k \in 1 .. Len(ops) : at[k] = i
           /\ \A k, l \in 1 .. Len(ops) : k < l => Precedes(ops, at[k], at[l])
<1> DEFINE n == Len(ops)
           D == 1 .. n
           Before(i) == {j \in D : Precedes(ops, j, i)}
           rank == [i \in D |-> Cardinality(Before(i))]
<1>1. n \in Nat /\ IsFiniteSet(D) /\ Cardinality(D) = n
  <2>1. n \in Nat
    BY LenProperties
  <2>2. IsFiniteSet(D) /\ Cardinality(D) = IF 1 > n THEN 0 ELSE n - 1 + 1
    BY <2>1, FS_Interval
  <2> QED
    BY <2>1, <2>2
<1>2. \A i \in D : Before(i) \subseteq D \ {i}
  BY PrecedesIsTotalOrder
<1>3. \A i \in D : IsFiniteSet(Before(i)) /\ Cardinality(Before(i)) \in 0 .. n - 1
  <2>1. TAKE i \in D
  <2>2. IsFiniteSet(D \ {i}) /\ Cardinality(D \ {i}) = n - 1
    BY <1>1, FS_RemoveElement
  <2>3. IsFiniteSet(Before(i)) /\ Cardinality(Before(i)) <= n - 1
    BY <1>2, <2>2, FS_Subset
  <2> QED
    BY <1>1, <2>3, FS_CardinalityType
<1>4. rank \in [D -> 0 .. n - 1]
  BY <1>3
<1>5. \A i, j \in D : Precedes(ops, i, j) => rank[i] # rank[j]
  <2>1. SUFFICES ASSUME NEW i \in D, NEW j \in D, Precedes(ops, i, j)
                 PROVE  Cardinality(Before(i)) # Cardinality(Before(j))
    OBVIOUS
  <2>2. Before(i) \subseteq Before(j)
    BY <2>1, PrecedesIsTotalOrder
  <2>3. i \in Before(j) /\ i \notin Before(i)
    BY <2>1, PrecedesIsTotalOrder
  <2> HIDE DEF Before
  <2> QED
    BY <1>3, <2>2, <2>3, FS_Subset
<1>6. rank \in Injection(D, 0 .. n - 1)
  BY <1>4, <1>5, PrecedesIsTotalOrder DEF Injection, IsInjective
<1>7. IsFiniteSet(0 .. n - 1) /\ Cardinality(0 .. n - 1) = n
  <2>1. \A b \in Int : IsFiniteSet(0 .. b) /\ Cardinality(0 .. b) = IF 0 > b THEN 0 ELSE b - 0 + 1
    BY FS_Interval
  <2>2. n - 1 \in Int /\ n \in Nat
    BY <1>1
  <2> HIDE DEF n, D, Before, rank
  <2>3. IsFiniteSet(0 .. n - 1) /\ Cardinality(0 .. n - 1) = IF 0 > n - 1 THEN 0 ELSE n - 1 - 0 + 1
    BY ONLY <2>1, <2>2
  <2> QED
    BY ONLY <2>2, <2>3
<1>8. rank \in Surjection(D, 0 .. n - 1)
  BY <1>1, <1>6, <1>7, FS_Injection
<1>9. \A k \in D : \E i \in D : Cardinality(Before(i)) = k - 1
  <2>1. \A t \in 0 .. n - 1 : \E i \in D : rank[i] = t
    BY <1>8 DEF Surjection
  <2>2. \A k \in D : k - 1 \in 0 .. n - 1
    BY <1>1
  <2> QED
    BY <2>1, <2>2
<1> DEFINE at == [k \in D |-> CHOOSE i \in D : Cardinality(Before(i)) = k - 1]
<1>10. at \in [D -> D] /\ \A k \in D : rank[at[k]] = k - 1
  BY <1>9
<1>11. SortedOperations(ops) = [k \in D |-> ops[at[k]]]
  BY DEF SortedOperations
<1> HIDE DEF at
<1>12. ASSUME NEW i \in D PROVE \E k \in D : at[k] = i
  <2>1. PICK t \in 0 .. n - 1 : rank[i] = t
    BY <1>4
  <2>2. PICK k \in D : k - 1 = t
    BY <1>1, <2>1
  <2>3. at[k] \in D /\ rank[at[k]] = rank[i]
    BY <1>10, <2>1, <2>2
  <2>4. at[k] = i
    BY <1>6, <2>3, Zenon DEF Injection, IsInjective
  <2> QED
    BY <2>4
<1>13. ASSUME NEW k \in D, NEW l \in D, k < l PROVE Precedes(ops, at[k], at[l])
  <2>1. at[k] \in D /\ at[l] \in D /\ rank[at[k]] = k - 1 /\ rank[at[l]] = l - 1
    BY <1>10
  <2>2. at[k] # at[l]
    <3>1. k - 1 # l - 1
      BY <1>1, <1>13
    <3> QED
      BY <2>1, <3>1, Zenon
  <2>3. SUFFICES ASSUME Precedes(ops, at[l], at[k]) PROVE FALSE
    BY <2>1, <2>2, PrecedesIsTotalOrder
  <2>4. Before(at[l]) \subseteq Before(at[k])
    BY <2>1, <2>3, PrecedesIsTotalOrder
  <2>5. Cardinality(Before(at[k])) = k - 1 /\ Cardinality(Before(at[l])) = l - 1
    BY <2>1
  <2>6. Cardinality(Before(at[l])) <= Cardinality(Before(at[k]))
    BY <1>3, <2>1, <2>4, FS_Subset
  <2> QED
    BY <1>1, <1>13, <2>5, <2>6
<1> QED
  BY <1>10, <1>11, <1>12, <1>13

\* It returns as many operations as it is given, each of them one of the request's.
LEMMA SortedOperationsIsSeq ==
  ASSUME NEW ops \in Seq(Operation)
  PROVE  SortedOperations(ops) \in Seq(Operation)
<1>1. PICK at \in [1 .. Len(ops) -> 1 .. Len(ops)] : SortedOperations(ops) = [k \in 1 .. Len(ops) |-> ops[at[k]]]
  BY SortedPositions
<1>2. Len(ops) \in Nat /\ \A i \in 1 .. Len(ops) : ops[i] \in Operation
  BY LenProperties, ElementOfSeq
<1>3. SortedOperations(ops) \in [1 .. Len(ops) -> Operation]
  BY <1>1, <1>2
<1> QED
  BY <1>2, <1>3, SeqDef

\* An edit in range yields a text again (applyTextDelta).
LEMMA ApplyTextDeltaType ==
  ASSUME NEW text \in Seq(Runes), NEW delta \in TextDeltas(Runes), DeltaInRange(text, delta)
  PROVE  ApplyTextDelta(text, delta) \in Seq(Runes)
<1>1. /\ delta.index \in Int /\ delta.del \in Int /\ delta.ins \in Seq(Runes)
      /\ delta.index >= 0 /\ delta.del >= 0 /\ delta.index <= Len(text)
  BY DEF TextDeltas, DeltaInRange
<1>2. Len(text) \in Nat /\ \A i \in 1 .. Len(text) : text[i] \in Runes
  BY LenProperties, ElementOfSeq
<1>3. SubSeq(text, 1, delta.index) \in Seq(Runes)
  <2>1. \A i \in 1 .. delta.index : text[i] \in Runes
    BY <1>1, <1>2
  <2> QED
    BY <1>1, <2>1, SubSeqProperties
<1>4. SubSeq(text, delta.index + delta.del + 1, Len(text)) \in Seq(Runes)
  <2>1. delta.index + delta.del + 1 \in Int /\ delta.index + delta.del + 1 >= 1
    BY <1>1
  <2>2. \A i \in delta.index + delta.del + 1 .. Len(text) : text[i] \in Runes
    BY <1>2, <2>1
  <2> QED
    BY <1>2, <2>1, <2>2, SubSeqProperties
<1> QED
  BY <1>1, <1>3, <1>4, ConcatProperties DEF ApplyTextDelta

\* Skipping a rejected batch leaves a sequence of operations.
LEMMA AfterBatchType ==
  ASSUME NEW ops \in Seq(Operation), NEW n
  PROVE  AfterBatch(ops, n) \in Seq(Operation)
<1> DEFINE D == {i \in 1 .. Len(ops) : \A j \in 1 .. i : ops[j].note = n}
<1>1. Len(ops) \in Nat /\ \A i \in 1 .. Len(ops) : ops[i] \in Operation
  BY LenProperties, ElementOfSeq
<1>2. IsFiniteSet(1 .. Len(ops))
  BY <1>1, FS_Interval
<1>3. Cardinality(D) \in Nat
  BY <1>2, FS_Subset, FS_CardinalityType
<1>4. 1 + Cardinality(D) \in Int /\ 1 + Cardinality(D) >= 1
  BY <1>3
<1> HIDE DEF D
<1>5. \A i \in 1 + Cardinality(D) .. Len(ops) : ops[i] \in Operation
  BY <1>1, <1>4
<1>6. SubSeq(ops, 1 + Cardinality(D), Len(ops)) \in Seq(Operation)
  BY <1>1, <1>4, <1>5, SubSeqProperties
<1> QED
  BY <1>6 DEF AfterBatch, D

-----------------------------------------------------------------------------
(* What the statements of a transaction do to its state. *)

LEMMA EmptyTxTyped == TypedTx(EmptyTx) /\ EmptyTx.pend = {}
  BY DEF TypedTx, EmptyTx, TxState, TypedRow

LEMMA LockTyped ==
  ASSUME NEW t, TypedTx(t), NEW k \in Keys
  PROVE  TypedTx(Lock(t, k)) /\ Lock(t, k).pend = t.pend
  BY DEF TypedTx, Lock, TxState

LEMMA WriteTyped ==
  ASSUME NEW t, TypedTx(t), NEW k \in Keys, NEW row, TypedRow(k, row)
  PROVE  TypedTx(Write(t, k, row)) /\ Write(t, k, row).pend = t.pend
<1>1. row \in Row \cup {Absent}
  BY DEF TypedRow, Keys, Row
<1>2. Write(t, k, row) \in TxState
  BY <1>1 DEF TypedTx, Write, TxState
<1>3. \A j \in Keys : Write(t, k, row).ws[j] = IF j = k THEN row ELSE t.ws[j]
  BY DEF Write, TypedTx, TxState
<1>4. Write(t, k, row).pend = t.pend
  BY DEF Write, TypedTx, TxState
<1> QED
  BY <1>2, <1>3, <1>4 DEF TypedTx

LEMMA PendTyped ==
  ASSUME NEW t, TypedTx(t), NEW c \in Change
  PROVE  LET u == [t EXCEPT !.pend = @ \cup {c}] IN TypedTx(u) /\ u.pend = t.pend \cup {c}
  BY DEF TypedTx, TxState

-----------------------------------------------------------------------------
(* The inductive invariant behind TypeOK.  TypeOK alone is not inductive:  *)
(* the operation a handler works on must belong to its batch, only a note  *)
(* batch may cache a note, a rejected batch needs its failed operation, and*)
(* a maximum exists only because no sequence exceeds the last one.         *)

\* One handler, with everything it owns as parameters: s is the last sequence.
HandlerOK(s, t, sv, c, r, td, b, f, a) ==
  /\ TypedTx(t) /\ \A e \in t.pend : e.seq <= s
  /\ TypedTx(sv) /\ \A e \in sv.pend : e.seq <= s
  /\ c \in PCs
  /\ r \in Request \cup {Absent}
  /\ c # "idle" => r \in Request
  /\ td \in Seq(Operation)
  /\ b \in BatchState
  /\ b.id = NilNote => b.note = Absent
  /\ b.cursor <= s
  /\ f \in Failure
  /\ a \in Reply
  /\ \A e \in a.accepted : e.seq <= s
  /\ c \in {"find", "apply", "lookup"} => td # <<>> /\ Head(td).note = b.id
  /\ c = "lookup" => b.id # NilNote
  /\ c = "rejected" => f.id \in OpIds /\ f.reason \in {"invalid", "not_found", "conflict"}

HandlerInv(p) ==
  HandlerOK(seq, tx[p], save[p], pc[p], req[p], todo[p], batch[p], failure[p], reply[p])

StoreInv ==
  /\ rows \in [Keys -> Row \cup {Absent}] /\ \A k \in Keys : TypedRow(k, rows[k])
  /\ changes \subseteq Change /\ \A c \in changes : c.seq <= seq
  /\ seq \in Nat
  /\ outbox \subseteq Job
  /\ snapshots \subseteq Notes \X Nat
  /\ hints \subseteq Hint
  /\ client \in [Devices -> ClientState]
  /\ check \in [Devices -> Nat \cup {None}]

HandlerFunctions ==
  /\ tx \in [Handlers -> TxState]
  /\ save \in [Handlers -> TxState]
  /\ pc \in [Handlers -> PCs]
  /\ req \in [Handlers -> Request \cup {Absent}]
  /\ todo \in [Handlers -> Seq(Operation)]
  /\ batch \in [Handlers -> BatchState]
  /\ failure \in [Handlers -> Failure]
  /\ reply \in [Handlers -> Reply]

TypeInv == HandlerFunctions /\ StoreInv /\ \A p \in Handlers : HandlerInv(p)

LEMMA TypeInvImpliesTypeOK == TypeInv => TypeOK
  BY DEF TypeInv, TypeOK, HandlerFunctions, StoreInv, HandlerInv, HandlerOK

\* A handler that is left alone stays well formed when sequences are handed out.
LEMMA HandlerOKMonotonic ==
  ASSUME NEW s \in Nat, NEW u \in Nat, s <= u,
         NEW t, NEW sv, NEW c, NEW r, NEW td, NEW b, NEW f, NEW a,
         HandlerOK(s, t, sv, c, r, td, b, f, a)
  PROVE  HandlerOK(u, t, sv, c, r, td, b, f, a)
<1>1. \A e \in t.pend \cup sv.pend : e.seq \in Nat
  BY DEF HandlerOK, TypedTx, TxState, Change
<1>2. \A e \in a.accepted : e.seq \in Nat
  BY DEF HandlerOK, Reply, Accepted
<1>3. b.cursor \in Nat
  BY DEF HandlerOK, BatchState
<1>4. /\ \A e \in t.pend \cup sv.pend : e.seq <= u
      /\ \A e \in a.accepted : e.seq <= u
      /\ b.cursor <= u
  BY <1>1, <1>2, <1>3 DEF HandlerOK
<1> QED
  BY <1>4 DEF HandlerOK

\* A step that changes nothing but handler p, and it to the given values.
Becomes(p, t, sv, c, r, td, b, f, a) ==
  /\ tx' = [tx EXCEPT ![p] = t] /\ save' = [save EXCEPT ![p] = sv]
  /\ pc' = [pc EXCEPT ![p] = c] /\ req' = [req EXCEPT ![p] = r]
  /\ todo' = [todo EXCEPT ![p] = td] /\ batch' = [batch EXCEPT ![p] = b]
  /\ failure' = [failure EXCEPT ![p] = f] /\ reply' = [reply EXCEPT ![p] = a]

\* A step of one handler preserves the invariant if what it leaves behind is
\* well formed.
LEMMA StepOfHandler ==
  ASSUME TypeInv, NEW p \in Handlers, seq' \in Nat, seq <= seq', StoreInv',
         NEW t, NEW sv, NEW c, NEW r, NEW td, NEW b, NEW f, NEW a,
         HandlerOK(seq', t, sv, c, r, td, b, f, a),
         Becomes(p, t, sv, c, r, td, b, f, a)
  PROVE  TypeInv'
<1>1. HandlerFunctions'
  BY DEF TypeInv, HandlerFunctions, HandlerOK, TypedTx, Becomes
<1>2. ASSUME NEW q \in Handlers PROVE HandlerInv(q)'
  <2>1. CASE q = p
    <3>1. /\ tx'[q] = t /\ save'[q] = sv /\ pc'[q] = c /\ req'[q] = r
          /\ todo'[q] = td /\ batch'[q] = b /\ failure'[q] = f /\ reply'[q] = a
      BY <2>1 DEF TypeInv, HandlerFunctions, Becomes
    <3> QED
      BY <3>1 DEF HandlerInv
  <2>2. CASE q # p
    <3>1. /\ tx'[q] = tx[q] /\ save'[q] = save[q] /\ pc'[q] = pc[q] /\ req'[q] = req[q]
          /\ todo'[q] = todo[q] /\ batch'[q] = batch[q] /\ failure'[q] = failure[q]
          /\ reply'[q] = reply[q]
      BY <2>2 DEF TypeInv, HandlerFunctions, Becomes
    <3>2. seq \in Nat
      BY DEF TypeInv, StoreInv
    <3>3. HandlerInv(q)
      BY DEF TypeInv
    <3>4. HandlerOK(seq', tx[q], save[q], pc[q], req[q], todo[q], batch[q], failure[q], reply[q])
      BY <3>2, <3>3, HandlerOKMonotonic DEF HandlerInv
    <3> QED
      BY <3>1, <3>4 DEF HandlerInv
  <2> QED
    BY <2>1, <2>2
<1> QED
  BY <1>1, <1>2 DEF TypeInv

\* The variables a step leaves alone, in the form StepOfHandler wants them.
LEMMA HandlerUnchanged ==
  ASSUME TypeInv, NEW p \in Handlers
  PROVE  /\ tx = [tx EXCEPT ![p] = tx[p]] /\ save = [save EXCEPT ![p] = save[p]]
         /\ pc = [pc EXCEPT ![p] = pc[p]] /\ req = [req EXCEPT ![p] = req[p]]
         /\ todo = [todo EXCEPT ![p] = todo[p]] /\ batch = [batch EXCEPT ![p] = batch[p]]
         /\ failure = [failure EXCEPT ![p] = failure[p]]
         /\ reply = [reply EXCEPT ![p] = reply[p]]
  BY DEF TypeInv, HandlerFunctions

LEMMA StoreUnchanged ==
  ASSUME TypeInv, seq' \in Nat, seq <= seq',
         UNCHANGED <<rows, changes, outbox, snapshots, hints, client, check>>
  PROVE  StoreInv'
<1>1. seq \in Nat /\ \A c \in changes : c.seq \in Nat /\ c.seq <= seq
  BY DEF TypeInv, StoreInv, Change
<1>2. \A c \in changes : c.seq <= seq'
  BY <1>1
<1> QED
  BY <1>2 DEF TypeInv, StoreInv

\* A request has a user and a device; its current operation is well formed.
LEMMA CurrentRequest ==
  ASSUME TypeInv, NEW p \in Handlers, pc[p] # "idle"
  PROVE  /\ User(p) \in Users /\ req[p].device \in Devices /\ req[p].ops \in Seq(Operation)
         /\ req[p].cursor \in Nat
         /\ pc[p] \in {"find", "apply", "lookup"} =>
              /\ todo[p] # <<>> /\ Op(p) \in Operation /\ Op(p).note = batch[p].id
              /\ Tail(todo[p]) \in Seq(Operation)
<1>1. HandlerInv(p)
  BY DEF TypeInv
<1>2. req[p] \in Request
  BY <1>1 DEF HandlerInv, HandlerOK
<1>3. pc[p] \in {"find", "apply", "lookup"} => todo[p] # <<>> /\ Head(todo[p]).note = batch[p].id
  BY <1>1 DEF HandlerInv, HandlerOK
<1>4. todo[p] \in Seq(Operation)
  BY <1>1 DEF HandlerInv, HandlerOK
<1>5. todo[p] # <<>> => Head(todo[p]) \in Operation /\ Tail(todo[p]) \in Seq(Operation)
  BY <1>4, HeadTailProperties
<1> QED
  BY <1>2, <1>3, <1>5 DEF Request, User, Op

\* After an accepted operation the handler looks at the next one of its batch.
LEMMA AdvanceOK ==
  ASSUME TypeInv, NEW p \in Handlers, pc[p] \in {"find", "apply", "lookup"}, Advance(p)
  PROVE  \E c \in {"find", "flush"} :
           /\ todo' = [todo EXCEPT ![p] = Tail(todo[p])]
           /\ pc' = [pc EXCEPT ![p] = c]
           /\ Tail(todo[p]) \in Seq(Operation)
           /\ c = "find" => Tail(todo[p]) # <<>> /\ Head(Tail(todo[p])).note = batch[p].id
<1>1. Op(p).note = batch[p].id /\ Tail(todo[p]) \in Seq(Operation)
  BY CurrentRequest
<1>2. CASE Tail(todo[p]) # <<>> /\ Head(Tail(todo[p])).note = Op(p).note
  <2>1. /\ todo' = [todo EXCEPT ![p] = Tail(todo[p])]
        /\ pc' = [pc EXCEPT ![p] = "find"]
    BY <1>2 DEF Advance
  <2> QED
    BY <1>1, <1>2, <2>1
<1>3. CASE ~(Tail(todo[p]) # <<>> /\ Head(Tail(todo[p])).note = Op(p).note)
  <2>1. /\ todo' = [todo EXCEPT ![p] = Tail(todo[p])]
        /\ pc' = [pc EXCEPT ![p] = "flush"]
    BY <1>3 DEF Advance
  <2> QED
    BY <1>1, <2>1
<1> QED
  BY <1>2, <1>3

\* Every accepted operation: its transaction t and batch b must be well formed.
LEMMA AcceptOpOK ==
  ASSUME TypeInv, NEW p \in Handlers, pc[p] = "apply",
         NEW t, TypedTx(t), t.pend = tx[p].pend,
         NEW b \in BatchState, b.id = batch[p].id, b.id = NilNote => b.note = Absent,
         NEW base \in Nat, NEW result \in Nat,
         AcceptOp(p, t, b, base, result)
  PROVE  TypeInv'
<1> DEFINE c == NewChange(p, Op(p), base, result)
           u == [t EXCEPT !.pend = @ \cup {c}]
           e == [b EXCEPT !.changed = TRUE, !.cursor = c.seq]
<1>1. seq \in Nat /\ HandlerInv(p)
  BY DEF TypeInv, StoreInv
<1>2. c \in Change /\ c.seq = seq + 1
  BY <1>1, CurrentRequest DEF NewChange, Change, Operation
<1>3. /\ tx' = [tx EXCEPT ![p] = u] /\ seq' = seq + 1 /\ batch' = [batch EXCEPT ![p] = e]
      /\ Advance(p)
      /\ UNCHANGED <<rows, changes, outbox, snapshots, save, req, failure, reply, hints, client, check>>
  BY <1>2 DEF AcceptOp, world
<1>4. StoreInv' /\ seq' \in Nat /\ seq <= seq'
  BY <1>1, <1>3, StoreUnchanged
<1>5. PICK k \in {"find", "flush"} :
        /\ todo' = [todo EXCEPT ![p] = Tail(todo[p])]
        /\ pc' = [pc EXCEPT ![p] = k]
        /\ Tail(todo[p]) \in Seq(Operation)
        /\ k = "find" => Tail(todo[p]) # <<>> /\ Head(Tail(todo[p])).note = batch[p].id
  BY <1>3, AdvanceOK
<1> HIDE DEF c
<1>6. TypedTx(u) /\ u.pend = tx[p].pend \cup {c}
  BY <1>2, PendTyped
<1>7. e \in BatchState /\ e.id = b.id /\ e.note = b.note /\ e.cursor = c.seq
  <2>1. c.seq \in Nat
    BY <1>1, <1>2
  <2> QED
    BY <2>1 DEF BatchState
<1> HIDE DEF u, e
<1>8. HandlerOK(seq', tx[p], save[p], pc[p], req[p], todo[p], batch[p], failure[p], reply[p])
  BY <1>1, <1>4, HandlerOKMonotonic DEF HandlerInv
<1>9. \A x \in u.pend : x.seq <= seq'
  BY <1>1, <1>2, <1>3, <1>6, <1>8 DEF HandlerOK
<1>10. HandlerOK(seq', u, save[p], k, req[p], Tail(todo[p]), e, failure[p], reply[p])
  BY <1>2, <1>3, <1>4, <1>5, <1>6, <1>7, <1>8, <1>9 DEF HandlerOK, PCs
<1>11. Becomes(p, u, save[p], k, req[p], Tail(todo[p]), e, failure[p], reply[p])
  BY <1>3, <1>5, HandlerUnchanged DEF Becomes
<1> QED
  BY <1>4, <1>10, <1>11, StepOfHandler

\* Every rejected operation.
LEMMA RejectOpOK ==
  ASSUME TypeInv, NEW p \in Handlers, pc[p] \in {"apply", "lookup"},
         NEW reason \in {"invalid", "not_found", "conflict"}, NEW version \in Nat,
         RejectOp(p, reason, version)
  PROVE  TypeInv'
<1> DEFINE f == [id |-> Op(p).id, version |-> version, reason |-> reason]
<1>1. HandlerInv(p) /\ seq \in Nat
  BY DEF TypeInv, StoreInv
<1>2. Op(p).id \in OpIds
  BY CurrentRequest DEF Operation
<1>3. f \in Failure /\ f.id \in OpIds /\ f.reason = reason
  BY <1>2 DEF Failure
<1>4. UNCHANGED <<rows, changes, seq, outbox, snapshots, hints, client, check>>
  BY DEF RejectOp, RollbackToSavepoint, world
<1>5. StoreInv' /\ seq' \in Nat /\ seq <= seq'
  BY <1>1, <1>4, StoreUnchanged
<1>6. Becomes(p, save[p], save[p], "rejected", req[p], todo[p], batch[p], f, reply[p])
  BY HandlerUnchanged DEF Becomes, RejectOp, RollbackToSavepoint
<1> HIDE DEF f
<1>7. HandlerOK(seq', save[p], save[p], "rejected", req[p], todo[p], batch[p], f, reply[p])
  BY <1>1, <1>3, <1>4 DEF HandlerInv, HandlerOK, PCs
<1> QED
  BY <1>5, <1>6, <1>7, StepOfHandler

\* Every request that fails.
LEMMA FailRequestOK ==
  ASSUME TypeInv, NEW p \in Handlers, pc[p] # "idle",
         NEW reason \in {"forbidden", "revoked", "unique_violation", "aborted"},
         FailRequest(p, reason)
  PROVE  TypeInv'
<1> DEFINE f == [id |-> None, version |-> 0, reason |-> reason]
<1>1. HandlerInv(p) /\ seq \in Nat
  BY DEF TypeInv, StoreInv
<1>2. f \in Failure
  BY DEF Failure
<1>3. UNCHANGED <<rows, changes, seq, outbox, snapshots, hints, client, check>>
  BY DEF FailRequest, RollbackTx, world
<1>4. StoreInv' /\ seq' \in Nat /\ seq <= seq'
  BY <1>1, <1>3, StoreUnchanged
<1>5. Becomes(p, EmptyTx, save[p], "failed", req[p], todo[p], batch[p], f, reply[p])
  BY HandlerUnchanged DEF Becomes, FailRequest, RollbackTx
<1> HIDE DEF f
<1>6. HandlerOK(seq', EmptyTx, save[p], "failed", req[p], todo[p], batch[p], f, reply[p])
  BY <1>1, <1>2, <1>3, EmptyTxTyped DEF HandlerInv, HandlerOK, PCs
<1> QED
  BY <1>4, <1>5, <1>6, StepOfHandler

\* Every step that opens the next batch or ends the last one.
LEMMA NextBatchOK ==
  ASSUME TypeInv, NEW p \in Handlers, pc[p] # "idle",
         NEW t, TypedTx(t), \A e \in t.pend : e.seq <= seq, tx' = [tx EXCEPT ![p] = t],
         NEW a \in Reply, \A e \in a.accepted : e.seq <= seq, reply' = [reply EXCEPT ![p] = a],
         NEW ops \in Seq(Operation), NextBatch(p, ops),
         UNCHANGED <<rows, changes, seq, outbox, snapshots, req, failure, hints, client, check>>
  PROVE  TypeInv'
<1> DEFINE b == NewBatch(IF ops = <<>> THEN NilNote ELSE Head(ops).note)
           c == IF ops = <<>> THEN "commit" ELSE "find"
<1>1. HandlerInv(p) /\ seq \in Nat
  BY DEF TypeInv, StoreInv
<1>2. ops # <<>> => Head(ops).note \in Notes \cup {NilNote}
  <2>1. ops # <<>> => Head(ops) \in Operation
    BY HeadTailProperties
  <2> QED
    BY <2>1 DEF Operation
<1>3. /\ b \in BatchState /\ b.note = Absent /\ b.cursor = 0
      /\ ops # <<>> => b.id = Head(ops).note
  BY <1>2 DEF NewBatch, BatchState
<1>4. StoreInv' /\ seq' \in Nat /\ seq <= seq'
  BY <1>1, StoreUnchanged
<1>5. tx'[p] = t
  BY DEF TypeInv, HandlerFunctions
<1>6. Becomes(p, t, t, c, req[p], ops, b, failure[p], a)
  BY <1>5, HandlerUnchanged DEF Becomes, NextBatch
<1>7. c \in PCs /\ c \notin {"idle", "apply", "lookup", "rejected"} /\ (c = "find" => ops # <<>>)
  BY DEF PCs
<1> HIDE DEF b, c
<1>8. HandlerOK(seq', t, t, c, req[p], ops, b, failure[p], a)
  BY <1>1, <1>3, <1>7 DEF HandlerInv, HandlerOK
<1> QED
  BY <1>4, <1>6, <1>8, StepOfHandler

\* Steps that only move the program counter.
LEMMA QuietStepOK ==
  ASSUME TypeInv, NEW p \in Handlers, pc[p] # "idle",
         NEW c \in PCs, c \notin {"idle", "find", "apply", "rejected"}, c = "lookup" => pc[p] = "apply" /\ batch[p].id # NilNote,
         pc' = [pc EXCEPT ![p] = c], StoreInv', seq' = seq,
         UNCHANGED <<tx, save, req, todo, batch, failure, reply>>
  PROVE  TypeInv'
<1>1. HandlerInv(p) /\ seq \in Nat /\ seq' \in Nat /\ seq <= seq'
  BY DEF TypeInv, StoreInv
<1>2. Becomes(p, tx[p], save[p], c, req[p], todo[p], batch[p], failure[p], reply[p])
  BY HandlerUnchanged DEF Becomes
<1>3. HandlerOK(seq', tx[p], save[p], c, req[p], todo[p], batch[p], failure[p], reply[p])
  BY <1>1 DEF HandlerInv, HandlerOK
<1> QED
  BY <1>1, <1>2, <1>3, StepOfHandler

-----------------------------------------------------------------------------
(* Rows that handlers read, and batches they build. *)

LEMMA VisibleTyped ==
  ASSUME TypeInv, NEW p \in Handlers, NEW k \in Keys
  PROVE  TypedRow(k, Visible(p, k)) /\ TypedTx(tx[p]) /\ \A e \in tx[p].pend : e.seq <= seq
  BY DEF TypeInv, StoreInv, HandlerInv, HandlerOK, TypedTx, Visible

LEMMA EnsuredNoteTyped ==
  ASSUME TypeInv, NEW p \in Handlers, NEW n \in Notes
  PROVE  /\ NoteForOwner(p, n, User(p)) \in NoteRow \cup {Absent}
         /\ EnsuredNote(p, n) \in NoteRow \cup {Absent}
         /\ TypedTx(Ensured(p, n)) /\ Ensured(p, n).pend = tx[p].pend
<1>1. n \in Keys
  BY DEF Keys
<1>2. TypedTx(tx[p]) /\ Visible(p, n) \in NoteRow \cup {Absent}
  BY <1>1, VisibleTyped DEF TypedRow
<1>3. batch[p].note \in NoteRow \cup {Absent}
  BY DEF TypeInv, HandlerInv, HandlerOK, BatchState
<1>4. TypedTx(Lock(tx[p], n)) /\ Lock(tx[p], n).pend = tx[p].pend
  BY <1>1, <1>2, LockTyped
<1> QED
  BY <1>2, <1>3, <1>4 DEF NoteForOwner, EnsuredNote, Ensured

LEMMA LoadedTyped ==
  ASSUME TypeInv, NEW p \in Handlers, NEW note \in NoteRow \cup {Absent}
  PROVE  /\ Loaded(p, note) \in BatchState
         /\ Loaded(p, note).id = batch[p].id /\ Loaded(p, note).note = note
         /\ Loaded(p, note).blocks = batch[p].blocks /\ Loaded(p, note).dirty = batch[p].dirty
         /\ Loaded(p, note).loaded = TRUE
<1>1. batch[p] \in BatchState
  BY DEF TypeInv, HandlerInv, HandlerOK
<1> QED
  BY <1>1 DEF Loaded, BatchState

\* The fields of the operation a handler applies.
LEMMA ApplyingTyped ==
  ASSUME TypeInv, NEW p \in Handlers, NEW types, Applying(p, types)
  PROVE  /\ pc[p] = "apply" /\ Op(p) \in Operation /\ Op(p).type \in types
         /\ Op(p).note = batch[p].id /\ User(p) \in Users
         /\ Op(p).type \in CategoryTypes <=> Op(p).note = NilNote
         /\ Op(p).note # NilNote => Op(p).note \in Notes
         /\ Op(p).type # "create_note" => Decodes(Op(p))
         /\ Op(p).type = "create_note" /\ Op(p).base = 0 /\ batch[p].note = Absent => Decodes(Op(p))
<1>1. pc[p] = "apply" /\ Op(p).type \in types /\ ~Malformed(p, Op(p))
  BY DEF Applying
<1>2. Op(p) \in Operation /\ Op(p).note = batch[p].id /\ User(p) \in Users
  BY <1>1, CurrentRequest
<1>3. Op(p).note \in Notes \cup {NilNote}
  BY <1>2 DEF Operation
<1> QED
  BY <1>1, <1>2, <1>3 DEF Malformed, ValidEnvelope

-----------------------------------------------------------------------------
(* Each action preserves TypeInv. *)

LEMMA ReceiveType ==
  ASSUME TypeInv, NEW p \in Handlers, NEW r \in Requests, Receive(p, r)
  PROVE  TypeInv'
<1> DEFINE q == IF r.kind = "pull" THEN [r EXCEPT !.cursor = client[r.device].cursor] ELSE r
<1>1. HandlerInv(p) /\ seq \in Nat /\ client \in [Devices -> ClientState]
  BY DEF TypeInv, StoreInv
<1>2. r \in Request
  BY RequestsAssumption
<1>3. client[r.device].cursor \in Nat
  BY <1>1, <1>2 DEF Request, ClientState
<1>4. q \in Request
  BY <1>2, <1>3 DEF Request
<1>5. UNCHANGED <<rows, changes, seq, outbox, snapshots, hints, client, check>>
  BY DEF Receive, store, world
<1>6. StoreInv' /\ seq' \in Nat /\ seq <= seq'
  BY <1>1, <1>5, StoreUnchanged
<1> DEFINE bad == [NoFailure EXCEPT !.reason = IF r.valid THEN "too_large" ELSE "invalid"]
<1>7. bad \in Failure
  BY DEF NoFailure, Failure
<1>8. \/ Becomes(p, tx[p], save[p], "lock", q, todo[p], batch[p], failure[p], reply[p])
      \/ Becomes(p, tx[p], save[p], "failed", q, todo[p], batch[p], bad, reply[p])
  BY HandlerUnchanged DEF Becomes, Receive, store
<1> HIDE DEF q, bad
<1>9. /\ HandlerOK(seq', tx[p], save[p], "lock", q, todo[p], batch[p], failure[p], reply[p])
      /\ HandlerOK(seq', tx[p], save[p], "failed", q, todo[p], batch[p], bad, reply[p])
  BY <1>1, <1>4, <1>5, <1>7 DEF HandlerInv, HandlerOK, PCs
<1> QED
  BY <1>6, <1>8, <1>9, StepOfHandler

LEMMA LockDeviceType ==
  ASSUME TypeInv, NEW p \in Handlers, LockDevice(p)
  PROVE  TypeInv'
<1> DEFINE d == req[p].device
           t == Lock(tx[p], d)
<1>1. pc[p] = "lock" /\ HandlerInv(p) /\ seq \in Nat
  BY DEF LockDevice, TypeInv, StoreInv
<1>2. d \in Devices /\ req[p].ops \in Seq(Operation)
  BY <1>1, CurrentRequest
<1>3. TypedTx(t) /\ \A e \in t.pend : e.seq <= seq
  BY <1>2, VisibleTyped, LockTyped DEF Keys
<1>4. CASE \E reason \in {"forbidden", "revoked"} : FailRequest(p, reason)
  BY <1>1, <1>4, FailRequestOK
<1>5. CASE /\ tx' = [tx EXCEPT ![p] = t]
           /\ NextBatch(p, SortedOperations(req[p].ops))
           /\ UNCHANGED <<rows, changes, seq, outbox, snapshots, req, failure, reply, hints, client, check>>
  <2>1. SortedOperations(req[p].ops) \in Seq(Operation)
    BY <1>2, SortedOperationsIsSeq
  <2>2. reply[p] \in Reply /\ \A e \in reply[p].accepted : e.seq <= seq
    BY <1>1 DEF HandlerInv, HandlerOK
  <2>3. reply' = [reply EXCEPT ![p] = reply[p]]
    BY <1>5, HandlerUnchanged
  <2> HIDE DEF t
  <2> QED
    BY <1>1, <1>3, <1>5, <2>1, <2>2, <2>3, NextBatchOK
<1>6. CASE /\ tx' = [tx EXCEPT ![p] = t]
           /\ pc' = [pc EXCEPT ![p] = "page"]
           /\ UNCHANGED <<rows, changes, seq, outbox, snapshots, save, req, todo, batch, failure, reply, hints, client, check>>
  <2>1. StoreInv' /\ seq' \in Nat /\ seq <= seq'
    BY <1>1, <1>6, StoreUnchanged
  <2>2. Becomes(p, t, save[p], "page", req[p], todo[p], batch[p], failure[p], reply[p])
    BY <1>6, HandlerUnchanged DEF Becomes
  <2> HIDE DEF t
  <2>3. HandlerOK(seq', t, save[p], "page", req[p], todo[p], batch[p], failure[p], reply[p])
    BY <1>1, <1>3, <1>6 DEF HandlerInv, HandlerOK, PCs
  <2> QED
    BY <2>1, <2>2, <2>3, StepOfHandler
<1>7. tx \in [Handlers -> TxState]
  BY DEF TypeInv, HandlerFunctions
<1> QED
  BY <1>4, <1>5, <1>6, <1>7 DEF LockDevice, world

LEMMA FindProcessedType ==
  ASSUME TypeInv, NEW p \in Handlers, FindProcessed(p)
  PROVE  TypeInv'
<1>1. HandlerInv(p) /\ seq \in Nat /\ pc[p] = "find"
  BY DEF TypeInv, StoreInv, FindProcessed
<1>2. UNCHANGED <<rows, changes, seq, outbox, snapshots, hints, client, check>>
  BY DEF FindProcessed, store, world
<1>3. StoreInv' /\ seq' \in Nat /\ seq <= seq'
  BY <1>1, <1>2, StoreUnchanged
<1>4. Becomes(p, tx[p], save[p], "apply", req[p], todo[p], batch[p], failure[p], reply[p])
  BY HandlerUnchanged DEF Becomes, FindProcessed, store
<1>5. HandlerOK(seq', tx[p], save[p], "apply", req[p], todo[p], batch[p], failure[p], reply[p])
  BY <1>1, <1>2 DEF HandlerInv, HandlerOK, PCs
<1> QED
  BY <1>3, <1>4, <1>5, StepOfHandler

LEMMA RetryOpType ==
  ASSUME TypeInv, NEW p \in Handlers, RetryOp(p)
  PROVE  TypeInv'
<1> DEFINE n == Op(p).note
<1>1. HandlerInv(p) /\ seq \in Nat /\ pc[p] = "find" /\ Advance(p)
  BY DEF TypeInv, StoreInv, RetryOp
<1>2. n = batch[p].id /\ n \in Notes \cup {NilNote}
  BY <1>1, CurrentRequest DEF Operation
<1>3. UNCHANGED <<rows, changes, seq, outbox, snapshots, save, req, failure, reply, hints, client, check>>
  BY DEF RetryOp, world
<1>4. StoreInv' /\ seq' \in Nat /\ seq <= seq'
  BY <1>1, <1>3, StoreUnchanged
<1>5. PICK k \in {"find", "flush"} :
        /\ todo' = [todo EXCEPT ![p] = Tail(todo[p])]
        /\ pc' = [pc EXCEPT ![p] = k]
        /\ Tail(todo[p]) \in Seq(Operation)
        /\ k = "find" => Tail(todo[p]) # <<>> /\ Head(Tail(todo[p])).note = batch[p].id
  BY <1>1, AdvanceOK
<1>6. CASE n = NilNote
  <2>1. Becomes(p, tx[p], save[p], k, req[p], Tail(todo[p]), batch[p], failure[p], reply[p])
    BY <1>3, <1>5, <1>6, HandlerUnchanged DEF Becomes, RetryOp
  <2>2. HandlerOK(seq', tx[p], save[p], k, req[p], Tail(todo[p]), batch[p], failure[p], reply[p])
    BY <1>1, <1>3, <1>5 DEF HandlerInv, HandlerOK, PCs
  <2> QED
    BY <1>4, <2>1, <2>2, StepOfHandler
<1>7. CASE n \in Notes
  <2> DEFINE t == Ensured(p, n)
             b == Loaded(p, EnsuredNote(p, n))
  <2>1. TypedTx(t) /\ t.pend = tx[p].pend /\ EnsuredNote(p, n) \in NoteRow \cup {Absent}
    BY <1>7, EnsuredNoteTyped
  <2>2. b \in BatchState /\ b.id = batch[p].id /\ b.id # NilNote /\ b.cursor = batch[p].cursor
    <3>1. batch[p] \in BatchState
      BY <1>1 DEF HandlerInv, HandlerOK
    <3>2. b.cursor = batch[p].cursor
      BY <3>1 DEF BatchState, Loaded
    <3>3. b \in BatchState /\ b.id = batch[p].id
      BY <2>1, LoadedTyped
    <3>4. batch[p].id # NilNote
      BY <1>2, <1>7, KeysAssumption
    <3> QED
      BY <3>2, <3>3, <3>4
  <2>3. n # NilNote
    BY <1>7, KeysAssumption
  <2>4. Becomes(p, t, save[p], k, req[p], Tail(todo[p]), b, failure[p], reply[p])
    BY <1>3, <1>5, <2>3, HandlerUnchanged DEF Becomes, RetryOp
  <2> HIDE DEF t, b
  <2>5. HandlerOK(seq', t, save[p], k, req[p], Tail(todo[p]), b, failure[p], reply[p])
    BY <1>1, <1>3, <1>5, <2>1, <2>2 DEF HandlerInv, HandlerOK, PCs
  <2> QED
    BY <1>4, <2>4, <2>5, StepOfHandler
<1> QED
  BY <1>2, <1>6, <1>7

LEMMA RejectMalformedType ==
  ASSUME TypeInv, NEW p \in Handlers, RejectMalformed(p)
  PROVE  TypeInv'
  BY RejectOpOK DEF RejectMalformed

LEMMA RejectExistingType ==
  ASSUME TypeInv, NEW p \in Handlers, RejectExisting(p)
  PROVE  TypeInv'
<1> DEFINE note == EnsuredNote(p, Op(p).note)
<1>1. Applying(p, EditTypes)
  BY DEF RejectExisting
<1>2. pc[p] = "apply" /\ Op(p).note \in Notes
  BY <1>1, ApplyingTyped DEF EditTypes, CategoryTypes
<1>3. note \in NoteRow \cup {Absent}
  BY <1>2, EnsuredNoteTyped
<1>4. note # Absent => note.version \in Nat
  BY <1>3 DEF NoteRow
<1>5. \/ RejectOp(p, "not_found", 0)
      \/ note # Absent /\ RejectOp(p, "conflict", note.version)
  BY DEF RejectExisting
<1> HIDE DEF note
<1> QED
  BY <1>2, <1>4, <1>5, RejectOpOK

\* The note a handler edits exists and has the version the client named.
LEMMA EditingTyped ==
  ASSUME TypeInv, NEW p \in Handlers, NEW type \in EditTypes, Editing(p, type)
  PROVE  /\ pc[p] = "apply" /\ Op(p) \in Operation /\ Decodes(Op(p)) /\ Op(p).type = type
         /\ Op(p).note \in Notes /\ Op(p).note = batch[p].id /\ batch[p].id # NilNote
         /\ EnsuredNote(p, Op(p).note) \in NoteRow
<1>1. Applying(p, {type}) /\ EnsuredNote(p, Op(p).note) # Absent
  BY DEF Editing
<1>2. type \notin CategoryTypes /\ type # "create_note"
  BY DEF EditTypes, CategoryTypes
<1>3. Op(p).note \in Notes
  BY <1>1, <1>2, ApplyingTyped
<1>4. EnsuredNote(p, Op(p).note) \in NoteRow
  BY <1>1, <1>3, EnsuredNoteTyped
<1> QED
  BY <1>1, <1>2, <1>3, <1>4, ApplyingTyped, KeysAssumption

LEMMA AcceptEditType ==
  ASSUME TypeInv, NEW p \in Handlers, pc[p] = "apply", Op(p).note \in Notes,
         Op(p).note = batch[p].id, NEW note \in NoteRow, AcceptEdit(p, note)
  PROVE  TypeInv'
<1> DEFINE t == Ensured(p, Op(p).note)
           b == Loaded(p, note)
<1>1. TypedTx(t) /\ t.pend = tx[p].pend
  BY EnsuredNoteTyped
<1>2. b \in BatchState /\ b.id = batch[p].id
  BY LoadedTyped
<1>3. batch[p].id # NilNote
  BY KeysAssumption
<1>4. note.version \in Nat /\ note.version + 1 \in Nat
  BY DEF NoteRow
<1>5. AcceptOp(p, t, b, note.version, note.version + 1)
  BY DEF AcceptEdit
<1> HIDE DEF t, b
<1> QED
  BY <1>1, <1>2, <1>3, <1>4, <1>5, AcceptOpOK

LEMMA ModifyNotePropertyType ==
  ASSUME TypeInv, NEW p \in Handlers, ModifyNoteProperty(p)
  PROVE  TypeInv'
<1> DEFINE old == EnsuredNote(p, Op(p).note)
           note == [old EXCEPT !.props = Op(p).props]
<1>1. Editing(p, "modify_note_property") /\ AcceptEdit(p, note)
  BY DEF ModifyNoteProperty
<1>2. /\ pc[p] = "apply" /\ Op(p) \in Operation /\ Decodes(Op(p))
      /\ Op(p).type = "modify_note_property"
      /\ Op(p).note \in Notes /\ Op(p).note = batch[p].id /\ old \in NoteRow
  BY <1>1, EditingTyped DEF EditTypes
<1>3. Op(p).props \in Props
  BY <1>2 DEF Operation, Decodes
<1>4. note \in NoteRow
  BY <1>2, <1>3 DEF NoteRow
<1> HIDE DEF note
<1> QED
  BY <1>1, <1>2, <1>4, AcceptEditType

LEMMA ModifyNoteTitleType ==
  ASSUME TypeInv, NEW p \in Handlers, ModifyNoteTitle(p)
  PROVE  TypeInv'
<1> DEFINE old == EnsuredNote(p, Op(p).note)
           note == [old EXCEPT !.title = ApplyTextDelta(@, Op(p).delta)]
<1>1. Editing(p, "modify_note_title")
  BY DEF ModifyNoteTitle
<1>2. /\ pc[p] = "apply" /\ Op(p) \in Operation /\ Decodes(Op(p))
      /\ Op(p).type = "modify_note_title"
      /\ Op(p).note \in Notes /\ Op(p).note = batch[p].id /\ old \in NoteRow
  BY <1>1, EditingTyped DEF EditTypes
<1>3. CASE RejectOp(p, "invalid", 0)
  BY <1>2, <1>3, RejectOpOK
<1>4. CASE DeltaInRange(old.title, Op(p).delta) /\ AcceptEdit(p, note)
  <2>1. Op(p).delta \in TextDeltas(Runes) /\ old.title \in Seq(Runes)
    BY <1>2 DEF Operation, Decodes, NoteRow
  <2>2. ApplyTextDelta(old.title, Op(p).delta) \in Seq(Runes)
    BY <1>4, <2>1, ApplyTextDeltaType
  <2>3. note \in NoteRow
    BY <1>2, <2>2 DEF NoteRow
  <2> HIDE DEF note
  <2> QED
    BY <1>2, <1>4, <2>3, AcceptEditType
<1> QED
  BY <1>3, <1>4 DEF ModifyNoteTitle

LEMMA DeleteNoteLookupType ==
  ASSUME TypeInv, NEW p \in Handlers, DeleteNoteLookup(p)
  PROVE  TypeInv'
<1> DEFINE note == NoteForOwner(p, Op(p).note, User(p))
<1>1. pc[p] = "lookup" /\ HandlerInv(p)
  BY DEF DeleteNoteLookup, TypeInv
<1>2. Op(p) \in Operation /\ Op(p).note = batch[p].id /\ batch[p].id # NilNote
  BY <1>1, CurrentRequest DEF HandlerInv, HandlerOK
<1>3. Op(p).note \in Notes
  BY <1>2 DEF Operation
<1>4. note \in NoteRow \cup {Absent}
  BY <1>3, EnsuredNoteTyped
<1>5. note # Absent => note.version \in Nat
  BY <1>4 DEF NoteRow
<1>6. \/ RejectOp(p, "not_found", 0)
      \/ note # Absent /\ RejectOp(p, "conflict", note.version)
  BY DEF DeleteNoteLookup
<1> HIDE DEF note
<1> QED
  BY <1>1, <1>5, <1>6, RejectOpOK

LEMMA DeleteNoteType ==
  ASSUME TypeInv, NEW p \in Handlers, DeleteNote(p)
  PROVE  TypeInv'
<1> DEFINE n == Op(p).note
           row == Visible(p, n)
           gone == [row EXCEPT !.deleted = TRUE]
           note == IF batch[p].note = Absent THEN gone
                   ELSE [batch[p].note EXCEPT !.deleted = TRUE]
<1>1. Applying(p, {"delete_note"}) /\ HandlerInv(p) /\ seq \in Nat
  BY DEF DeleteNote, TypeInv, StoreInv
<1>2. pc[p] = "apply" /\ n \in Notes /\ n = batch[p].id /\ n # NilNote /\ n \in Keys
  BY <1>1, ApplyingTyped, KeysAssumption DEF CategoryTypes, Keys
<1>3. row \in NoteRow \cup {Absent} /\ TypedTx(tx[p])
  BY <1>2, VisibleTyped DEF TypedRow
<1>4. batch[p].note \in NoteRow \cup {Absent}
  BY <1>1 DEF HandlerInv, HandlerOK, BatchState
<1>5. CASE /\ OwnedBy(row, User(p))
           /\ AcceptOp(p, Write(tx[p], n, gone), Loaded(p, note), note.version, note.version + 1)
  <2>1. row \in NoteRow
    BY <1>3, <1>5 DEF OwnedBy
  <2>2. gone \in NoteRow
    BY <2>1 DEF NoteRow
  <2>3. note \in NoteRow
    BY <1>4, <2>2 DEF NoteRow
  <2>4. TypedRow(n, gone)
    BY <1>2, <2>2, KeysAssumption DEF TypedRow
  <2>5. note.version \in Nat /\ note.version + 1 \in Nat
    BY <2>3 DEF NoteRow
  <2> DEFINE t == Write(tx[p], n, gone)
             b == Loaded(p, note)
  <2> HIDE DEF note, gone, row, n
  <2>6. TypedTx(t) /\ t.pend = tx[p].pend
    BY <1>2, <1>3, <2>4, WriteTyped
  <2>7. b \in BatchState /\ b.id = batch[p].id
    BY <2>3, LoadedTyped
  <2>8. AcceptOp(p, t, b, note.version, note.version + 1)
    BY <1>5
  <2> HIDE DEF t, b
  <2> QED
    BY <1>2, <2>5, <2>6, <2>7, <2>8, AcceptOpOK
<1>6. CASE /\ pc' = [pc EXCEPT ![p] = "lookup"]
           /\ UNCHANGED <<store, req, todo, batch, failure, reply, world>>
  <2>1. /\ UNCHANGED <<rows, changes, seq, outbox, snapshots, hints, client, check>>
        /\ UNCHANGED <<tx, save, req, todo, batch, failure, reply>>
    BY <1>6 DEF store, world
  <2>2. StoreInv'
    BY <1>1, <2>1, StoreUnchanged
  <2> QED
    BY <1>2, <1>6, <2>1, <2>2, QuietStepOK DEF PCs
<1> QED
  BY <1>5, <1>6 DEF DeleteNote

LEMMA CreateNoteType ==
  ASSUME TypeInv, NEW p \in Handlers, CreateNote(p)
  PROVE  TypeInv'
<1> DEFINE op == Op(p)
           n == op.note
           note == [owner |-> User(p), version |-> 0, deleted |-> FALSE,
                    title |-> op.text, props |-> op.props]
           block == [note |-> n, deleted |-> FALSE, text |-> op.text, props |-> op.props]
           ws == [k \in Keys |-> IF k = n THEN note
                                 ELSE IF k \in op.blocks THEN block ELSE tx[p].ws[k]]
           t == [tx[p] EXCEPT !.ws = ws, !.held = @ \cup {n} \cup op.blocks]
           bs == [x \in Blocks |-> IF x \in op.blocks THEN block ELSE batch[p].blocks[x]]
           b == [Loaded(p, note) EXCEPT !.blocks = bs]
<1>1. Applying(p, {"create_note"}) /\ HandlerInv(p)
  BY DEF CreateNote, TypeInv
<1>2. /\ pc[p] = "apply" /\ n \in Notes /\ n = batch[p].id /\ n # NilNote
      /\ op \in Operation /\ User(p) \in Users /\ op.type = "create_note"
  BY <1>1, ApplyingTyped, KeysAssumption DEF CategoryTypes
<1>3. batch[p] \in BatchState /\ TypedTx(tx[p])
  BY <1>1 DEF HandlerInv, HandlerOK
<1>4. CASE RejectOp(p, "conflict", 0) \/ RejectOp(p, "invalid", 0)
  BY <1>2, <1>4, RejectOpOK
<1>5. CASE batch[p].note # Absent /\ RejectOp(p, "conflict", batch[p].note.version)
  <2>1. batch[p].note.version \in Nat
    BY <1>3, <1>5 DEF BatchState, NoteRow
  <2> QED
    BY <1>2, <1>5, <2>1, RejectOpOK
<1>6. CASE op.base = 0 /\ batch[p].note = Absent /\ AcceptOp(p, t, b, 0, 1)
  <2>1. Decodes(op)
    BY <1>1, <1>2, <1>6, ApplyingTyped
  <2>2. op.props \in Props /\ op.text \in Seq(Runes) /\ op.blocks \subseteq Blocks
    BY <1>2, <2>1 DEF Operation, Decodes
  <2>3. note \in NoteRow /\ block \in BlockRow
    BY <1>2, <2>2 DEF NoteRow, BlockRow
  <2> HIDE DEF note, block
  <2>4. ws \in [Keys -> Row \cup {Absent}]
    BY <1>3, <2>3 DEF TypedTx, TxState, Row
  <2>5. \A k \in Keys : TypedRow(k, ws[k])
    BY <1>2, <1>3, <2>2, <2>3, KeysAssumption DEF TypedTx, TypedRow
  <2>6. n \in Keys /\ op.blocks \subseteq Keys
    BY <1>2, <2>2 DEF Keys
  <2> HIDE DEF ws, n
  <2>7. t \in TxState /\ t.ws = ws /\ t.pend = tx[p].pend
    BY <1>3, <2>4, <2>6 DEF TypedTx, TxState
  <2>8. TypedTx(t)
    BY <2>5, <2>7 DEF TypedTx
  <2>9. bs \in [Blocks -> BlockRow \cup {Absent}]
    BY <1>3, <2>3 DEF BatchState
  <2>10. Loaded(p, note) \in BatchState /\ Loaded(p, note).id = batch[p].id
    BY <2>3, LoadedTyped
  <2> HIDE DEF bs
  <2>11. b \in BatchState /\ b.id = batch[p].id
    BY <2>9, <2>10 DEF BatchState
  <2> HIDE DEF t, b
  <2> QED
    BY <1>2, <1>6, <2>7, <2>8, <2>11, AcceptOpOK DEF n
<1>7. /\ TypedTx(tx[p]) => [tx[p] EXCEPT !.ws = [k \in Keys |-> IF k = n THEN note
                                       ELSE IF k \in op.blocks THEN block ELSE @[k]],
                             !.held = @ \cup {n} \cup op.blocks] = t
      /\ [Loaded(p, note) EXCEPT !.blocks = [x \in Blocks |->
                                       IF x \in op.blocks THEN block ELSE @[x]]] = b
  BY <1>3 DEF Loaded, BatchState
<1> QED
  BY <1>3, <1>4, <1>5, <1>6, <1>7 DEF CreateNote

LEMMA CreateBlockType ==
  ASSUME TypeInv, NEW p \in Handlers, CreateBlock(p)
  PROVE  TypeInv'
<1> DEFINE op == Op(p)
           note == EnsuredNote(p, op.note)
           block == [note |-> op.note, deleted |-> FALSE, text |-> op.text, props |-> op.props]
           t == Write(Ensured(p, op.note), op.key, block)
           l == Loaded(p, note)
           b == [l EXCEPT !.blocks = [@ EXCEPT ![op.key] = block]]
<1>1. Editing(p, "create_block")
  BY DEF CreateBlock
<1>2. /\ pc[p] = "apply" /\ op \in Operation /\ Decodes(op) /\ op.type = "create_block"
      /\ op.note \in Notes /\ op.note = batch[p].id /\ batch[p].id # NilNote /\ note \in NoteRow
  BY <1>1, EditingTyped DEF EditTypes
<1>3. CASE RejectOp(p, "invalid", 0)
  BY <1>2, <1>3, RejectOpOK
<1>4. CASE AcceptOp(p, t, b, note.version, note.version + 1)
  <2>1. op.key \in Blocks /\ op.props \in Props /\ op.text \in Seq(Runes)
    BY <1>2 DEF Operation, Decodes
  <2>2. block \in BlockRow
    BY <1>2, <2>1 DEF BlockRow
  <2> HIDE DEF block
  <2>3. op.key \in Keys /\ TypedRow(op.key, block)
    BY <2>1, <2>2, KeysAssumption DEF Keys, TypedRow
  <2>4. TypedTx(t) /\ t.pend = tx[p].pend
    BY <1>2, <2>3, EnsuredNoteTyped, WriteTyped
  <2>5. l \in BatchState /\ l.id = batch[p].id
    BY <1>2, LoadedTyped
  <2>6. note.version \in Nat /\ note.version + 1 \in Nat
    BY <1>2 DEF NoteRow
  <2> HIDE DEF t, l, note
  <2>7. b \in BatchState /\ b.id = batch[p].id
    BY <2>1, <2>2, <2>5 DEF BatchState
  <2> HIDE DEF b
  <2> QED
    BY <1>2, <1>4, <2>4, <2>6, <2>7, AcceptOpOK
<1> QED
  BY <1>3, <1>4 DEF CreateBlock

\* The block row a batch works on.
LEMMA BatchBlockTyped ==
  ASSUME TypeInv, NEW p \in Handlers, NEW x \in Blocks, NEW n
  PROVE  BatchBlock(p, x, n) \in BlockRow \cup {Absent}
<1>1. batch[p].blocks[x] \in BlockRow \cup {Absent}
  BY DEF TypeInv, HandlerInv, HandlerOK, BatchState
<1>2. Visible(p, x) \in BlockRow \cup {Absent}
  BY VisibleTyped DEF Keys, TypedRow
<1> QED
  BY <1>1, <1>2 DEF BatchBlock, BlockForNote

LEMMA DeleteBlockType ==
  ASSUME TypeInv, NEW p \in Handlers, DeleteBlock(p)
  PROVE  TypeInv'
<1> DEFINE op == Op(p)
           note == EnsuredNote(p, op.note)
           block == BatchBlock(p, op.key, op.note)
           gone == [block EXCEPT !.deleted = TRUE]
           t == Write(Ensured(p, op.note), op.key, gone)
           l == Loaded(p, note)
           b == [l EXCEPT !.blocks = [@ EXCEPT ![op.key] = gone], !.dirty = @ \ {op.key}]
<1>1. Editing(p, "delete_block")
  BY DEF DeleteBlock
<1>2. /\ pc[p] = "apply" /\ op \in Operation /\ Decodes(op) /\ op.type = "delete_block"
      /\ op.note \in Notes /\ op.note = batch[p].id /\ batch[p].id # NilNote /\ note \in NoteRow
  BY <1>1, EditingTyped DEF EditTypes
<1>3. CASE RejectOp(p, "not_found", 0)
  BY <1>2, <1>3, RejectOpOK
<1>4. CASE block # Absent /\ AcceptOp(p, t, b, note.version, note.version + 1)
  <2>1. op.key \in Blocks
    BY <1>2 DEF Decodes
  <2>2. block \in BlockRow
    BY <1>4, <2>1, BatchBlockTyped
  <2>3. gone \in BlockRow
    BY <2>2 DEF BlockRow
  <2> HIDE DEF gone
  <2>4. op.key \in Keys /\ TypedRow(op.key, gone)
    BY <2>1, <2>3, KeysAssumption DEF Keys, TypedRow
  <2>5. TypedTx(t) /\ t.pend = tx[p].pend
    BY <1>2, <2>4, EnsuredNoteTyped, WriteTyped
  <2>6. l \in BatchState /\ l.id = batch[p].id
    BY <1>2, LoadedTyped
  <2>7. note.version \in Nat /\ note.version + 1 \in Nat
    BY <1>2 DEF NoteRow
  <2> HIDE DEF t, l, note
  <2>8. b \in BatchState /\ b.id = batch[p].id
    BY <2>1, <2>3, <2>6 DEF BatchState
  <2> HIDE DEF b
  <2> QED
    BY <1>2, <1>4, <2>5, <2>7, <2>8, AcceptOpOK
<1> QED
  BY <1>3, <1>4 DEF DeleteBlock

LEMMA ModifyBlockType ==
  ASSUME TypeInv, NEW p \in Handlers, ModifyBlock(p)
  PROVE  TypeInv'
<1> DEFINE op == Op(p)
           note == EnsuredNote(p, op.note)
           block == BatchBlock(p, op.key, op.note)
           edited == [block EXCEPT !.props = IF op.props = None THEN @ ELSE op.props,
                                   !.text = IF op.delta = None THEN @ ELSE ApplyTextDelta(@, op.delta)]
           t == Lock(Ensured(p, op.note), op.key)
           l == Loaded(p, note)
           b == [l EXCEPT !.blocks = [@ EXCEPT ![op.key] = edited], !.dirty = @ \cup {op.key}]
<1>1. Editing(p, "modify_block")
  BY DEF ModifyBlock
<1>2. /\ pc[p] = "apply" /\ op \in Operation /\ Decodes(op) /\ op.type = "modify_block"
      /\ op.note \in Notes /\ op.note = batch[p].id /\ batch[p].id # NilNote /\ note \in NoteRow
  BY <1>1, EditingTyped DEF EditTypes
<1>3. CASE RejectOp(p, "not_found", 0) \/ RejectOp(p, "invalid", 0)
  BY <1>2, <1>3, RejectOpOK
<1>4. CASE /\ block # Absent /\ (op.delta # None => DeltaInRange(block.text, op.delta))
           /\ AcceptOp(p, t, b, note.version, note.version + 1)
  <2>1. /\ op.key \in Blocks /\ op.props \in Props \cup {None}
        /\ op.delta \in TextDeltas(Runes) \cup {None}
    BY <1>2 DEF Operation, Decodes
  <2>2. block \in BlockRow
    BY <1>4, <2>1, BatchBlockTyped
  <2>3. op.delta # None => ApplyTextDelta(block.text, op.delta) \in Seq(Runes)
    BY <1>4, <2>1, <2>2, ApplyTextDeltaType DEF BlockRow
  <2>4. edited \in BlockRow
    BY <2>1, <2>2, <2>3 DEF BlockRow
  <2> HIDE DEF edited
  <2>5. TypedTx(t) /\ t.pend = tx[p].pend
    BY <1>2, <2>1, EnsuredNoteTyped, LockTyped DEF Keys
  <2>6. l \in BatchState /\ l.id = batch[p].id
    BY <1>2, LoadedTyped
  <2>7. note.version \in Nat /\ note.version + 1 \in Nat
    BY <1>2 DEF NoteRow
  <2> HIDE DEF t, l, note
  <2>8. b \in BatchState /\ b.id = batch[p].id
    BY <2>1, <2>4, <2>6 DEF BatchState
  <2> HIDE DEF b
  <2> QED
    BY <1>2, <1>4, <2>5, <2>7, <2>8, AcceptOpOK
<1> QED
  BY <1>3, <1>4 DEF ModifyBlock

\* A category operation writes a category row and nothing of a note.
LEMMA AcceptCategoryOK ==
  ASSUME TypeInv, NEW p \in Handlers, NEW types, types \subseteq CategoryTypes,
         Applying(p, types), NEW row \in CategoryRow,
         AcceptOp(p, Write(tx[p], Op(p).key, row), batch[p], 0, 0)
  PROVE  TypeInv'
<1> DEFINE t == Write(tx[p], Op(p).key, row)
           b == batch[p]
<1>1. /\ pc[p] = "apply" /\ Op(p).type \in CategoryTypes /\ Op(p).note = b.id
      /\ Op(p).note = NilNote
  BY ApplyingTyped
<1>2. HandlerInv(p)
  BY DEF TypeInv
<1>3. Op(p).key \in Categories
  BY <1>1, ApplyingTyped DEF Decodes, CategoryTypes
<1>4. Op(p).key \in Keys /\ TypedRow(Op(p).key, row)
  BY <1>3, KeysAssumption DEF Keys, TypedRow
<1>5. TypedTx(t) /\ t.pend = tx[p].pend
  <2>1. TypedTx(tx[p])
    BY <1>2 DEF HandlerInv, HandlerOK
  <2> QED
    BY <1>4, <2>1, WriteTyped
<1>6. b \in BatchState /\ (b.id = NilNote => b.note = Absent)
  BY <1>2 DEF HandlerInv, HandlerOK
<1> HIDE DEF t
<1> QED
  BY <1>1, <1>5, <1>6, AcceptOpOK DEF t

LEMMA CreateCategoryType ==
  ASSUME TypeInv, NEW p \in Handlers, CreateCategory(p)
  PROVE  TypeInv'
<1> DEFINE row == [owner |-> User(p), name |-> Op(p).name, deleted |-> FALSE]
<1>1. Applying(p, {"create_category"}) /\ {"create_category"} \subseteq CategoryTypes
  BY DEF CreateCategory, CategoryTypes
<1>2. /\ pc[p] = "apply" /\ Op(p) \in Operation /\ Decodes(Op(p)) /\ User(p) \in Users
      /\ Op(p).type = "create_category"
  BY <1>1, ApplyingTyped
<1>3. row \in CategoryRow
  BY <1>2 DEF Operation, Decodes, CategoryRow
<1>4. \/ FailRequest(p, "unique_violation")
      \/ AcceptOp(p, Write(tx[p], Op(p).key, row), batch[p], 0, 0)
  BY DEF CreateCategory
<1> HIDE DEF row
<1> QED
  BY <1>1, <1>2, <1>3, <1>4, FailRequestOK, AcceptCategoryOK

LEMMA RejectCategoryType ==
  ASSUME TypeInv, NEW p \in Handlers, RejectCategory(p)
  PROVE  TypeInv'
  BY RejectOpOK DEF RejectCategory, Applying

\* The category a handler changes is a stored one.
LEMMA ActiveCategoryTyped ==
  ASSUME TypeInv, NEW p \in Handlers, NEW c \in Categories, ActiveCategory(p, c)
  PROVE  Visible(p, c) \in CategoryRow
<1>1. Visible(p, c) \in CategoryRow \cup {Absent}
  BY VisibleTyped DEF TypedRow, Keys
<1> QED
  BY <1>1 DEF ActiveCategory, OwnedBy

LEMMA DeleteCategoryType ==
  ASSUME TypeInv, NEW p \in Handlers, DeleteCategory(p)
  PROVE  TypeInv'
<1> DEFINE row == [Visible(p, Op(p).key) EXCEPT !.deleted = TRUE]
<1>1. Applying(p, {"delete_category"}) /\ {"delete_category"} \subseteq CategoryTypes
  BY DEF DeleteCategory, CategoryTypes
<1>2. Op(p).key \in Categories
  BY <1>1, ApplyingTyped DEF Decodes, CategoryTypes
<1>3. Visible(p, Op(p).key) \in CategoryRow
  BY <1>2, ActiveCategoryTyped DEF DeleteCategory
<1>4. row \in CategoryRow
  BY <1>3 DEF CategoryRow
<1>5. AcceptOp(p, Write(tx[p], Op(p).key, row), batch[p], 0, 0)
  BY DEF DeleteCategory
<1> HIDE DEF row
<1> QED
  BY <1>1, <1>4, <1>5, AcceptCategoryOK

LEMMA ModifyCategoryType ==
  ASSUME TypeInv, NEW p \in Handlers, ModifyCategory(p)
  PROVE  TypeInv'
<1> DEFINE row == [Visible(p, Op(p).key) EXCEPT !.name = Op(p).name]
<1>1. Applying(p, {"modify_category"}) /\ {"modify_category"} \subseteq CategoryTypes
  BY DEF ModifyCategory, CategoryTypes
<1>2. /\ pc[p] = "apply" /\ Op(p) \in Operation /\ Decodes(Op(p))
      /\ Op(p).type = "modify_category"
  BY <1>1, ApplyingTyped
<1>3. Op(p).key \in Categories /\ Op(p).name \in Names
  BY <1>2 DEF Operation, Decodes, CategoryTypes
<1>4. Visible(p, Op(p).key) \in CategoryRow
  BY <1>3, ActiveCategoryTyped DEF ModifyCategory
<1>5. row \in CategoryRow
  BY <1>3, <1>4 DEF CategoryRow
<1>6. \/ FailRequest(p, "unique_violation")
      \/ AcceptOp(p, Write(tx[p], Op(p).key, row), batch[p], 0, 0)
  BY DEF ModifyCategory
<1> HIDE DEF row
<1> QED
  BY <1>1, <1>2, <1>5, <1>6, FailRequestOK, AcceptCategoryOK

\* What FlushBatch makes of the transaction.
LEMMA FlushedTyped ==
  ASSUME TypeInv, NEW p \in Handlers, pc[p] # "idle", NEW n \in Notes, NEW note \in NoteRow
  PROVE  LET t == EnqueueSnapshotIfNeeded(p, Flushed(p, n, note), n, note.version) IN
           TypedTx(t) /\ t.pend = tx[p].pend
<1> DEFINE ws == [k \in Keys |-> IF k = n THEN note
                    ELSE IF k \in batch[p].dirty THEN batch[p].blocks[k] ELSE tx[p].ws[k]]
           w == [tx[p] EXCEPT !.ws = ws]
           job == [note |-> n, owner |-> User(p), version |-> note.version]
           j == [w EXCEPT !.jobs = @ \cup {job}]
<1>1. TypedTx(tx[p]) /\ batch[p] \in BatchState
  BY DEF TypeInv, HandlerInv, HandlerOK
<1>2. \A k \in batch[p].dirty : k \in Blocks /\ batch[p].blocks[k] \in BlockRow \cup {Absent}
  BY <1>1 DEF BatchState
<1>3. ws \in [Keys -> Row \cup {Absent}]
  BY <1>1, <1>2 DEF TypedTx, TxState, Row
<1>4. \A k \in Keys : TypedRow(k, ws[k])
  BY <1>1, <1>2, KeysAssumption DEF TypedTx, TypedRow
<1>5. job \in Job
  BY CurrentRequest DEF Job, NoteRow
<1>6. Flushed(p, n, note) = w
  BY <1>1 DEF Flushed, TypedTx, TxState
<1> HIDE DEF ws, job
<1>7. w \in TxState /\ w.ws = ws /\ w.pend = tx[p].pend
  BY <1>1, <1>3 DEF TypedTx, TxState
<1>8. TypedTx(w) /\ w.pend = tx[p].pend
  BY <1>4, <1>7 DEF TypedTx
<1> HIDE DEF w
<1>9. j \in TxState /\ j.ws = w.ws /\ j.pend = w.pend
  BY <1>5, <1>8 DEF TypedTx, TxState
<1>10. TypedTx(j) /\ j.pend = tx[p].pend
  BY <1>8, <1>9 DEF TypedTx
<1>11. EnqueueSnapshotIfNeeded(p, w, n, note.version) = IF SnapshotDue(p, n) THEN j ELSE w
  BY DEF EnqueueSnapshotIfNeeded, job
<1> HIDE DEF j
<1> QED
  BY <1>6, <1>8, <1>10, <1>11

LEMMA FlushBatchType ==
  ASSUME TypeInv, NEW p \in Handlers, FlushBatch(p)
  PROVE  TypeInv'
<1> DEFINE b == batch[p]
           note == [b.note EXCEPT !.version = @ + 1]
           t == EnqueueSnapshotIfNeeded(p, Flushed(p, b.id, note), b.id, note.version)
           answer(version) == [note |-> b.id, version |-> version, seq |-> b.cursor]
           a(version) == [reply[p] EXCEPT !.accepted = @ \cup {answer(version)}]
<1>1. pc[p] = "flush" /\ HandlerInv(p) /\ seq \in Nat
  BY DEF FlushBatch, TypeInv, StoreInv
<1>2. /\ b \in BatchState /\ b.cursor <= seq /\ (b.id = NilNote => b.note = Absent)
      /\ reply[p] \in Reply /\ todo[p] \in Seq(Operation)
      /\ \A e \in reply[p].accepted : e.seq <= seq
      /\ TypedTx(tx[p]) /\ \A e \in tx[p].pend : e.seq <= seq
  BY <1>1 DEF HandlerInv, HandlerOK
<1>3. ASSUME NEW version \in Nat
      PROVE  a(version) \in Reply /\ \A e \in a(version).accepted : e.seq <= seq
  <2>1. answer(version) \in Accepted /\ answer(version).seq <= seq
    BY <1>2 DEF Accepted, BatchState
  <2> HIDE DEF answer
  <2>2. a(version) \in Reply /\ a(version).accepted = reply[p].accepted \cup {answer(version)}
    BY <1>2, <2>1 DEF Reply
  <2> QED
    BY <1>2, <2>1, <2>2
<1>4. /\ NextBatch(p, todo[p])
      /\ UNCHANGED <<rows, changes, seq, outbox, snapshots, req, failure, hints, client, check>>
  BY DEF FlushBatch, world
<1>5. CASE /\ b.note # Absent /\ tx' = [tx EXCEPT ![p] = t]
           /\ reply' = [reply EXCEPT ![p] = a(note.version)]
  <2>1. b.id \in Notes /\ b.note \in NoteRow
    BY <1>2, <1>5 DEF BatchState
  <2>2. note \in NoteRow /\ note.version \in Nat
    BY <2>1 DEF NoteRow
  <2> HIDE DEF note
  <2>3. TypedTx(t) /\ t.pend = tx[p].pend
    BY <1>1, <2>1, <2>2, FlushedTyped
  <2> DEFINE r == a(note.version)
  <2>4. r \in Reply /\ \A e \in r.accepted : e.seq <= seq
    BY <1>3, <2>2
  <2>5. tx' = [tx EXCEPT ![p] = t] /\ reply' = [reply EXCEPT ![p] = r]
    BY <1>5
  <2> HIDE DEF t, r
  <2> QED
    BY <1>1, <1>2, <1>4, <2>3, <2>4, <2>5, NextBatchOK
<1>6. CASE /\ tx' = tx
           /\ reply' = [reply EXCEPT ![p] = a(IF b.note = Absent THEN 0 ELSE b.note.version)]
  <2> DEFINE v == IF b.note = Absent THEN 0 ELSE b.note.version
             r == a(v)
  <2>1. v \in Nat
    BY <1>2 DEF BatchState, NoteRow
  <2>2. r \in Reply /\ \A e \in r.accepted : e.seq <= seq
    BY <1>3, <2>1
  <2>3. tx' = [tx EXCEPT ![p] = tx[p]] /\ reply' = [reply EXCEPT ![p] = r]
    BY <1>6, HandlerUnchanged
  <2> HIDE DEF r
  <2> QED
    BY <1>1, <1>2, <1>4, <2>2, <2>3, NextBatchOK
<1>7. reply \in [Handlers -> Reply]
  BY DEF TypeInv, HandlerFunctions
<1> QED
  BY <1>5, <1>6, <1>7 DEF FlushBatch

\* The cursor of a snapshot is a sequence of the note's log.
LEMMA LastAppliedCursorTyped ==
  ASSUME TypeInv, NEW p \in Handlers, NEW n
  PROVE  LastAppliedCursor(p, n) \in Nat
<1> DEFINE S == {0} \cup {c.seq : c \in {d \in VisibleChanges(p) : d.note = n}}
<1>1. \A c \in VisibleChanges(p) : c.seq \in Nat /\ c.seq <= seq
  BY DEF TypeInv, StoreInv, HandlerInv, HandlerOK, TypedTx, TxState, Change, VisibleChanges
<1>2. seq \in Nat
  BY DEF TypeInv, StoreInv
<1>3. S \subseteq Nat /\ S # {} /\ \A s \in S : s <= seq
  BY <1>1, <1>2
<1> HIDE DEF S
<1>4. Max(S) \in S
  BY <1>2, <1>3, MaxOfBounded
<1> QED
  BY <1>3, <1>4 DEF LastAppliedCursor, S

LEMMA RejectBatchType ==
  ASSUME TypeInv, NEW p \in Handlers, RejectBatch(p)
  PROVE  TypeInv'
<1> DEFINE n == batch[p].id
           f == failure[p]
           note == IF n = NilNote THEN Absent ELSE NoteForOwner(p, n, User(p))
           answer(version, snapshot, cursor) ==
             [note |-> n, id |-> f.id, reason |-> f.reason,
              version |-> version, snapshot |-> snapshot, cursor |-> cursor]
           a(version, snapshot, cursor) ==
             [reply[p] EXCEPT !.rejected = @ \cup {answer(version, snapshot, cursor)}]
           rest == AfterBatch(todo[p], n)
<1>1. pc[p] = "rejected" /\ HandlerInv(p) /\ seq \in Nat
  BY DEF RejectBatch, TypeInv, StoreInv
<1>2. /\ n \in Notes \cup {NilNote} /\ f.version \in Nat
      /\ f.id \in OpIds /\ f.reason \in {"invalid", "not_found", "conflict"}
      /\ reply[p] \in Reply /\ todo[p] \in Seq(Operation)
      /\ \A e \in reply[p].accepted : e.seq <= seq
      /\ TypedTx(tx[p]) /\ \A e \in tx[p].pend : e.seq <= seq
  BY <1>1 DEF HandlerInv, HandlerOK, BatchState, Failure
<1>3. ASSUME NEW version \in Nat, NEW snapshot \in Nat \cup {None}, NEW cursor \in Nat
      PROVE  LET r == a(version, snapshot, cursor) IN
               r \in Reply /\ \A e \in r.accepted : e.seq <= seq
  <2> DEFINE x == answer(version, snapshot, cursor)
  <2>1. x \in Rejected
    BY <1>2 DEF Rejected
  <2> HIDE DEF x
  <2> DEFINE r == [reply[p] EXCEPT !.rejected = @ \cup {x}]
  <2>2. r \in Reply /\ r.accepted = reply[p].accepted
    BY <1>2, <2>1 DEF Reply
  <2> QED
    BY <1>2, <2>2 DEF x
<1>4. /\ NextBatch(p, rest)
      /\ UNCHANGED <<rows, changes, seq, outbox, snapshots, req, failure, hints, client, check>>
  BY DEF RejectBatch, world
<1>5. rest \in Seq(Operation)
  BY <1>2, AfterBatchType
<1> HIDE DEF rest, answer
<1>6. CASE /\ tx' = tx
           /\ reply' = [reply EXCEPT ![p] = a(f.version, None, 0)]
  <2> DEFINE r == a(f.version, None, 0)
  <2>1. r \in Reply /\ \A e \in r.accepted : e.seq <= seq
    BY <1>2, <1>3
  <2>2. tx' = [tx EXCEPT ![p] = tx[p]] /\ reply' = [reply EXCEPT ![p] = r]
    BY <1>6, HandlerUnchanged
  <2> HIDE DEF r
  <2> QED
    BY <1>1, <1>2, <1>4, <1>5, <2>1, <2>2, NextBatchOK
<1>7. CASE /\ note # Absent /\ tx' = [tx EXCEPT ![p] = Lock(tx[p], n)]
           /\ reply' = [reply EXCEPT ![p] = a(IF f.version = 0 THEN note.version ELSE f.version,
                                              note.version, LastAppliedCursor(p, n))]
  <2> DEFINE v == IF f.version = 0 THEN note.version ELSE f.version
             r == a(v, note.version, LastAppliedCursor(p, n))
             t == Lock(tx[p], n)
  <2>1. n \in Notes /\ n # NilNote
    BY <1>2, <1>7
  <2>2. note \in NoteRow
    BY <1>7, <2>1, EnsuredNoteTyped
  <2>3. note.version \in Nat /\ v \in Nat
    BY <1>2, <2>2 DEF NoteRow
  <2>4. LastAppliedCursor(p, n) \in Nat
    BY LastAppliedCursorTyped
  <2>5. TypedTx(t) /\ t.pend = tx[p].pend
    BY <1>2, <2>1, LockTyped DEF Keys
  <2>6. tx' = [tx EXCEPT ![p] = t] /\ reply' = [reply EXCEPT ![p] = r]
    BY <1>7
  <2> HIDE DEF v, note
  <2>7. r \in Reply /\ \A e \in r.accepted : e.seq <= seq
    BY <1>3, <2>3, <2>4
  <2> HIDE DEF t, r
  <2> QED
    BY <1>1, <1>2, <1>4, <1>5, <2>5, <2>6, <2>7, NextBatchOK
<1>8. reply \in [Handlers -> Reply] /\ tx \in [Handlers -> TxState]
  BY DEF TypeInv, HandlerFunctions
<1> QED
  BY <1>6, <1>7, <1>8 DEF RejectBatch, answer

LEMMA CommitType ==
  ASSUME TypeInv, NEW p \in Handlers, Commit(p)
  PROVE  TypeInv'
<1> DEFINE c == IF req[p].kind = "push" THEN "publish" ELSE "respond"
<1>1. HandlerInv(p) /\ StoreInv /\ pc[p] = "commit"
  BY DEF Commit, TypeInv
<1>2. /\ rows' = [k \in Keys |-> Visible(p, k)] /\ changes' = changes \cup tx[p].pend
      /\ outbox' = outbox \cup tx[p].jobs /\ UNCHANGED <<seq, snapshots, hints, client, check>>
  BY DEF Commit, CommitTx, world
<1>3. \A k \in Keys : TypedRow(k, rows'[k]) /\ rows'[k] \in Row \cup {Absent}
  <2>1. TAKE k \in Keys
  <2>2. rows'[k] = Visible(p, k)
    BY <1>2
  <2>3. TypedRow(k, Visible(p, k))
    BY VisibleTyped
  <2> QED
    BY <2>2, <2>3 DEF TypedRow, Keys, Row
<1>4. rows' \in [Keys -> Row \cup {Absent}]
  BY <1>2, <1>3
<1>5. /\ tx[p].pend \subseteq Change /\ tx[p].jobs \subseteq Job
      /\ \A e \in tx[p].pend : e.seq <= seq
  BY <1>1 DEF HandlerInv, HandlerOK, TypedTx, TxState
<1>6. StoreInv'
  BY <1>1, <1>2, <1>3, <1>4, <1>5 DEF StoreInv
<1>7. Becomes(p, EmptyTx, save[p], c, req[p], todo[p], batch[p], failure[p], reply[p])
  BY HandlerUnchanged DEF Becomes, Commit, CommitTx
<1>8. c \in {"publish", "respond"}
  OBVIOUS
<1> HIDE DEF c
<1>9. HandlerOK(seq', EmptyTx, save[p], c, req[p], todo[p], batch[p], failure[p], reply[p])
  BY <1>1, <1>2, <1>8, EmptyTxTyped DEF HandlerInv, HandlerOK, PCs
<1>10. seq' \in Nat /\ seq <= seq'
  BY <1>1, <1>2 DEF StoreInv
<1> QED
  BY <1>6, <1>7, <1>9, <1>10, StepOfHandler

LEMMA PublishType ==
  ASSUME TypeInv, NEW p \in Handlers, Publish(p)
  PROVE  TypeInv'
<1> DEFINE S == {0} \cup {a.seq : a \in reply[p].accepted}
           h == [user |-> User(p), device |-> req[p].device, cursor |-> CommittedCursor(p)]
<1>1. HandlerInv(p) /\ StoreInv /\ pc[p] = "publish" /\ seq \in Nat
  BY DEF Publish, TypeInv, StoreInv
<1>2. S \subseteq Nat /\ S # {} /\ \A s \in S : s <= seq
  BY <1>1 DEF HandlerInv, HandlerOK, Reply, Accepted
<1>3. CommittedCursor(p) = Max(S)
  BY DEF CommittedCursor
<1> HIDE DEF S
<1>4. CommittedCursor(p) \in Nat
  BY <1>1, <1>2, <1>3, MaxOfBounded
<1>5. h \in Hint
  BY <1>1, <1>4, CurrentRequest DEF Hint
<1>6. /\ hints' = hints \cup {h} \/ hints' = hints
      /\ UNCHANGED <<rows, changes, seq, outbox, snapshots, client, check>>
      /\ UNCHANGED <<tx, save, req, todo, batch, failure, reply>>
      /\ pc' = [pc EXCEPT ![p] = "done"]
  BY DEF Publish, store
<1>7. StoreInv'
  BY <1>1, <1>5, <1>6 DEF StoreInv
<1> QED
  BY <1>1, <1>6, <1>7, QuietStepOK DEF PCs

LEMMA AbortType ==
  ASSUME TypeInv, NEW p \in Handlers, Abort(p)
  PROVE  TypeInv'
  BY FailRequestOK DEF Abort, InTx

LEMMA CommitUnknownType ==
  ASSUME TypeInv, NEW p \in Handlers, CommitUnknown(p)
  PROVE  TypeInv'
<1> DEFINE f == [NoFailure EXCEPT !.reason = "commit_unknown"]
<1>1. HandlerInv(p) /\ seq \in Nat /\ f \in Failure
  BY DEF TypeInv, StoreInv, NoFailure, Failure
<1>2. UNCHANGED <<rows, changes, seq, outbox, snapshots, hints, client, check>>
  BY DEF CommitUnknown, store, world
<1>3. StoreInv' /\ seq' \in Nat /\ seq <= seq'
  BY <1>1, <1>2, StoreUnchanged
<1>4. Becomes(p, tx[p], save[p], "failed", req[p], todo[p], batch[p], f, reply[p])
  BY HandlerUnchanged DEF Becomes, CommitUnknown, store
<1>5. pc[p] # "idle"
  BY DEF CommitUnknown
<1> HIDE DEF f
<1>6. HandlerOK(seq', tx[p], save[p], "failed", req[p], todo[p], batch[p], f, reply[p])
  BY <1>1, <1>2, <1>5 DEF HandlerInv, HandlerOK, PCs
<1> QED
  BY <1>3, <1>4, <1>6, StepOfHandler

\* The statements of UpdatesAvailable touch no row and no handler.
CheckStep == \E d \in Checking : UpdatesAvailableDevice(d) \/ UpdatesAvailableChanges(d)

LEMMA CheckStepLeaves ==
  ASSUME CheckStep
  PROVE  UNCHANGED <<rows, changes, seq, outbox, snapshots, tx, save, pc, req, todo, batch,
                     failure, reply, hints, client>>
  BY DEF CheckStep, UpdatesAvailableDevice, UpdatesAvailableChanges, store, handler

LEMMA CheckStepType ==
  ASSUME TypeInv, CheckStep
  PROVE  TypeInv'
<1>1. PICK d \in Checking : UpdatesAvailableDevice(d) \/ UpdatesAvailableChanges(d)
  BY DEF CheckStep
<1>2. d \in Devices /\ d \in Keys
  BY OwnerAssumption DEF Keys
<1>3. UpdatesAvailableDevice(d) => rows[d].cursor \in Nat
  BY <1>2 DEF UpdatesAvailableDevice, TypeInv, StoreInv, TypedRow, DeviceRow
<1>4. check' \in [Devices -> Nat \cup {None}]
  BY <1>1, <1>2, <1>3 DEF UpdatesAvailableDevice, UpdatesAvailableChanges, TypeInv, StoreInv
<1>5. StoreInv'
  BY <1>4, CheckStepLeaves DEF TypeInv, StoreInv
<1>6. HandlerFunctions' /\ \A p \in Handlers : HandlerInv(p)'
  BY CheckStepLeaves DEF TypeInv, HandlerFunctions, HandlerInv
<1> QED
  BY <1>5, <1>6 DEF TypeInv

\* A device row exists while a page is read for it, because rows are never
\* removed.
DeviceInv == \A p \in Handlers : pc[p] = "page" => rows[req[p].device] # Absent

LEMMA NextCursorTyped ==
  ASSUME NEW start \in Nat, NEW s \in Nat, NEW page, page \subseteq Change,
         \A c \in page : c.seq <= s
  PROVE  /\ NextCursor(start, page) \in Nat /\ start <= NextCursor(start, page)
         /\ \A c \in page : c.seq <= NextCursor(start, page)
<1> DEFINE S == {start} \cup {c.seq : c \in page}
<1>1. S \subseteq Nat /\ S # {} /\ \A e \in S : e <= start + s
  BY DEF Change
<1>2. start \in S /\ \A c \in page : c.seq \in S
  OBVIOUS
<1>3. start + s \in Nat
  OBVIOUS
<1> HIDE DEF S
<1>4. Max(S) \in S /\ \A e \in S : e <= Max(S)
  BY <1>1, <1>3, MaxOfBounded
<1> QED
  BY <1>1, <1>2, <1>4 DEF NextCursor, S

LEMMA AdvancedCursorTyped ==
  ASSUME NEW old \in Nat, NEW new \in Nat
  PROVE  AdvancedCursor(old, new) \in Nat /\ old <= AdvancedCursor(old, new)
<1>1. {old, new} \subseteq Nat /\ {old, new} # {} /\ \A e \in {old, new} : e <= old + new
  OBVIOUS
<1>2. old + new \in Nat
  OBVIOUS
<1>3. Max({old, new}) \in {old, new} /\ \A e \in {old, new} : e <= Max({old, new})
  BY <1>1, <1>2, MaxOfBounded
<1> QED
  BY <1>3 DEF AdvancedCursor

LEMMA PullPageType ==
  ASSUME TypeInv, DeviceInv, NEW p \in Handlers, PullPage(p)
  PROVE  TypeInv'
<1> DEFINE d == req[p].device
           page == FirstBySequence(RemoteChanges(p, User(p), d, req[p].cursor), PullLimit)
           next == NextCursor(req[p].cursor, page)
           raced == {c.seq : c \in UNION {tx[q].pend : q \in Handlers}}
           a == [reply[p] EXCEPT !.page = page, !.next = next, !.raced = raced]
           row == [rows[d] EXCEPT !.cursor = AdvancedCursor(@, next)]
           t == Write(tx[p], d, row)
<1>1. HandlerInv(p) /\ StoreInv /\ pc[p] = "page" /\ seq \in Nat /\ rows[d] # Absent
  BY DEF PullPage, TypeInv, StoreInv, DeviceInv
<1>2. d \in Devices /\ req[p].cursor \in Nat /\ d \in Keys
  BY <1>1, CurrentRequest DEF Keys
<1>3. page \subseteq Change /\ \A c \in page : c.seq <= seq
  <2>1. VisibleChanges(p) \subseteq Change /\ \A c \in VisibleChanges(p) : c.seq <= seq
    BY <1>1 DEF StoreInv, HandlerInv, HandlerOK, TypedTx, TxState, VisibleChanges
  <2> QED
    BY <2>1 DEF FirstBySequence, RemoteChanges
<1> HIDE DEF page
<1>4. next \in Nat
  BY <1>1, <1>2, <1>3, NextCursorTyped
<1>5. raced \subseteq Nat
  <2>1. \A q \in Handlers : \A c \in tx[q].pend : c.seq \in Nat
    BY DEF TypeInv, HandlerInv, HandlerOK, TypedTx, TxState, Change
  <2> QED
    BY <2>1
<1> HIDE DEF next, raced
<1>6. reply[p] \in Reply /\ \A e \in reply[p].accepted : e.seq <= seq
  BY <1>1 DEF HandlerInv, HandlerOK
<1>7. a \in Reply /\ a.accepted = reply[p].accepted
  BY <1>3, <1>4, <1>5, <1>6 DEF Reply
<1>8. rows[d] \in DeviceRow
  BY <1>1, <1>2 DEF StoreInv, TypedRow
<1>9. row \in DeviceRow
  <2>1. AdvancedCursor(rows[d].cursor, next) \in Nat
    BY <1>4, <1>8, AdvancedCursorTyped DEF DeviceRow
  <2> QED
    BY <1>8, <2>1 DEF DeviceRow
<1> HIDE DEF row
<1>10. TypedRow(d, row)
  BY <1>2, <1>9, KeysAssumption DEF TypedRow
<1>11. TypedTx(t) /\ t.pend = tx[p].pend /\ \A e \in t.pend : e.seq <= seq
  <2>1. TypedTx(tx[p]) /\ \A e \in tx[p].pend : e.seq <= seq
    BY <1>1 DEF HandlerInv, HandlerOK
  <2> QED
    BY <1>2, <1>10, <2>1, WriteTyped
<1>12. UNCHANGED <<rows, changes, seq, outbox, snapshots, hints, client, check>>
  BY DEF PullPage, world
<1>13. StoreInv' /\ seq' \in Nat /\ seq <= seq'
  BY <1>1, <1>12, StoreUnchanged
<1>14. Becomes(p, t, save[p], "commit", req[p], todo[p], batch[p], failure[p], a)
  BY HandlerUnchanged DEF Becomes, PullPage, TypeInv, HandlerFunctions, page, next, raced, row
<1> HIDE DEF t, a
<1>15. HandlerOK(seq', t, save[p], "commit", req[p], todo[p], batch[p], failure[p], a)
  BY <1>1, <1>6, <1>7, <1>11, <1>12 DEF HandlerInv, HandlerOK, PCs
<1> QED
  BY <1>13, <1>14, <1>15, StepOfHandler

LEMMA RespondType ==
  ASSUME TypeInv, NEW p \in Handlers, Respond(p)
  PROVE  TypeInv'
<1> DEFINE d == req[p].device
           s == [cursor |-> reply[p].next, seen |-> client[d].seen \cup reply[p].page,
                 raced |-> client[d].raced \cup reply[p].raced]
<1>1. HandlerInv(p) /\ StoreInv /\ pc[p] = "respond" /\ client \in [Devices -> ClientState]
  BY DEF Respond, TypeInv, StoreInv
<1>2. d \in Devices /\ reply[p] \in Reply
  BY <1>1, CurrentRequest DEF HandlerInv, HandlerOK
<1>3. s \in ClientState
  BY <1>1, <1>2 DEF ClientState, Reply
<1>4. /\ client' = [client EXCEPT ![d] = s] \/ client' = client
      /\ UNCHANGED <<rows, changes, seq, outbox, snapshots, hints, check>>
      /\ UNCHANGED <<tx, save, req, todo, batch, failure, reply>>
      /\ pc' = [pc EXCEPT ![p] = "done"]
  BY <1>1, <1>2 DEF Respond, store
<1> HIDE DEF s
<1>5. StoreInv'
  BY <1>1, <1>2, <1>3, <1>4 DEF StoreInv
<1> QED
  BY <1>1, <1>4, <1>5, QuietStepOK DEF PCs

\* Registration and revocation touch one device row and no handler.
LEMMA DeviceStepType ==
  ASSUME TypeInv, NEW d \in Devices, NEW row \in DeviceRow,
         rows' = [rows EXCEPT ![d] = row],
         UNCHANGED <<changes, seq, outbox, snapshots, tx, save, handler, world>>
  PROVE  TypeInv'
<1>1. rows' \in [Keys -> Row \cup {Absent}] /\ \A k \in Keys : TypedRow(k, rows'[k])
  BY KeysAssumption DEF TypeInv, StoreInv, Row, TypedRow, Keys
<1>2. StoreInv'
  BY <1>1 DEF TypeInv, StoreInv, world
<1>3. HandlerFunctions' /\ \A p \in Handlers : HandlerInv(p)'
  BY DEF TypeInv, HandlerFunctions, HandlerInv, handler
<1> QED
  BY <1>2, <1>3 DEF TypeInv

LEMMA RegisterDeviceType ==
  ASSUME TypeInv, NEW d \in Devices, RegisterDevice(d)
  PROVE  TypeInv'
<1> DEFINE row == [owner |-> Owner[d], revoked |-> FALSE, cursor |-> 0]
<1>1. row \in DeviceRow
  BY OwnerAssumption DEF DeviceRow
<1>2. /\ rows' = [rows EXCEPT ![d] = row]
      /\ UNCHANGED <<changes, seq, outbox, snapshots, tx, save, handler, world>>
  BY DEF RegisterDevice
<1> HIDE DEF row
<1> QED
  BY <1>1, <1>2, DeviceStepType

LEMMA RevokeDeviceType ==
  ASSUME TypeInv, NEW d \in Devices, RevokeDevice(d)
  PROVE  TypeInv'
<1> DEFINE row == [rows[d] EXCEPT !.revoked = TRUE]
<1>1. rows[d] \in DeviceRow
  BY DEF TypeInv, StoreInv, TypedRow, Keys, RevokeDevice
<1>2. row \in DeviceRow
  BY <1>1 DEF DeviceRow
<1>3. /\ rows' = [rows EXCEPT ![d] = row]
      /\ UNCHANGED <<changes, seq, outbox, snapshots, tx, save, handler, world>>
  BY DEF RevokeDevice
<1> HIDE DEF row
<1> QED
  BY <1>2, <1>3, DeviceStepType

LEMMA InitType == Init => TypeInv /\ DeviceInv
<1>1. SUFFICES ASSUME Init PROVE TypeInv /\ DeviceInv
  OBVIOUS
<1>2. \A d \in Devices : [owner |-> Owner[d], revoked |-> FALSE, cursor |-> 0] \in DeviceRow
  BY OwnerAssumption DEF DeviceRow
<1>3. rows \in [Keys -> Row \cup {Absent}] /\ \A k \in Keys : TypedRow(k, rows[k])
  BY <1>1, <1>2, OwnerAssumption, KeysAssumption DEF Init, Row, TypedRow, Keys
<1>4. client \in [Devices -> ClientState]
  BY <1>1 DEF Init, ClientState
<1>5. StoreInv
  BY <1>1, <1>3, <1>4 DEF Init, StoreInv
<1>6. /\ NewBatch(NilNote) \in BatchState /\ NewBatch(NilNote).note = Absent
      /\ NewBatch(NilNote).cursor = 0
  BY DEF NewBatch, BatchState
<1>7. NoFailure \in Failure
  BY DEF NoFailure, Failure
<1>8. NoReply \in Reply /\ NoReply.accepted = {}
  BY DEF NoReply, Reply
<1>9. HandlerFunctions
  BY <1>1, <1>6, <1>7, <1>8, EmptyTxTyped DEF Init, HandlerFunctions, TypedTx, PCs
<1>10. ASSUME NEW p \in Handlers PROVE HandlerInv(p)
  <2>1. /\ tx[p] = EmptyTx /\ save[p] = EmptyTx /\ pc[p] = "idle" /\ req[p] = Absent
        /\ todo[p] = <<>> /\ batch[p] = NewBatch(NilNote) /\ failure[p] = NoFailure
        /\ reply[p] = NoReply /\ seq = 0
    BY <1>1 DEF Init
  <2>2. HandlerOK(0, EmptyTx, EmptyTx, "idle", Absent, <<>>, NewBatch(NilNote), NoFailure, NoReply)
    BY <1>6, <1>7, <1>8, EmptyTxTyped DEF HandlerOK, PCs
  <2> QED
    BY <2>1, <2>2 DEF HandlerInv
<1>11. DeviceInv
  BY <1>1 DEF Init, DeviceInv
<1> QED
  BY <1>5, <1>9, <1>10, <1>11 DEF TypeInv

LEMMA HandlerStepType ==
  ASSUME TypeInv, DeviceInv, NEW p \in Handlers, HandlerStep(p)
  PROVE  TypeInv'
<1>1. CASE LockDevice(p) \/ FindProcessed(p) \/ RetryOp(p) \/ RejectMalformed(p) \/ RejectExisting(p)
  BY <1>1, LockDeviceType, FindProcessedType, RetryOpType, RejectMalformedType, RejectExistingType
<1>2. CASE CreateNote(p) \/ DeleteNote(p) \/ DeleteNoteLookup(p) \/ ModifyNoteProperty(p) \/ ModifyNoteTitle(p)
  BY <1>2, CreateNoteType, DeleteNoteType, DeleteNoteLookupType, ModifyNotePropertyType, ModifyNoteTitleType
<1>3. CASE CreateBlock(p) \/ DeleteBlock(p) \/ ModifyBlock(p)
  BY <1>3, CreateBlockType, DeleteBlockType, ModifyBlockType
<1>4. CASE CreateCategory(p) \/ RejectCategory(p) \/ DeleteCategory(p) \/ ModifyCategory(p)
  BY <1>4, CreateCategoryType, RejectCategoryType, DeleteCategoryType, ModifyCategoryType
<1>5. CASE FlushBatch(p) \/ RejectBatch(p) \/ Commit(p) \/ Publish(p) \/ PullPage(p) \/ Respond(p)
  BY <1>5, FlushBatchType, RejectBatchType, CommitType, PublishType, PullPageType, RespondType
<1> QED
  BY <1>1, <1>2, <1>3, <1>4, <1>5 DEF HandlerStep

LEMMA NextType ==
  ASSUME TypeInv, DeviceInv, [Next]_vars
  PROVE  TypeInv'
<1>1. CASE \E p \in Handlers : \E r \in Requests : Receive(p, r)
  BY <1>1, ReceiveType
<1>2. CASE \E p \in Handlers : HandlerStep(p)
  BY <1>2, HandlerStepType
<1>3. CASE \E p \in Handlers : Abort(p) \/ CommitUnknown(p)
  BY <1>3, AbortType, CommitUnknownType
<1>4. CASE \E d \in Devices : RegisterDevice(d)
  BY <1>4, RegisterDeviceType
<1>5. CASE \E d \in Revocable : RevokeDevice(d)
  BY <1>5, OwnerAssumption, RevokeDeviceType
<1>6. CASE UNCHANGED vars
  <2>1. HandlerFunctions'
    BY <1>6 DEF vars, TypeInv, HandlerFunctions
  <2>2. StoreInv'
    BY <1>6 DEF vars, TypeInv, StoreInv
  <2>3. \A p \in Handlers : HandlerInv(p)'
    BY <1>6 DEF vars, TypeInv, HandlerInv
  <2> QED
    BY <2>1, <2>2, <2>3 DEF TypeInv
<1>7. CASE CheckStep
  BY <1>7, CheckStepType
<1> QED
  BY <1>1, <1>2, <1>3, <1>4, <1>5, <1>6, <1>7 DEF Next, CheckStep

-----------------------------------------------------------------------------
(* Device rows. *)

\* No step removes a row: there is no DELETE in the queries of the sync service.
LEMMA RowsStay ==
  ASSUME TypeInv, [Next]_vars, NEW k \in Keys, rows[k] # Absent
  PROVE  rows'[k] # Absent
<1>1. CASE UNCHANGED rows
  BY <1>1
<1>2. CASE \E p \in Handlers : rows' = [j \in Keys |-> Visible(p, j)]
  BY <1>2 DEF Visible
<1>3. CASE \E d \in Devices : RegisterDevice(d)
  <2>1. PICK d \in Devices : RegisterDevice(d)
    BY <1>3
  <2>2. k # d
    BY <2>1 DEF RegisterDevice
  <2> QED
    BY <2>1, <2>2 DEF RegisterDevice, TypeInv, StoreInv
<1>4. CASE \E d \in Revocable : RevokeDevice(d)
  <2>1. PICK d \in Revocable : RevokeDevice(d)
    BY <1>4
  <2> DEFINE row == [rows[d] EXCEPT !.revoked = TRUE]
  <2>2. d \in Keys /\ rows[d] \in DeviceRow
    BY <2>1, OwnerAssumption DEF RevokeDevice, TypeInv, StoreInv, TypedRow, Keys
  <2>3. row \in DeviceRow
    BY <2>2 DEF DeviceRow
  <2>4. row # Absent
    BY <2>3, AbsentAssumption DEF Row
  <2>5. rows' = [rows EXCEPT ![d] = row]
    BY <2>1 DEF RevokeDevice
  <2> HIDE DEF row
  <2> QED
    BY <2>2, <2>4, <2>5 DEF TypeInv, StoreInv
<1>5. ASSUME NEW p \in Handlers, HandlerStep(p) PROVE UNCHANGED rows \/ rows' = [j \in Keys |-> Visible(p, j)]
  <2>1. CASE Commit(p)
    BY <2>1 DEF Commit, CommitTx
  <2>2. CASE \/ LockDevice(p) \/ FindProcessed(p) \/ RetryOp(p) \/ RejectMalformed(p) \/ RejectExisting(p)
             \/ FlushBatch(p) \/ RejectBatch(p) \/ Publish(p) \/ PullPage(p) \/ Respond(p)
    BY <2>2 DEF LockDevice, FindProcessed, RetryOp, RejectMalformed, RejectExisting, FlushBatch,
                RejectBatch, Publish, PullPage, Respond, RejectOp, RollbackToSavepoint, FailRequest,
                RollbackTx, store
  <2>3. CASE CreateNote(p) \/ DeleteNote(p) \/ DeleteNoteLookup(p) \/ ModifyNoteProperty(p) \/ ModifyNoteTitle(p)
    BY <2>3 DEF CreateNote, DeleteNote, DeleteNoteLookup, ModifyNoteProperty, ModifyNoteTitle,
                AcceptEdit, AcceptOp, RejectOp, RollbackToSavepoint, store
  <2>4. CASE CreateBlock(p) \/ DeleteBlock(p) \/ ModifyBlock(p)
    BY <2>4 DEF CreateBlock, DeleteBlock, ModifyBlock, AcceptOp, RejectOp, RollbackToSavepoint
  <2>5. CASE CreateCategory(p) \/ RejectCategory(p) \/ DeleteCategory(p) \/ ModifyCategory(p)
    <3>1. CASE CreateCategory(p)
      BY <3>1 DEF CreateCategory, AcceptOp, FailRequest, RollbackTx
    <3>2. CASE RejectCategory(p) \/ DeleteCategory(p)
      BY <3>2 DEF RejectCategory, DeleteCategory, AcceptOp, RejectOp, RollbackToSavepoint
    <3>3. CASE ModifyCategory(p)
      <4> DEFINE t == Write(tx[p], Op(p).key, [Visible(p, Op(p).key) EXCEPT !.name = Op(p).name])
      <4>1. FailRequest(p, "unique_violation") \/ AcceptOp(p, t, batch[p], 0, 0)
        BY <3>3 DEF ModifyCategory
      <4> HIDE DEF t
      <4> QED
        BY <4>1 DEF AcceptOp, FailRequest, RollbackTx
    <3> QED
      BY <2>5, <3>1, <3>2, <3>3
  <2> QED
    BY <1>5, <2>1, <2>2, <2>3, <2>4, <2>5 DEF HandlerStep
<1>6. ASSUME NEW p \in Handlers, Abort(p) \/ CommitUnknown(p) \/ \E r \in Requests : Receive(p, r)
      PROVE UNCHANGED rows
  BY <1>6 DEF Abort, FailRequest, RollbackTx, CommitUnknown, Receive, store
<1>7. CASE CheckStep \/ UNCHANGED vars
  BY <1>1, <1>7, CheckStepLeaves DEF vars
<1> QED
  BY <1>1, <1>2, <1>3, <1>4, <1>5, <1>6, <1>7 DEF Next, CheckStep

\* Only LockDevice moves a handler to "page".
LEMMA PageFromLock ==
  ASSUME TypeInv, NEW p \in Handlers, HandlerStep(p), ~LockDevice(p)
  PROVE  req' = req /\ \A q \in Handlers : pc'[q] = "page" => pc[q] = "page"
<1>1. pc \in [Handlers -> PCs]
  BY DEF TypeInv, HandlerFunctions
<1>2. CASE FindProcessed(p) \/ RetryOp(p)
  BY <1>1, <1>2 DEF FindProcessed, RetryOp, Advance
<1>3. CASE RejectMalformed(p) \/ RejectExisting(p) \/ DeleteNoteLookup(p) \/ RejectCategory(p)
  BY <1>1, <1>3 DEF RejectMalformed, RejectExisting, DeleteNoteLookup, RejectCategory, RejectOp
<1>4. CASE CreateNote(p) \/ DeleteNote(p)
  BY <1>1, <1>4 DEF CreateNote, DeleteNote, AcceptOp, Advance, RejectOp
<1>5. CASE ModifyNoteProperty(p) \/ ModifyNoteTitle(p)
  BY <1>1, <1>5 DEF ModifyNoteProperty, ModifyNoteTitle, AcceptEdit, AcceptOp, Advance, RejectOp
<1>6. CASE CreateBlock(p) \/ DeleteBlock(p) \/ ModifyBlock(p)
  BY <1>1, <1>6 DEF CreateBlock, DeleteBlock, ModifyBlock, AcceptOp, Advance, RejectOp
<1>7. CASE CreateCategory(p) \/ DeleteCategory(p)
  BY <1>1, <1>7 DEF CreateCategory, DeleteCategory, AcceptOp, Advance, FailRequest
<1>8. CASE ModifyCategory(p)
  <2> DEFINE t == Write(tx[p], Op(p).key, [Visible(p, Op(p).key) EXCEPT !.name = Op(p).name])
  <2>1. FailRequest(p, "unique_violation") \/ AcceptOp(p, t, batch[p], 0, 0)
    BY <1>8 DEF ModifyCategory
  <2> HIDE DEF t
  <2> QED
    BY <1>1, <2>1 DEF AcceptOp, Advance, FailRequest
<1>9. CASE FlushBatch(p) \/ RejectBatch(p)
  BY <1>1, <1>9 DEF FlushBatch, RejectBatch, NextBatch
<1>10. CASE Commit(p) \/ Publish(p) \/ PullPage(p) \/ Respond(p)
  BY <1>1, <1>10 DEF Commit, Publish, PullPage, Respond
<1> QED
  BY <1>2, <1>3, <1>4, <1>5, <1>6, <1>7, <1>8, <1>9, <1>10 DEF HandlerStep

LEMMA DeviceInvStep ==
  ASSUME TypeInv, DeviceInv, [Next]_vars
  PROVE  DeviceInv'
<1>1. SUFFICES ASSUME NEW q \in Handlers, pc'[q] = "page"
               PROVE  rows'[req'[q].device] # Absent
  BY DEF DeviceInv
<1>2. pc[q] # "idle" => req[q].device \in Keys
  BY CurrentRequest DEF Keys
<1>3. CASE pc[q] = "page" /\ req'[q] = req[q]
  BY <1>2, <1>3, RowsStay DEF DeviceInv
<1>4. pc \in [Handlers -> PCs] /\ req \in [Handlers -> Request \cup {Absent}]
  BY DEF TypeInv, HandlerFunctions
<1>5. CASE \E p \in Handlers : HandlerStep(p)
  <2>1. PICK p \in Handlers : HandlerStep(p)
    BY <1>5
  <2>2. CASE ~LockDevice(p)
    BY <1>1, <1>3, <1>4, <2>1, <2>2, PageFromLock
  <2>3. CASE LockDevice(p)
    <3>1. req' = req
      BY <2>3 DEF LockDevice, FailRequest
    <3>2. CASE q # p
      <4>1. \E c : pc' = [pc EXCEPT ![p] = c]
        BY <2>3 DEF LockDevice, FailRequest, NextBatch
      <4> QED
        BY <1>1, <1>3, <1>4, <3>1, <3>2, <4>1
    <3>3. CASE q = p
      <4>1. pc[q] = "lock"
        BY <2>3, <3>3 DEF LockDevice
      <4>2. ASSUME NEW reason PROVE ~FailRequest(p, reason)
        BY <1>1, <1>4, <3>3 DEF FailRequest
      <4>3. rows[req[q].device] # Absent
        BY <2>3, <3>3, <4>2 DEF LockDevice, OwnedBy
      <4> QED
        BY <1>2, <3>1, <4>1, <4>3, RowsStay
    <3> QED
      BY <3>2, <3>3
  <2> QED
    BY <2>2, <2>3
<1>6. CASE \E p \in Handlers : \E r \in Requests : Receive(p, r)
  <2>1. PICK p \in Handlers, r \in Requests : Receive(p, r)
    BY <1>6
  <2>2. \E c \in {"lock", "failed"} : pc' = [pc EXCEPT ![p] = c]
    BY <2>1 DEF Receive
  <2>3. q # p
    BY <1>1, <1>4, <2>2
  <2>4. pc[q] = "page" /\ req'[q] = req[q]
    BY <1>1, <1>4, <2>1, <2>2, <2>3 DEF Receive
  <2> QED
    BY <1>3, <2>4
<1>7. CASE \E p \in Handlers : Abort(p) \/ CommitUnknown(p)
  BY <1>1, <1>3, <1>4, <1>7 DEF Abort, FailRequest, CommitUnknown
<1>8. CASE (\E d \in Devices : RegisterDevice(d)) \/ (\E d \in Revocable : RevokeDevice(d))
  BY <1>1, <1>3, <1>8 DEF RegisterDevice, RevokeDevice, handler
<1>9. CASE CheckStep \/ UNCHANGED vars
  BY <1>1, <1>3, <1>9, CheckStepLeaves DEF vars
<1> QED
  BY <1>5, <1>6, <1>7, <1>8, <1>9 DEF Next, CheckStep

\* Every reachable state of the sync service is well typed, whatever the number
\* of handlers, devices, notes and requests: no handler ever reads a field of a
\* row that is not there (existingNote, UpdateDeviceCursor, rejectedBatchDTO).
THEOREM TypeCorrect == Spec => []TypeOK
<1>1. Init => TypeInv /\ DeviceInv
  BY InitType
<1>2. TypeInv /\ DeviceInv /\ [Next]_vars => (TypeInv /\ DeviceInv)'
  BY NextType, DeviceInvStep
<1>3. TypeInv => TypeOK
  BY TypeInvImpliesTypeOK
<1> QED
  BY <1>1, <1>2, <1>3, PTL DEF Spec

-----------------------------------------------------------------------------
(* The version chain of a note. *)

\* The version of a row, and the version a batch of operations starts from.
Version(row) == IF row = Absent THEN 0 ELSE row.version

\* Row and log of note n as a transaction t over the tables R and C sees them.
NoteView(R, t, n) == IF t.ws[n] # Absent THEN t.ws[n] ELSE R[n]
NoteHistory(C, t, n) == {c \in C \cup t.pend : c.note = n}

\* A log that took a note to version w: gapless, one request per version, and
\* sequences in version order.
GoodLog(L, w) ==
  /\ \A c \in L : c.result \in 1 .. w /\ c.result = c.base + 1
  /\ \A i \in 1 .. w : \E c \in L : c.result = i
  /\ \A c, d \in L : c.base = d.base => c.by = d.by
  /\ \A c, d \in L : c.seq < d.seq => c.result <= d.result

\* What goes beyond version v was logged by p.
TopOwned(L, v, p) == \A c \in L : c.result > v => c.by = p

\* What p's transaction t has made of note n: e is 1 while a batch has logged
\* operations and not yet written the version they lead to.
TxChain(p, R, C, t, n, e) ==
  LET L == NoteHistory(C, t, n)
      v == Version(NoteView(R, t, n))
  IN GoodLog(L, v + e) /\ TopOwned(L, v, p)

\* A transaction writes and logs only notes it has locked.
TxLocks(t) ==
  /\ \A n \in Notes : t.ws[n] # Absent => n \in t.held
  /\ \A c \in t.pend : c.note \in Notes => c.note \in t.held

\* The handler is inside a note batch: its savepoint is in use.
InBatch == {"find", "apply", "lookup", "flush"}

Extra(c, b, n) == IF c \in InBatch /\ b.changed /\ b.id = n THEN 1 ELSE 0

HandlerChain(p, R, C, t, sv, c, b) ==
  /\ TxLocks(t)
  /\ \A n \in Notes : n \in t.held => TxChain(p, R, C, t, n, Extra(c, b, n))
  /\ c \in InBatch =>
       /\ TxLocks(sv)
       /\ \A n \in Notes : n \in sv.held => n \in t.held /\ TxChain(p, R, C, sv, n, 0)
       /\ b.note # Absent =>
            /\ b.loaded /\ b.id \in t.held /\ NoteView(R, t, b.id) # Absent
            /\ b.note.version = NoteView(R, t, b.id).version
       /\ b.changed /\ b.id \in Notes => b.note # Absent

\* No note is locked twice.
Exclusive ==
  \A p, q \in Handlers : p # q => \A n \in Notes : n \notin tx[p].held \/ n \notin tx[q].held

CommittedChain == \A n \in Notes : GoodLog({c \in changes : c.note = n}, Version(rows[n]))

ChainInv ==
  /\ Exclusive
  /\ CommittedChain
  /\ \A p \in Handlers : HandlerChain(p, rows, changes, tx[p], save[p], pc[p], batch[p])

-----------------------------------------------------------------------------
(* Logs. *)

LEMMA VersionTyped ==
  ASSUME NEW row \in NoteRow \cup {Absent}
  PROVE  Version(row) \in Nat
  BY DEF Version, NoteRow

\* Logging one more operation on top of version v.
LEMMA GoodLogExtend ==
  ASSUME NEW v \in Nat, NEW e \in {0, 1}, NEW p, NEW L, L \subseteq Change, NEW x \in Change,
         x.base = v, x.result = v + 1, x.by = p, \A c \in L : c.seq < x.seq,
         GoodLog(L, v + e), TopOwned(L, v, p)
  PROVE  GoodLog(L \cup {x}, v + 1) /\ TopOwned(L \cup {x}, v, p)
<1>1. /\ \A c \in L \cup {x} : c.base \in Nat /\ c.result \in Nat /\ c.seq \in Nat
  BY DEF Change
<1>2. /\ \A c \in L : c.result \in 1 .. v + e /\ c.result = c.base + 1
      /\ \A i \in 1 .. v + e : \E c \in L : c.result = i
      /\ \A c, d \in L : c.base = d.base => c.by = d.by
      /\ \A c, d \in L : c.seq < d.seq => c.result <= d.result
  BY DEF GoodLog
<1>3. \A c \in L \cup {x} : c.result \in 1 .. v + 1 /\ c.result = c.base + 1
  BY <1>1, <1>2
<1>4. \A i \in 1 .. v + 1 : \E c \in L \cup {x} : c.result = i
  <2>1. SUFFICES ASSUME NEW i \in 1 .. v + 1 PROVE \E c \in L \cup {x} : c.result = i
    OBVIOUS
  <2>2. CASE i = v + 1
    BY <2>2
  <2>3. CASE i # v + 1
    <3>1. i \in 1 .. v + e
      BY <2>3
    <3> QED
      BY <1>2, <3>1
  <2> QED
    BY <2>2, <2>3
<1>5. ASSUME NEW c \in L \cup {x}, NEW d \in L \cup {x}, c.base = d.base PROVE c.by = d.by
  <2>1. CASE c \in L /\ d \in L
    BY <1>2, <1>5, <2>1
  <2>2. CASE c \in L /\ d = x
    BY <1>1, <1>2, <1>5, <2>2 DEF TopOwned
  <2>3. CASE c = x /\ d \in L
    BY <1>1, <1>2, <1>5, <2>3 DEF TopOwned
  <2> QED
    BY <2>1, <2>2, <2>3
<1>6. ASSUME NEW c \in L \cup {x}, NEW d \in L \cup {x}, c.seq < d.seq PROVE c.result <= d.result
  <2>1. CASE c \in L /\ d \in L
    BY <1>2, <1>6, <2>1
  <2>2. CASE d = x
    BY <1>1, <1>3, <2>2
  <2>3. CASE c = x /\ d \in L
    BY <1>1, <1>6, <2>3
  <2> QED
    BY <2>1, <2>2, <2>3
<1>7. TopOwned(L \cup {x}, v, p)
  BY DEF TopOwned
<1> QED
  BY <1>3, <1>4, <1>5, <1>6, <1>7 DEF GoodLog

\* The facts about types that the proofs below use.
LEMMA ChainTypes ==
  ASSUME TypeInv, NEW p \in Handlers
  PROVE  /\ tx[p] \in TxState /\ save[p] \in TxState /\ batch[p] \in BatchState
         /\ changes \subseteq Change /\ tx[p].pend \subseteq Change /\ seq \in Nat
         /\ \A c \in changes \cup tx[p].pend : c.seq \in Nat /\ c.seq <= seq
         /\ \A n \in Notes : rows[n] \in NoteRow \cup {Absent} /\ Visible(p, n) \in NoteRow \cup {Absent}
         /\ batch[p].id = NilNote => batch[p].note = Absent
         /\ tx \in [Handlers -> TxState] /\ save \in [Handlers -> TxState]
         /\ pc \in [Handlers -> PCs] /\ batch \in [Handlers -> BatchState]
<1>1. HandlerInv(p) /\ HandlerFunctions /\ StoreInv
  BY DEF TypeInv
<1>2. \A n \in Notes : Visible(p, n) \in NoteRow \cup {Absent}
  BY VisibleTyped DEF TypedRow, Keys
<1>3. \A n \in Notes : rows[n] \in NoteRow \cup {Absent}
  BY <1>1 DEF StoreInv, TypedRow, Keys
<1>4. \A c \in Change : c.seq \in Nat
  BY DEF Change
<1>5. tx[p].pend \subseteq Change /\ \A c \in tx[p].pend : c.seq <= seq
  BY <1>1 DEF HandlerInv, HandlerOK, TypedTx, TxState
<1>6. changes \subseteq Change /\ seq \in Nat /\ \A c \in changes : c.seq <= seq
  BY <1>1 DEF StoreInv
<1>7. /\ tx[p] \in TxState /\ save[p] \in TxState /\ batch[p] \in BatchState
      /\ batch[p].id = NilNote => batch[p].note = Absent
  BY <1>1 DEF HandlerInv, HandlerOK, TypedTx
<1> QED
  BY <1>1, <1>2, <1>3, <1>4, <1>5, <1>6, <1>7 DEF HandlerFunctions

\* The chain as handler p sees it, whether it has locked the note or not.
LEMMA ViewChain ==
  ASSUME TypeInv, ChainInv, NEW p \in Handlers, NEW n \in Notes
  PROVE  TxChain(p, rows, changes, tx[p], n, Extra(pc[p], batch[p], n))
<1>1. HandlerChain(p, rows, changes, tx[p], save[p], pc[p], batch[p]) /\ CommittedChain
  BY DEF ChainInv
<1>2. CASE n \in tx[p].held
  BY <1>1, <1>2 DEF HandlerChain
<1>3. CASE n \notin tx[p].held
  <2>1. tx[p].ws[n] = Absent /\ \A c \in tx[p].pend : c.note # n
    BY <1>1, <1>3 DEF HandlerChain, TxLocks
  <2>2. NoteView(rows, tx[p], n) = rows[n]
    BY <2>1 DEF NoteView
  <2>3. NoteHistory(changes, tx[p], n) = {c \in changes : c.note = n}
    BY <2>1 DEF NoteHistory
  <2>4. Extra(pc[p], batch[p], n) = 0
    BY <1>1, <1>3 DEF HandlerChain, Extra
  <2>5. Version(rows[n]) \in Nat
    BY ChainTypes, VersionTyped
  <2> DEFINE L == {c \in changes : c.note = n}
             v == Version(rows[n])
  <2>6. GoodLog(L, v)
    BY <1>1 DEF CommittedChain
  <2>7. \A c \in L : ~(c.result > v)
    BY <2>5, <2>6 DEF GoodLog
  <2>8. v + 0 = v
    BY <2>5
  <2> HIDE DEF L, v
  <2> QED
    BY <2>2, <2>3, <2>4, <2>6, <2>7, <2>8 DEF TxChain, TopOwned, L, v
<1> QED
  BY <1>2, <1>3

-----------------------------------------------------------------------------
(* Steps of one handler inside its transaction. *)

\* Handler p changes, and it to the given values; nothing is committed.
Moves(p, t, sv, c, b) ==
  /\ tx' = [tx EXCEPT ![p] = t] /\ save' = [save EXCEPT ![p] = sv]
  /\ pc' = [pc EXCEPT ![p] = c] /\ batch' = [batch EXCEPT ![p] = b]
  /\ rows' = rows /\ changes' = changes

LEMMA MovesUnchanged ==
  ASSUME TypeInv, NEW p \in Handlers
  PROVE  /\ tx = [tx EXCEPT ![p] = tx[p]] /\ save = [save EXCEPT ![p] = save[p]]
         /\ pc = [pc EXCEPT ![p] = pc[p]] /\ batch = [batch EXCEPT ![p] = batch[p]]
  BY HandlerUnchanged

\* Such a step preserves the invariant if the locks it takes are free and what
\* it makes of the handler is a chain again.
LEMMA ChainStep ==
  ASSUME TypeInv, ChainInv, NEW p \in Handlers, NEW t, NEW sv, NEW c, NEW b,
         Moves(p, t, sv, c, b),
         \A n \in Notes : n \in t.held => n \in tx[p].held \/ Free(p, n),
         HandlerChain(p, rows, changes, t, sv, c, b)
  PROVE  ChainInv'
<1>1. /\ tx \in [Handlers -> TxState] /\ save \in [Handlers -> TxState]
      /\ pc \in [Handlers -> PCs] /\ batch \in [Handlers -> BatchState]
  BY ChainTypes
<1>2. /\ tx'[p] = t /\ save'[p] = sv /\ pc'[p] = c /\ batch'[p] = b
      /\ \A q \in Handlers \ {p} :
           tx'[q] = tx[q] /\ save'[q] = save[q] /\ pc'[q] = pc[q] /\ batch'[q] = batch[q]
  BY <1>1 DEF Moves
<1>3. rows' = rows /\ changes' = changes
  BY DEF Moves
<1>4. Exclusive'
  <2>1. SUFFICES ASSUME NEW q \in Handlers, NEW r \in Handlers, q # r, NEW n \in Notes,
                        n \in tx'[q].held, n \in tx'[r].held
                 PROVE  FALSE
    BY DEF Exclusive
  <2>2. \A s \in Handlers : n \in tx'[s].held => n \in tx[s].held \/ (s = p /\ Free(p, n))
    BY <1>2
  <2>3. n \notin tx[q].held \/ n \notin tx[r].held
    BY <2>1 DEF ChainInv, Exclusive
  <2>4. CASE q = p
    BY <1>2, <2>1, <2>2, <2>3, <2>4 DEF Free
  <2>5. CASE r = p
    BY <1>2, <2>1, <2>2, <2>3, <2>5 DEF Free
  <2>6. CASE q # p /\ r # p
    BY <1>2, <2>1, <2>3, <2>6
  <2> QED
    BY <2>4, <2>5, <2>6
<1>5. CommittedChain'
  BY <1>3 DEF ChainInv, CommittedChain
<1>6. ASSUME NEW q \in Handlers
      PROVE  HandlerChain(q, rows', changes', tx'[q], save'[q], pc'[q], batch'[q])
  <2>1. CASE q = p
    BY <1>2, <1>3, <2>1
  <2>2. CASE q # p
    BY <1>2, <1>3, <2>2 DEF ChainInv
  <2> QED
    BY <2>1, <2>2
<1> QED
  BY <1>4, <1>5, <1>6 DEF ChainInv

\* Steps that touch neither notes nor the batch: program counter, device locks.
LEMMA OutsideBatch ==
  ASSUME TypeInv, ChainInv, NEW p \in Handlers, NEW t \in TxState, NEW c,
         pc[p] \notin InBatch, c \notin InBatch, Moves(p, t, save[p], c, batch[p]),
         t.pend = tx[p].pend,
         \A n \in Notes : t.ws[n] = tx[p].ws[n] /\ (n \in t.held <=> n \in tx[p].held)
  PROVE  ChainInv'
<1>1. HandlerChain(p, rows, changes, tx[p], save[p], pc[p], batch[p])
  BY DEF ChainInv
<1>2. TxLocks(t)
  BY <1>1 DEF HandlerChain, TxLocks
<1>3. \A n \in Notes : /\ NoteView(rows, t, n) = NoteView(rows, tx[p], n)
                       /\ NoteHistory(changes, t, n) = NoteHistory(changes, tx[p], n)
                       /\ Extra(c, batch[p], n) = Extra(pc[p], batch[p], n)
  BY DEF NoteView, NoteHistory, Extra
<1>4. \A n \in Notes : n \in t.held => TxChain(p, rows, changes, t, n, Extra(c, batch[p], n))
  BY <1>1, <1>3 DEF HandlerChain, TxChain
<1>5. HandlerChain(p, rows, changes, t, save[p], c, batch[p])
  BY <1>2, <1>4 DEF HandlerChain
<1> QED
  BY <1>5, ChainStep

\* Steps between two operations of a batch.
LEMMA WithinBatch ==
  ASSUME TypeInv, ChainInv, NEW p \in Handlers, NEW c \in InBatch,
         pc[p] \in InBatch, Moves(p, tx[p], save[p], c, batch[p])
  PROVE  ChainInv'
<1>1. HandlerChain(p, rows, changes, tx[p], save[p], pc[p], batch[p])
  BY DEF ChainInv
<1>2. \A n \in Notes : Extra(c, batch[p], n) = Extra(pc[p], batch[p], n)
  BY DEF Extra
<1>3. HandlerChain(p, rows, changes, tx[p], save[p], c, batch[p])
  BY <1>1, <1>2 DEF HandlerChain
<1> QED
  BY <1>3, ChainStep

\* A request that fails gives all its locks back.
LEMMA FailRequestChain ==
  ASSUME TypeInv, ChainInv, NEW p \in Handlers, NEW reason, FailRequest(p, reason)
  PROVE  ChainInv'
<1>1. Moves(p, EmptyTx, save[p], "failed", batch[p])
  BY MovesUnchanged DEF Moves, FailRequest, RollbackTx
<1>2. EmptyTx.held = {} /\ EmptyTx.pend = {} /\ \A n \in Notes : EmptyTx.ws[n] = Absent
  BY DEF EmptyTx, Keys
<1>3. HandlerChain(p, rows, changes, EmptyTx, save[p], "failed", batch[p])
  BY <1>2 DEF HandlerChain, TxLocks, InBatch
<1> QED
  BY <1>1, <1>2, <1>3, ChainStep

\* A rejected operation goes back to the savepoint of its batch.
LEMMA RejectOpChain ==
  ASSUME TypeInv, ChainInv, NEW p \in Handlers, pc[p] \in InBatch,
         NEW reason, NEW version, RejectOp(p, reason, version)
  PROVE  ChainInv'
<1>1. Moves(p, save[p], save[p], "rejected", batch[p])
  BY MovesUnchanged DEF Moves, RejectOp, RollbackToSavepoint
<1>2. HandlerChain(p, rows, changes, tx[p], save[p], pc[p], batch[p])
  BY DEF ChainInv
<1>3. \A n \in Notes : Extra("rejected", batch[p], n) = 0
  BY DEF Extra, InBatch
<1>4. HandlerChain(p, rows, changes, save[p], save[p], "rejected", batch[p])
  BY <1>2, <1>3 DEF HandlerChain, InBatch
<1>5. \A n \in Notes : n \in save[p].held => n \in tx[p].held
  BY <1>2 DEF HandlerChain
<1> QED
  BY <1>1, <1>4, <1>5, ChainStep

\* A savepoint is opened on a transaction t without a batch under way.
LEMMA NextBatchChain ==
  ASSUME TypeInv, ChainInv, NEW p \in Handlers, NEW t \in TxState, NEW ops,
         tx' = [tx EXCEPT ![p] = t], NextBatch(p, ops), UNCHANGED <<rows, changes>>,
         \A n \in Notes : n \in t.held => n \in tx[p].held \/ Free(p, n),
         TxLocks(t), \A n \in Notes : n \in t.held => TxChain(p, rows, changes, t, n, 0)
  PROVE  ChainInv'
<1> DEFINE b == NewBatch(IF ops = <<>> THEN NilNote ELSE Head(ops).note)
           c == IF ops = <<>> THEN "commit" ELSE "find"
<1>1. tx'[p] = t
  BY ChainTypes
<1>2. Moves(p, t, t, c, b)
  BY <1>1 DEF Moves, NextBatch
<1>3. b.note = Absent /\ b.changed = FALSE
  BY DEF NewBatch
<1> HIDE DEF b, c
<1>4. \A n \in Notes : Extra(c, b, n) = 0
  BY <1>3 DEF Extra
<1>5. HandlerChain(p, rows, changes, t, t, c, b)
  BY <1>3, <1>4 DEF HandlerChain
<1> QED
  BY <1>2, <1>5, ChainStep

\* What AcceptOp makes of a transaction and of a batch.
Logged(t, x) == [t EXCEPT !.pend = @ \cup {x}]
Marked(b, x) == [b EXCEPT !.changed = TRUE, !.cursor = x.seq]

LEMMA AcceptOpMoves ==
  ASSUME TypeInv, NEW p \in Handlers, pc[p] = "apply", NEW t, NEW b, NEW base, NEW result,
         AcceptOp(p, t, b, base, result)
  PROVE  \E k \in {"find", "flush"} :
           Moves(p, Logged(t, NewChange(p, Op(p), base, result)), save[p], k,
                 Marked(b, NewChange(p, Op(p), base, result)))
<1> DEFINE x == NewChange(p, Op(p), base, result)
<1>1. /\ tx' = [tx EXCEPT ![p] = Logged(t, x)] /\ batch' = [batch EXCEPT ![p] = Marked(b, x)]
      /\ Advance(p) /\ UNCHANGED <<rows, changes, save>>
  BY DEF AcceptOp, Logged, Marked
<1>2. PICK k \in {"find", "flush"} : pc' = [pc EXCEPT ![p] = k]
  BY <1>1, AdvanceOK
<1> HIDE DEF x
<1>3. Moves(p, Logged(t, x), save[p], k, Marked(b, x))
  BY <1>1, <1>2, MovesUnchanged DEF Moves
<1> QED
  BY <1>3 DEF x

\* An accepted operation of note n: the operation is logged on top of the
\* version that the transaction sees, which must be the one it was based on.
LEMMA AcceptNoteChain ==
  ASSUME TypeInv, ChainInv, NEW p \in Handlers, pc[p] = "apply", NEW n \in Notes,
         Op(p).note = n, batch[p].id = n, n \in tx[p].held \/ Free(p, n),
         NEW t \in TxState, t.pend = tx[p].pend,
         \A m \in Notes : m # n => t.ws[m] = tx[p].ws[m],
         \A m \in Notes : m \in t.held <=> m \in tx[p].held \/ m = n,
         NEW b \in BatchState, b.id = n, b.loaded = TRUE, b.note # Absent,
         NEW base \in Nat, base = Version(Visible(p, n)), b.note.version = base,
         NoteView(rows, t, n) # Absent, NoteView(rows, t, n).version = base,
         AcceptOp(p, t, b, base, base + 1)
  PROVE  ChainInv'
<1> DEFINE x == NewChange(p, Op(p), base, base + 1)
           u == Logged(t, x)
           e == Marked(b, x)
<1>1. HandlerChain(p, rows, changes, tx[p], save[p], pc[p], batch[p]) /\ pc[p] \in InBatch
  BY DEF ChainInv, InBatch
<1>2. PICK k \in {"find", "flush"} : Moves(p, u, save[p], k, e)
  BY AcceptOpMoves
<1>3. /\ x \in Change /\ x.seq = seq + 1 /\ x.note = n
      /\ x.base = base /\ x.result = base + 1 /\ x.by = p
  BY CurrentRequest, ChainTypes DEF NewChange, Change
<1> HIDE DEF x
<1>4. u.ws = t.ws /\ u.held = t.held /\ u.pend = tx[p].pend \cup {x}
  BY DEF TxState, Logged
<1>5. e.id = n /\ e.loaded = TRUE /\ e.note = b.note /\ e.changed = TRUE
  BY DEF BatchState, Marked
<1> HIDE DEF u, e
<1>6. TxLocks(u)
  BY <1>1, <1>3, <1>4 DEF HandlerChain, TxLocks
<1>7. k \in InBatch
  BY DEF InBatch
<1>8. NoteView(rows, u, n) = NoteView(rows, t, n)
  BY <1>4 DEF NoteView
<1>9. TxChain(p, rows, changes, u, n, Extra(k, e, n))
  <2> DEFINE L == NoteHistory(changes, tx[p], n)
             d == Extra(pc[p], batch[p], n)
  <2>1. NoteView(rows, tx[p], n) = Visible(p, n)
    BY DEF NoteView, Visible
  <2>2. GoodLog(L, base + d) /\ TopOwned(L, base, p)
    BY <2>1, ViewChain DEF TxChain
  <2>3. d \in {0, 1}
    BY DEF Extra
  <2>4. L \subseteq Change /\ \A c \in L : c.seq < x.seq
    BY <1>3, ChainTypes DEF NoteHistory
  <2>5. NoteHistory(changes, u, n) = L \cup {x}
    BY <1>3, <1>4 DEF NoteHistory
  <2>6. Extra(k, e, n) = 1
    BY <1>5, <1>7 DEF Extra
  <2> HIDE DEF L, d
  <2>7. GoodLog(L \cup {x}, base + 1) /\ TopOwned(L \cup {x}, base, p)
    BY <1>3, <2>2, <2>3, <2>4, GoodLogExtend
  <2>8. Version(NoteView(rows, u, n)) = base
    BY <1>8 DEF Version
  <2> QED
    BY <2>5, <2>6, <2>7, <2>8 DEF TxChain
<1>10. ASSUME NEW m \in Notes, m \in u.held, m # n
       PROVE  TxChain(p, rows, changes, u, m, Extra(k, e, m))
  <2>1. NoteView(rows, u, m) = NoteView(rows, tx[p], m)
    BY <1>4, <1>10 DEF NoteView
  <2>2. NoteHistory(changes, u, m) = NoteHistory(changes, tx[p], m)
    BY <1>3, <1>4, <1>10 DEF NoteHistory
  <2>3. Extra(k, e, m) = 0 /\ Extra(pc[p], batch[p], m) = 0
    BY <1>5, <1>10 DEF Extra
  <2> QED
    BY <2>1, <2>2, <2>3, ViewChain DEF TxChain
<1>11. /\ TxLocks(save[p])
       /\ \A m \in Notes : m \in save[p].held => m \in u.held /\ TxChain(p, rows, changes, save[p], m, 0)
  BY <1>1, <1>4 DEF HandlerChain
<1>12. HandlerChain(p, rows, changes, u, save[p], k, e)
  BY <1>4, <1>5, <1>6, <1>8, <1>9, <1>10, <1>11 DEF HandlerChain
<1>13. \A m \in Notes : m \in u.held => m \in tx[p].held \/ Free(p, m)
  BY <1>4
<1> QED
  BY <1>2, <1>12, <1>13, ChainStep

\* An accepted category operation leaves the notes alone.
LEMMA AcceptCategoryChain ==
  ASSUME TypeInv, ChainInv, NEW p \in Handlers, NEW types, types \subseteq CategoryTypes,
         Applying(p, types), NEW row,
         AcceptOp(p, Write(tx[p], Op(p).key, row), batch[p], 0, 0)
  PROVE  ChainInv'
<1> DEFINE x == NewChange(p, Op(p), 0, 0)
           t == Write(tx[p], Op(p).key, row)
           u == Logged(t, x)
           e == Marked(batch[p], x)
<1>1. /\ pc[p] = "apply" /\ Op(p).note = NilNote /\ batch[p].id = NilNote
      /\ Op(p).type \in CategoryTypes
  BY ApplyingTyped
<1>2. HandlerChain(p, rows, changes, tx[p], save[p], pc[p], batch[p]) /\ pc[p] \in InBatch
  BY <1>1 DEF ChainInv, InBatch
<1>3. PICK k \in {"find", "flush"} : Moves(p, u, save[p], k, e)
  BY <1>1, AcceptOpMoves
<1>4. x.note = NilNote /\ NilNote \notin Notes
  BY <1>1, KeysAssumption DEF NewChange
<1>5. Op(p).key \in Categories
  BY <1>1, ApplyingTyped DEF Decodes, CategoryTypes
<1> HIDE DEF x
<1>6. /\ u.pend = tx[p].pend \cup {x} /\ u.held = tx[p].held \cup {Op(p).key}
      /\ \A n \in Notes : u.ws[n] = tx[p].ws[n]
  BY <1>5, ChainTypes, KeysAssumption DEF Write, TxState, Keys, Logged
<1>7. \A n \in Notes : n \in u.held <=> n \in tx[p].held
  BY <1>5, <1>6, KeysAssumption
<1>8. e.id = NilNote /\ e.note = Absent
  BY <1>1, ChainTypes DEF BatchState, Marked
<1> HIDE DEF u, e
<1>9. TxLocks(u)
  BY <1>2, <1>4, <1>6, <1>7 DEF HandlerChain, TxLocks
<1>10. ASSUME NEW m \in Notes, m \in u.held
       PROVE  TxChain(p, rows, changes, u, m, Extra(k, e, m))
  <2>1. NoteView(rows, u, m) = NoteView(rows, tx[p], m)
    BY <1>6 DEF NoteView
  <2>2. NoteHistory(changes, u, m) = NoteHistory(changes, tx[p], m)
    BY <1>4, <1>6 DEF NoteHistory
  <2>3. Extra(k, e, m) = 0 /\ Extra(pc[p], batch[p], m) = 0
    BY <1>1, <1>4, <1>8 DEF Extra
  <2> QED
    BY <2>1, <2>2, <2>3, ViewChain DEF TxChain
<1>11. /\ TxLocks(save[p])
       /\ \A m \in Notes : m \in save[p].held => m \in u.held /\ TxChain(p, rows, changes, save[p], m, 0)
  BY <1>2, <1>7 DEF HandlerChain
<1>12. HandlerChain(p, rows, changes, u, save[p], k, e)
  BY <1>4, <1>8, <1>9, <1>10, <1>11 DEF HandlerChain
<1> QED
  BY <1>3, <1>7, <1>12, ChainStep

-----------------------------------------------------------------------------
(* Each action preserves ChainInv. *)

\* ensureNote leaves the note locked, and the cached row has its version.
LEMMA EnsuredChain ==
  ASSUME TypeInv, ChainInv, NEW p \in Handlers, pc[p] \in InBatch, NEW n \in Notes,
         batch[p].id = n, EnsureNote(p, n), EnsuredNote(p, n) # Absent
  PROVE  /\ EnsuredNote(p, n) \in NoteRow /\ Visible(p, n) # Absent
         /\ EnsuredNote(p, n).version = Visible(p, n).version
         /\ n \in tx[p].held \/ Free(p, n)
         /\ Ensured(p, n) = Lock(tx[p], n)
<1>1. EnsuredNote(p, n) \in NoteRow
  BY EnsuredNoteTyped
<1>2. Ensured(p, n) = Lock(tx[p], n)
  BY DEF Ensured
<1>3. NoteView(rows, tx[p], n) = Visible(p, n)
  BY DEF NoteView, Visible
<1>4. CASE batch[p].loaded
  <2>1. EnsuredNote(p, n) = batch[p].note
    BY <1>4 DEF EnsuredNote
  <2>2. HandlerChain(p, rows, changes, tx[p], save[p], pc[p], batch[p])
    BY DEF ChainInv
  <2> QED
    BY <1>1, <1>2, <1>3, <2>1, <2>2 DEF HandlerChain
<1>5. CASE ~batch[p].loaded
  <2>1. EnsuredNote(p, n) = Visible(p, n) /\ OwnedBy(Visible(p, n), User(p))
    BY <1>5 DEF EnsuredNote, NoteForOwner
  <2>2. Free(p, n)
    BY <1>5, <2>1 DEF EnsureNote, NoteGranted
  <2> QED
    BY <1>1, <1>2, <2>1, <2>2
<1> QED
  BY <1>4, <1>5

\* Every accepted edit of an existing note.
LEMMA EditChain ==
  ASSUME TypeInv, ChainInv, NEW p \in Handlers, NEW type \in EditTypes, Editing(p, type),
         NEW t \in TxState, t.pend = tx[p].pend,
         \A m \in Notes : t.ws[m] = tx[p].ws[m],
         \A m \in Notes : m \in t.held <=> m \in tx[p].held \/ m = Op(p).note,
         NEW b \in BatchState, b.id = batch[p].id, b.loaded = TRUE, b.note \in NoteRow,
         NEW base, base = EnsuredNote(p, Op(p).note).version, b.note.version = base,
         AcceptOp(p, t, b, base, base + 1)
  PROVE  ChainInv'
<1> DEFINE n == Op(p).note
<1>1. /\ pc[p] = "apply" /\ n \in Notes /\ n = batch[p].id
      /\ EnsureNote(p, n) /\ EnsuredNote(p, n) # Absent
  BY EditingTyped DEF Editing
<1>2. /\ Visible(p, n) # Absent /\ base = Visible(p, n).version
      /\ n \in tx[p].held \/ Free(p, n)
  BY <1>1, EnsuredChain DEF InBatch
<1>3. base \in Nat /\ b.note # Absent
  BY AbsentAssumption DEF NoteRow, Row
<1>4. NoteView(rows, t, n) = Visible(p, n) /\ base = Version(Visible(p, n))
  BY <1>1, <1>2 DEF NoteView, Visible, Version
<1> HIDE DEF n
<1> QED
  BY <1>1, <1>2, <1>3, <1>4, AcceptNoteChain DEF n

\* The transaction after ensureNote.
LEMMA EnsuredTx ==
  ASSUME TypeInv, ChainInv, NEW p \in Handlers, NEW type \in EditTypes, Editing(p, type)
  PROVE  LET t == Ensured(p, Op(p).note) IN
           /\ t \in TxState /\ t.pend = tx[p].pend /\ t.ws = tx[p].ws
           /\ t.held = tx[p].held \cup {Op(p).note}
<1>1. /\ Op(p).note \in Notes /\ EnsuredNote(p, Op(p).note) # Absent
  BY EditingTyped DEF Editing
<1>2. Ensured(p, Op(p).note) = Lock(tx[p], Op(p).note) /\ Op(p).note \in Keys
  BY <1>1 DEF Ensured, Keys
<1>3. tx[p] \in TxState
  BY ChainTypes
<1> QED
  BY <1>2, <1>3 DEF Lock, TxState

LEMMA AcceptEditChain ==
  ASSUME TypeInv, ChainInv, NEW p \in Handlers, NEW type \in EditTypes, Editing(p, type),
         NEW note \in NoteRow, note.version = EnsuredNote(p, Op(p).note).version,
         AcceptEdit(p, note)
  PROVE  ChainInv'
<1> DEFINE t == Ensured(p, Op(p).note)
           b == Loaded(p, note)
<1>1. /\ t \in TxState /\ t.pend = tx[p].pend /\ t.ws = tx[p].ws
      /\ t.held = tx[p].held \cup {Op(p).note}
  BY EnsuredTx
<1>2. b \in BatchState /\ b.id = batch[p].id /\ b.loaded = TRUE /\ b.note = note
  BY LoadedTyped
<1>3. AcceptOp(p, t, b, note.version, note.version + 1)
  BY DEF AcceptEdit
<1> HIDE DEF t, b
<1> QED
  BY <1>1, <1>2, <1>3, EditChain

LEMMA ModifyNoteChain ==
  ASSUME TypeInv, ChainInv, NEW p \in Handlers, ModifyNoteProperty(p) \/ ModifyNoteTitle(p)
  PROVE  ChainInv'
<1> DEFINE old == EnsuredNote(p, Op(p).note)
<1>1. CASE ModifyNoteProperty(p)
  <2> DEFINE note == [old EXCEPT !.props = Op(p).props]
  <2>1. Editing(p, "modify_note_property") /\ AcceptEdit(p, note)
    BY <1>1 DEF ModifyNoteProperty
  <2>2. Op(p) \in Operation /\ Decodes(Op(p)) /\ Op(p).type = "modify_note_property" /\ old \in NoteRow
    BY <2>1, EditingTyped DEF EditTypes
  <2>3. Op(p).props \in Props
    BY <2>2 DEF Operation, Decodes
  <2>4. note \in NoteRow /\ note.version = old.version
    BY <2>2, <2>3 DEF NoteRow
  <2> HIDE DEF note
  <2> QED
    BY <2>1, <2>4, AcceptEditChain DEF EditTypes
<1>2. CASE ModifyNoteTitle(p)
  <2> DEFINE note == [old EXCEPT !.title = ApplyTextDelta(@, Op(p).delta)]
  <2>1. Editing(p, "modify_note_title")
    BY <1>2 DEF ModifyNoteTitle
  <2>2. /\ pc[p] = "apply" /\ Op(p) \in Operation /\ Decodes(Op(p)) /\ Op(p).type = "modify_note_title"
        /\ old \in NoteRow
    BY <2>1, EditingTyped DEF EditTypes
  <2>3. CASE RejectOp(p, "invalid", 0)
    BY <2>2, <2>3, RejectOpChain DEF InBatch
  <2>4. CASE DeltaInRange(old.title, Op(p).delta) /\ AcceptEdit(p, note)
    <3>1. Op(p).delta \in TextDeltas(Runes) /\ old.title \in Seq(Runes)
      BY <2>2 DEF Operation, Decodes, NoteRow
    <3>2. ApplyTextDelta(old.title, Op(p).delta) \in Seq(Runes)
      BY <2>4, <3>1, ApplyTextDeltaType
    <3>3. note \in NoteRow /\ note.version = old.version
      BY <2>2, <3>2 DEF NoteRow
    <3> HIDE DEF note
    <3> QED
      BY <2>1, <2>4, <3>3, AcceptEditChain DEF EditTypes
  <2> QED
    BY <1>2, <2>3, <2>4 DEF ModifyNoteTitle
<1> QED
  BY <1>1, <1>2

\* An edit of a block: t also writes or locks the row of the block.
LEMMA EditBlockChain ==
  ASSUME TypeInv, ChainInv, NEW p \in Handlers, NEW type \in EditTypes, Editing(p, type),
         Op(p).key \in Blocks, NEW t, TypedTx(t), NEW row,
         \/ t = Write(Ensured(p, Op(p).note), Op(p).key, row)
         \/ t = Lock(Ensured(p, Op(p).note), Op(p).key),
         NEW b \in BatchState, b.id = batch[p].id, b.loaded = TRUE,
         b.note = EnsuredNote(p, Op(p).note),
         AcceptOp(p, t, b, EnsuredNote(p, Op(p).note).version, EnsuredNote(p, Op(p).note).version + 1)
  PROVE  ChainInv'
<1> DEFINE u == Ensured(p, Op(p).note)
           note == EnsuredNote(p, Op(p).note)
<1>1. /\ u \in TxState /\ u.pend = tx[p].pend /\ u.ws = tx[p].ws
      /\ u.held = tx[p].held \cup {Op(p).note}
  BY EnsuredTx
<1>2. note \in NoteRow
  BY EditingTyped
<1> HIDE DEF u
<1>3. t \in TxState
  BY DEF TypedTx
<1>4. t = Write(u, Op(p).key, row) \/ t = Lock(u, Op(p).key)
  BY DEF u
<1>5. /\ t.pend = tx[p].pend /\ t.held = u.held \cup {Op(p).key}
      /\ \A m \in Keys : m # Op(p).key => t.ws[m] = u.ws[m]
  BY <1>1, <1>4 DEF Write, Lock, TxState
<1>6. \A m \in Notes : m # Op(p).key /\ t.ws[m] = tx[p].ws[m]
  BY <1>1, <1>5, KeysAssumption DEF Keys
<1>7. \A m \in Notes : m \in t.held <=> m \in tx[p].held \/ m = Op(p).note
  BY <1>1, <1>5, <1>6
<1> HIDE DEF note
<1> QED
  BY <1>2, <1>3, <1>5, <1>6, <1>7, EditChain DEF note

LEMMA CreateBlockChain ==
  ASSUME TypeInv, ChainInv, NEW p \in Handlers, CreateBlock(p)
  PROVE  ChainInv'
<1> DEFINE op == Op(p)
           note == EnsuredNote(p, op.note)
           block == [note |-> op.note, deleted |-> FALSE, text |-> op.text, props |-> op.props]
           t == Write(Ensured(p, op.note), op.key, block)
           l == Loaded(p, note)
           b == [l EXCEPT !.blocks = [@ EXCEPT ![op.key] = block]]
<1>1. Editing(p, "create_block") /\ "create_block" \in EditTypes
  BY DEF CreateBlock, EditTypes
<1>2. /\ pc[p] = "apply" /\ op \in Operation /\ Decodes(op) /\ op.type = "create_block"
      /\ op.note \in Notes /\ note \in NoteRow
  BY <1>1, EditingTyped
<1>3. CASE RejectOp(p, "invalid", 0)
  BY <1>2, <1>3, RejectOpChain DEF InBatch
<1>4. CASE AcceptOp(p, t, b, note.version, note.version + 1)
  <2>1. op.key \in Blocks /\ op.props \in Props /\ op.text \in Seq(Runes)
    BY <1>2 DEF Operation, Decodes
  <2>2. block \in BlockRow
    BY <1>2, <2>1 DEF BlockRow
  <2> HIDE DEF block
  <2>3. op.key \in Keys /\ TypedRow(op.key, block)
    BY <2>1, <2>2, KeysAssumption DEF Keys, TypedRow
  <2>4. TypedTx(t)
    BY <1>2, <2>3, EnsuredNoteTyped, WriteTyped
  <2>5. l \in BatchState /\ l.id = batch[p].id /\ l.loaded = TRUE /\ l.note = note
    BY <1>2, LoadedTyped
  <2> HIDE DEF l, note
  <2>6. b \in BatchState /\ b.id = batch[p].id /\ b.loaded = TRUE /\ b.note = note
    BY <2>1, <2>2, <2>5 DEF BatchState
  <2> HIDE DEF b
  <2> QED
    BY <1>1, <1>4, <2>1, <2>4, <2>6, EditBlockChain DEF note
<1> QED
  BY <1>3, <1>4 DEF CreateBlock

LEMMA DeleteBlockChain ==
  ASSUME TypeInv, ChainInv, NEW p \in Handlers, DeleteBlock(p)
  PROVE  ChainInv'
<1> DEFINE op == Op(p)
           note == EnsuredNote(p, op.note)
           block == BatchBlock(p, op.key, op.note)
           gone == [block EXCEPT !.deleted = TRUE]
           t == Write(Ensured(p, op.note), op.key, gone)
           l == Loaded(p, note)
           b == [l EXCEPT !.blocks = [@ EXCEPT ![op.key] = gone], !.dirty = @ \ {op.key}]
<1>1. Editing(p, "delete_block") /\ "delete_block" \in EditTypes
  BY DEF DeleteBlock, EditTypes
<1>2. /\ pc[p] = "apply" /\ Decodes(op) /\ op.type = "delete_block"
      /\ op.note \in Notes /\ note \in NoteRow
  BY <1>1, EditingTyped
<1>3. CASE RejectOp(p, "not_found", 0)
  BY <1>2, <1>3, RejectOpChain DEF InBatch
<1>4. CASE block # Absent /\ AcceptOp(p, t, b, note.version, note.version + 1)
  <2>1. op.key \in Blocks
    BY <1>2 DEF Decodes
  <2>2. block \in BlockRow
    BY <1>4, <2>1, BatchBlockTyped
  <2>3. gone \in BlockRow
    BY <2>2 DEF BlockRow
  <2> HIDE DEF gone
  <2>4. op.key \in Keys /\ TypedRow(op.key, gone)
    BY <2>1, <2>3, KeysAssumption DEF Keys, TypedRow
  <2>5. TypedTx(t)
    BY <1>2, <2>4, EnsuredNoteTyped, WriteTyped
  <2>6. l \in BatchState /\ l.id = batch[p].id /\ l.loaded = TRUE /\ l.note = note
    BY <1>2, LoadedTyped
  <2> HIDE DEF l, note
  <2>7. b \in BatchState /\ b.id = batch[p].id /\ b.loaded = TRUE /\ b.note = note
    BY <2>1, <2>3, <2>6 DEF BatchState
  <2> HIDE DEF b
  <2> QED
    BY <1>1, <1>4, <2>1, <2>5, <2>7, EditBlockChain DEF note
<1> QED
  BY <1>3, <1>4 DEF DeleteBlock

LEMMA ModifyBlockChain ==
  ASSUME TypeInv, ChainInv, NEW p \in Handlers, ModifyBlock(p)
  PROVE  ChainInv'
<1> DEFINE op == Op(p)
           note == EnsuredNote(p, op.note)
           block == BatchBlock(p, op.key, op.note)
           edited == [block EXCEPT !.props = IF op.props = None THEN @ ELSE op.props,
                                   !.text = IF op.delta = None THEN @ ELSE ApplyTextDelta(@, op.delta)]
           t == Lock(Ensured(p, op.note), op.key)
           l == Loaded(p, note)
           b == [l EXCEPT !.blocks = [@ EXCEPT ![op.key] = edited], !.dirty = @ \cup {op.key}]
<1>1. Editing(p, "modify_block") /\ "modify_block" \in EditTypes
  BY DEF ModifyBlock, EditTypes
<1>2. /\ pc[p] = "apply" /\ op \in Operation /\ Decodes(op) /\ op.type = "modify_block"
      /\ op.note \in Notes /\ note \in NoteRow
  BY <1>1, EditingTyped
<1>3. CASE RejectOp(p, "not_found", 0) \/ RejectOp(p, "invalid", 0)
  BY <1>2, <1>3, RejectOpChain DEF InBatch
<1>4. CASE /\ block # Absent /\ (op.delta # None => DeltaInRange(block.text, op.delta))
           /\ AcceptOp(p, t, b, note.version, note.version + 1)
  <2>1. /\ op.key \in Blocks /\ op.props \in Props \cup {None}
        /\ op.delta \in TextDeltas(Runes) \cup {None}
    BY <1>2 DEF Operation, Decodes
  <2>2. block \in BlockRow
    BY <1>4, <2>1, BatchBlockTyped
  <2>3. op.delta # None => ApplyTextDelta(block.text, op.delta) \in Seq(Runes)
    BY <1>4, <2>1, <2>2, ApplyTextDeltaType DEF BlockRow
  <2>4. edited \in BlockRow
    BY <2>1, <2>2, <2>3 DEF BlockRow
  <2> HIDE DEF edited
  <2>5. TypedTx(t)
    BY <1>2, <2>1, EnsuredNoteTyped, LockTyped DEF Keys
  <2>6. l \in BatchState /\ l.id = batch[p].id /\ l.loaded = TRUE /\ l.note = note
    BY <1>2, LoadedTyped
  <2> HIDE DEF l, note
  <2>7. b \in BatchState /\ b.id = batch[p].id /\ b.loaded = TRUE /\ b.note = note
    BY <2>1, <2>4, <2>6 DEF BatchState
  <2> HIDE DEF b
  <2> QED
    BY <1>1, <1>4, <2>1, <2>5, <2>7, EditBlockChain DEF note
<1> QED
  BY <1>3, <1>4 DEF ModifyBlock

LEMMA CreateNoteChain ==
  ASSUME TypeInv, ChainInv, NEW p \in Handlers, CreateNote(p)
  PROVE  ChainInv'
<1> DEFINE op == Op(p)
           n == op.note
           note == [owner |-> User(p), version |-> 0, deleted |-> FALSE,
                    title |-> op.text, props |-> op.props]
           block == [note |-> n, deleted |-> FALSE, text |-> op.text, props |-> op.props]
           ws == [k \in Keys |-> IF k = n THEN note
                                 ELSE IF k \in op.blocks THEN block ELSE tx[p].ws[k]]
           t == [tx[p] EXCEPT !.ws = ws, !.held = @ \cup {n} \cup op.blocks]
           bs == [x \in Blocks |-> IF x \in op.blocks THEN block ELSE batch[p].blocks[x]]
           b == [Loaded(p, note) EXCEPT !.blocks = bs]
<1>1. Applying(p, {"create_note"})
  BY DEF CreateNote
<1>2. /\ pc[p] = "apply" /\ n \in Notes /\ n = batch[p].id
      /\ op \in Operation /\ User(p) \in Users /\ op.type = "create_note"
  BY <1>1, ApplyingTyped, KeysAssumption DEF CategoryTypes
<1>3. batch[p] \in BatchState /\ tx[p] \in TxState
  BY ChainTypes
<1>4. CASE \E reason, version : RejectOp(p, reason, version)
  BY <1>2, <1>4, RejectOpChain DEF InBatch
<1>5. CASE /\ op.base = 0 /\ batch[p].note = Absent /\ Visible(p, n) = Absent /\ Free(p, n)
           /\ AcceptOp(p, t, b, 0, 1)
  <2>1. Decodes(op)
    BY <1>1, <1>2, <1>5, ApplyingTyped
  <2>2. op.props \in Props /\ op.text \in Seq(Runes) /\ op.blocks \subseteq Blocks
    BY <1>2, <2>1 DEF Operation, Decodes
  <2>3. note \in NoteRow /\ block \in BlockRow /\ note.version = 0
    BY <1>2, <2>2 DEF NoteRow, BlockRow
  <2>4. note # Absent
    BY <2>3, AbsentAssumption DEF Row
  <2> HIDE DEF note, block
  <2>5. ws \in [Keys -> Row \cup {Absent}]
    BY <1>3, <2>3 DEF TxState, Row
  <2>6. n \in Keys /\ op.blocks \subseteq Keys /\ \A m \in Notes : m \in Keys /\ m \notin op.blocks
    BY <1>2, <2>2, KeysAssumption DEF Keys
  <2>7. ws[n] = note /\ \A m \in Notes : m # n => ws[m] = tx[p].ws[m]
    BY <2>6
  <2> HIDE DEF ws, n
  <2>8. /\ t \in TxState /\ t.ws = ws /\ t.pend = tx[p].pend
        /\ t.held = tx[p].held \cup {n} \cup op.blocks
    BY <1>3, <2>5, <2>6 DEF TxState
  <2>9. bs \in [Blocks -> BlockRow \cup {Absent}]
    BY <1>3, <2>3 DEF BatchState
  <2>10. /\ Loaded(p, note) \in BatchState /\ Loaded(p, note).id = batch[p].id
         /\ Loaded(p, note).note = note /\ Loaded(p, note).loaded = TRUE
    BY <2>3, LoadedTyped
  <2> HIDE DEF bs
  <2>11. b \in BatchState /\ b.id = batch[p].id /\ b.note = note /\ b.loaded = TRUE
    BY <2>9, <2>10 DEF BatchState
  <2> HIDE DEF t, b
  <2>12. \A m \in Notes : m \in t.held <=> m \in tx[p].held \/ m = n
    BY <2>6, <2>8
  <2>13. NoteView(rows, t, n) = note /\ Version(Visible(p, n)) = 0
    BY <1>5, <2>4, <2>7, <2>8 DEF NoteView, Version
  <2>14. AcceptOp(p, t, b, 0, 0 + 1)
    BY <1>5
  <2>15. \A m \in Notes : m # n => t.ws[m] = tx[p].ws[m]
    BY <2>7, <2>8
  <2>16. Op(p).note = n
    BY DEF n
  <2>17. /\ b \in BatchState /\ b.id = n /\ b.loaded = TRUE /\ b.note # Absent /\ b.note.version = 0
         /\ NoteView(rows, t, n) # Absent /\ NoteView(rows, t, n).version = 0
         /\ 0 = Version(Visible(p, n))
    BY <1>2, <2>3, <2>4, <2>11, <2>13
  <2> QED
    BY <1>2, <1>5, <2>8, <2>12, <2>14, <2>15, <2>16, <2>17, AcceptNoteChain
<1>6. /\ tx[p] \in TxState => [tx[p] EXCEPT !.ws = [k \in Keys |-> IF k = n THEN note
                                       ELSE IF k \in op.blocks THEN block ELSE @[k]],
                             !.held = @ \cup {n} \cup op.blocks] = t
      /\ [Loaded(p, note) EXCEPT !.blocks = [x \in Blocks |->
                                       IF x \in op.blocks THEN block ELSE @[x]]] = b
  BY <1>3 DEF Loaded, BatchState
<1> QED
  BY <1>3, <1>4, <1>5, <1>6 DEF CreateNote

LEMMA DeleteNoteChain ==
  ASSUME TypeInv, ChainInv, NEW p \in Handlers, DeleteNote(p)
  PROVE  ChainInv'
<1> DEFINE n == Op(p).note
           row == Visible(p, n)
           gone == [row EXCEPT !.deleted = TRUE]
           note == IF batch[p].note = Absent THEN gone
                   ELSE [batch[p].note EXCEPT !.deleted = TRUE]
<1>1. Applying(p, {"delete_note"})
  BY DEF DeleteNote
<1>2. pc[p] = "apply" /\ n \in Notes /\ n = batch[p].id /\ n \in Keys
  BY <1>1, ApplyingTyped DEF CategoryTypes, Keys
<1>3. row \in NoteRow \cup {Absent} /\ tx[p] \in TxState /\ batch[p] \in BatchState
  BY <1>2, ChainTypes
<1>4. batch[p].note \in NoteRow \cup {Absent}
  BY <1>3 DEF BatchState
<1>5. CASE /\ OwnedBy(row, User(p)) /\ Free(p, n)
           /\ AcceptOp(p, Write(tx[p], n, gone), Loaded(p, note), note.version, note.version + 1)
  <2>1. row \in NoteRow /\ row # Absent
    BY <1>3, <1>5 DEF OwnedBy
  <2>2. gone \in NoteRow /\ gone.version = row.version
    BY <2>1 DEF NoteRow
  <2>3. HandlerChain(p, rows, changes, tx[p], save[p], pc[p], batch[p]) /\ NoteView(rows, tx[p], n) = row
    BY DEF ChainInv, NoteView, Visible
  <2>4. batch[p].note # Absent => batch[p].note.version = row.version
    BY <1>2, <2>3 DEF HandlerChain, InBatch
  <2>5. note \in NoteRow /\ note.version = row.version
    BY <1>4, <2>2, <2>4 DEF NoteRow
  <2>6. gone # Absent /\ note # Absent /\ gone \in Row
    BY <2>2, <2>5, AbsentAssumption DEF Row
  <2>7. row.version \in Nat /\ Version(Visible(p, n)) = row.version
    BY <2>1 DEF NoteRow, Version
  <2> DEFINE t == Write(tx[p], n, gone)
             b == Loaded(p, note)
             base == row.version
  <2>8. AcceptOp(p, t, b, base, base + 1)
    BY <1>5, <2>5
  <2> HIDE DEF note, gone, row, n
  <2>9. /\ t \in TxState /\ t.pend = tx[p].pend /\ t.held = tx[p].held \cup {n}
        /\ t.ws[n] = gone /\ \A m \in Notes : m # n => t.ws[m] = tx[p].ws[m]
    BY <1>2, <1>3, <2>6 DEF Write, TxState, Keys
  <2>10. b \in BatchState /\ b.id = batch[p].id /\ b.note = note /\ b.loaded = TRUE
    BY <2>5, LoadedTyped
  <2> HIDE DEF t, b
  <2>11. NoteView(rows, t, n) = gone
    BY <2>6, <2>9 DEF NoteView
  <2>12. Op(p).note = n
    BY DEF n
  <2>13. \A m \in Notes : m \in t.held <=> m \in tx[p].held \/ m = n
    BY <2>9
  <2> HIDE DEF base
  <2>14. base \in Nat /\ base = Version(Visible(p, n)) /\ gone.version = base /\ note.version = base
    BY <2>2, <2>5, <2>7 DEF base
  <2>15. /\ b \in BatchState /\ b.id = n /\ b.loaded = TRUE /\ b.note # Absent /\ b.note.version = base
         /\ NoteView(rows, t, n) # Absent /\ NoteView(rows, t, n).version = base
    BY <1>2, <2>6, <2>10, <2>11, <2>14
  <2> QED
    BY <1>2, <1>5, <2>8, <2>9, <2>12, <2>13, <2>14, <2>15, AcceptNoteChain
<1>6. CASE /\ pc' = [pc EXCEPT ![p] = "lookup"]
           /\ UNCHANGED <<store, req, todo, batch, failure, reply, world>>
  <2>1. Moves(p, tx[p], save[p], "lookup", batch[p])
    BY <1>6, MovesUnchanged DEF Moves, store
  <2> QED
    BY <1>2, <2>1, WithinBatch DEF InBatch
<1> QED
  BY <1>5, <1>6 DEF DeleteNote

\* The operations that are rejected whatever the note is.
LEMMA RejectionsChain ==
  ASSUME TypeInv, ChainInv, NEW p \in Handlers,
         RejectMalformed(p) \/ RejectExisting(p) \/ DeleteNoteLookup(p) \/ RejectCategory(p)
  PROVE  ChainInv'
<1>1. pc[p] \in {"apply", "lookup"}
  BY DEF RejectMalformed, RejectExisting, DeleteNoteLookup, RejectCategory, Applying
<1>2. \E reason, version : RejectOp(p, reason, version)
  BY DEF RejectMalformed, RejectExisting, DeleteNoteLookup, RejectCategory
<1> QED
  BY <1>1, <1>2, RejectOpChain DEF InBatch

LEMMA CategoryChain ==
  ASSUME TypeInv, ChainInv, NEW p \in Handlers,
         CreateCategory(p) \/ DeleteCategory(p) \/ ModifyCategory(p)
  PROVE  ChainInv'
<1> DEFINE write(row) == AcceptOp(p, Write(tx[p], Op(p).key, row), batch[p], 0, 0)
<1>1. \E type \in CategoryTypes : Applying(p, {type})
  BY DEF CreateCategory, DeleteCategory, ModifyCategory, CategoryTypes
<1>2. CASE CreateCategory(p)
  <2>1. FailRequest(p, "unique_violation") \/ write([owner |-> User(p), name |-> Op(p).name, deleted |-> FALSE])
    BY <1>2 DEF CreateCategory
  <2> HIDE DEF write
  <2>2. FailRequest(p, "unique_violation") \/ \E row : write(row)
    BY <2>1
  <2> QED
    BY <1>1, <2>2, FailRequestChain, AcceptCategoryChain DEF write
<1>3. CASE DeleteCategory(p)
  <2>1. write([Visible(p, Op(p).key) EXCEPT !.deleted = TRUE])
    BY <1>3 DEF DeleteCategory
  <2> HIDE DEF write
  <2>2. \E row : write(row)
    BY <2>1
  <2> QED
    BY <1>1, <2>2, AcceptCategoryChain DEF write
<1>4. CASE ModifyCategory(p)
  <2>1. FailRequest(p, "unique_violation") \/ write([Visible(p, Op(p).key) EXCEPT !.name = Op(p).name])
    BY <1>4 DEF ModifyCategory
  <2> HIDE DEF write
  <2>2. FailRequest(p, "unique_violation") \/ \E row : write(row)
    BY <2>1
  <2> QED
    BY <1>1, <2>2, FailRequestChain, AcceptCategoryChain DEF write
<1> QED
  BY <1>2, <1>3, <1>4

LEMMA FindProcessedChain ==
  ASSUME TypeInv, ChainInv, NEW p \in Handlers, FindProcessed(p)
  PROVE  ChainInv'
<1>1. Moves(p, tx[p], save[p], "apply", batch[p])
  BY MovesUnchanged DEF Moves, FindProcessed, store
<1>2. pc[p] \in InBatch /\ "apply" \in InBatch
  BY DEF FindProcessed, InBatch
<1> QED
  BY <1>1, <1>2, WithinBatch

\* A lock that is taken changes nothing that the transaction sees.
LEMMA LockChain ==
  ASSUME TypeInv, ChainInv, NEW p \in Handlers, NEW k \in Keys, NEW t, t = Lock(tx[p], k),
         k \in Notes => k \in tx[p].held \/ Free(p, k)
  PROVE  /\ t \in TxState /\ TxLocks(t)
         /\ t.held = tx[p].held \cup {k} /\ t.ws = tx[p].ws /\ t.pend = tx[p].pend
         /\ \A n \in Notes : n \in t.held => n \in tx[p].held \/ Free(p, n)
         /\ \A n \in Notes : /\ NoteView(rows, t, n) = NoteView(rows, tx[p], n)
                             /\ TxChain(p, rows, changes, t, n, Extra(pc[p], batch[p], n))
<1>1. tx[p] \in TxState
  BY ChainTypes
<1>2. t \in TxState /\ t.held = tx[p].held \cup {k} /\ t.ws = tx[p].ws /\ t.pend = tx[p].pend
  BY <1>1 DEF Lock, TxState
<1>3. HandlerChain(p, rows, changes, tx[p], save[p], pc[p], batch[p])
  BY DEF ChainInv
<1>4. TxLocks(t)
  BY <1>2, <1>3 DEF HandlerChain, TxLocks
<1>5. \A n \in Notes : /\ NoteView(rows, t, n) = NoteView(rows, tx[p], n)
                       /\ NoteHistory(changes, t, n) = NoteHistory(changes, tx[p], n)
  BY <1>2 DEF NoteView, NoteHistory
<1>6. \A n \in Notes : TxChain(p, rows, changes, t, n, Extra(pc[p], batch[p], n))
  BY <1>5, ViewChain DEF TxChain
<1> QED
  BY <1>2, <1>4, <1>5, <1>6

LEMMA RetryOpChain ==
  ASSUME TypeInv, ChainInv, NEW p \in Handlers, RetryOp(p)
  PROVE  ChainInv'
<1> DEFINE n == Op(p).note
           note == EnsuredNote(p, n)
           b == Loaded(p, note)
<1>1. pc[p] = "find" /\ pc[p] \in InBatch /\ Advance(p) /\ UNCHANGED <<rows, changes, save>>
  BY DEF RetryOp, InBatch
<1>2. n = batch[p].id /\ n \in Notes \cup {NilNote}
  BY <1>1, CurrentRequest DEF Operation
<1>3. PICK k \in {"find", "flush"} : pc' = [pc EXCEPT ![p] = k]
  BY <1>1, AdvanceOK
<1>4. k \in InBatch
  BY DEF InBatch
<1>5. HandlerChain(p, rows, changes, tx[p], save[p], pc[p], batch[p])
  BY DEF ChainInv
<1>6. CASE n = NilNote
  <2>1. Moves(p, tx[p], save[p], k, batch[p])
    BY <1>1, <1>3, <1>6, MovesUnchanged DEF Moves, RetryOp
  <2> QED
    BY <1>1, <1>4, <2>1, WithinBatch
<1>7. CASE n \in Notes /\ n # NilNote
  <2>1. EnsureNote(p, n) /\ tx' = [tx EXCEPT ![p] = Ensured(p, n)] /\ batch' = [batch EXCEPT ![p] = b]
    BY <1>7 DEF RetryOp
  <2>2. batch[p] \in BatchState /\ note \in NoteRow \cup {Absent}
    BY <1>7, ChainTypes, EnsuredNoteTyped
  <2>3. b.id = n /\ b.loaded = TRUE /\ b.note = note /\ b.changed = batch[p].changed
    BY <1>2, <2>2 DEF Loaded, BatchState
  <2> HIDE DEF b
  <2>4. \A m \in Notes : Extra(k, b, m) = Extra(pc[p], batch[p], m)
    BY <1>1, <1>2, <1>4, <2>3 DEF Extra
  <2>5. CASE note = Absent
    <3>1. batch[p].note = Absent
      BY <1>1, <1>5, <2>5 DEF HandlerChain, EnsuredNote
    <3>2. ~batch[p].changed
      BY <1>1, <1>2, <1>5, <1>7, <3>1 DEF HandlerChain
    <3>3. HandlerChain(p, rows, changes, tx[p], save[p], k, b)
      BY <1>1, <1>5, <2>3, <2>4, <2>5, <3>2 DEF HandlerChain
    <3>4. Moves(p, tx[p], save[p], k, b)
      BY <1>1, <1>3, <2>1, <2>5, MovesUnchanged DEF Moves, Ensured
    <3> QED
      BY <3>3, <3>4, ChainStep
  <2>6. CASE note # Absent
    <3> DEFINE t == Lock(tx[p], n)
    <3>1. /\ Visible(p, n) # Absent /\ note.version = Visible(p, n).version
          /\ n \in tx[p].held \/ Free(p, n)
          /\ Ensured(p, n) = t
      BY <1>1, <1>2, <1>7, <2>1, <2>6, EnsuredChain
    <3>2. n \in Keys
      BY <1>7 DEF Keys
    <3>3. NoteView(rows, tx[p], n) = Visible(p, n)
      BY DEF NoteView, Visible
    <3>4. Moves(p, t, save[p], k, b)
      BY <1>1, <1>3, <2>1, <3>1, MovesUnchanged DEF Moves
    <3> HIDE DEF note
    <3>5. /\ TxLocks(t) /\ t.held = tx[p].held \cup {n}
          /\ \A m \in Notes : m \in t.held => m \in tx[p].held \/ Free(p, m)
          /\ \A m \in Notes : /\ NoteView(rows, t, m) = NoteView(rows, tx[p], m)
                              /\ TxChain(p, rows, changes, t, m, Extra(pc[p], batch[p], m))
      BY <3>1, <3>2, LockChain
    <3> HIDE DEF t, n
    <3>6. /\ TxLocks(save[p])
          /\ \A m \in Notes : m \in save[p].held => m \in t.held /\ TxChain(p, rows, changes, save[p], m, 0)
      BY <1>1, <1>5, <3>5 DEF HandlerChain
    <3>7. HandlerChain(p, rows, changes, t, save[p], k, b)
      BY <1>7, <2>3, <2>4, <2>6, <3>1, <3>3, <3>5, <3>6 DEF HandlerChain
    <3> QED
      BY <3>4, <3>5, <3>7, ChainStep
  <2> QED
    BY <2>5, <2>6
<1> QED
  BY <1>2, <1>6, <1>7, KeysAssumption

LEMMA LockDeviceChain ==
  ASSUME TypeInv, ChainInv, NEW p \in Handlers, LockDevice(p)
  PROVE  ChainInv'
<1> DEFINE d == req[p].device
           t == Lock(tx[p], d)
<1>1. pc[p] = "lock" /\ pc[p] \notin InBatch
  BY DEF LockDevice, InBatch
<1>2. d \in Keys /\ d \notin Notes
  BY <1>1, CurrentRequest, KeysAssumption DEF Keys
<1>3. /\ t \in TxState /\ TxLocks(t)
      /\ t.held = tx[p].held \cup {d} /\ t.ws = tx[p].ws /\ t.pend = tx[p].pend
      /\ \A n \in Notes : n \in t.held => n \in tx[p].held \/ Free(p, n)
      /\ \A n \in Notes : TxChain(p, rows, changes, t, n, Extra(pc[p], batch[p], n))
  BY <1>2, LockChain
<1>4. CASE \E reason : FailRequest(p, reason)
  BY <1>4, FailRequestChain
<1>5. CASE /\ tx' = [tx EXCEPT ![p] = t] /\ NextBatch(p, SortedOperations(req[p].ops))
           /\ UNCHANGED <<rows, changes>>
  <2>1. \A n \in Notes : Extra(pc[p], batch[p], n) = 0
    BY <1>1 DEF Extra
  <2> HIDE DEF t
  <2> QED
    BY <1>3, <1>5, <2>1, NextBatchChain
<1>6. CASE /\ tx' = [tx EXCEPT ![p] = t] /\ pc' = [pc EXCEPT ![p] = "page"]
           /\ UNCHANGED <<rows, changes, save, batch>>
  <2> HIDE DEF t
  <2>1. Moves(p, t, save[p], "page", batch[p])
    BY <1>6, MovesUnchanged DEF Moves
  <2>2. "page" \notin InBatch
    BY DEF InBatch
  <2>3. \A n \in Notes : t.ws[n] = tx[p].ws[n] /\ (n \in t.held <=> n \in tx[p].held)
    BY <1>2, <1>3
  <2> QED
    BY <1>1, <1>3, <2>1, <2>2, <2>3, OutsideBatch
<1>7. tx \in [Handlers -> TxState]
  BY ChainTypes
<1> QED
  BY <1>4, <1>5, <1>6, <1>7 DEF LockDevice

\* Accepting a batch writes the version its operations lead to.
LEMMA FlushBatchChain ==
  ASSUME TypeInv, ChainInv, NEW p \in Handlers, FlushBatch(p)
  PROVE  ChainInv'
<1> DEFINE b == batch[p]
           n == b.id
           note == [b.note EXCEPT !.version = @ + 1]
           t == EnqueueSnapshotIfNeeded(p, Flushed(p, n, note), n, note.version)
<1>1. pc[p] = "flush" /\ pc[p] \in InBatch /\ pc[p] # "idle"
  BY DEF FlushBatch, InBatch
<1>2. NextBatch(p, todo[p]) /\ UNCHANGED <<rows, changes>>
  BY DEF FlushBatch
<1>3. HandlerChain(p, rows, changes, tx[p], save[p], pc[p], b)
  BY DEF ChainInv
<1>4. b \in BatchState /\ tx[p] \in TxState /\ (n = NilNote => b.note = Absent)
  BY ChainTypes
<1>5. CASE b.changed /\ b.note # Absent /\ tx' = [tx EXCEPT ![p] = t]
  <2> DEFINE v == b.note.version
             L == NoteHistory(changes, tx[p], n)
  <2>1. n \in Notes /\ b.note \in NoteRow /\ n \in tx[p].held
    BY <1>1, <1>3, <1>4, <1>5 DEF BatchState, HandlerChain
  <2>2. v \in Nat /\ note \in NoteRow /\ note.version = v + 1
    BY <2>1 DEF NoteRow
  <2>3. note # Absent
    BY <2>2, AbsentAssumption DEF Row
  <2>4. Version(NoteView(rows, tx[p], n)) = v
    BY <1>1, <1>3, <1>5 DEF HandlerChain, Version
  <2>5. Extra(pc[p], b, n) = 1 /\ \A m \in Notes : m # n => Extra(pc[p], b, m) = 0
    BY <1>1, <1>5 DEF Extra
  <2>6. GoodLog(L, v + 1) /\ TopOwned(L, v, p)
    BY <2>1, <2>4, <2>5, ViewChain DEF TxChain
  <2>7. L \subseteq Change
    BY ChainTypes DEF NoteHistory
  <2> HIDE DEF note, L, v
  <2>8. t \in TxState /\ t.pend = tx[p].pend
    BY <1>1, <2>1, <2>2, FlushedTyped DEF TypedTx
  <2>9. /\ Flushed(p, n, note).held = tx[p].held
        /\ Flushed(p, n, note).ws = [k \in Keys |-> IF k = n THEN note
                          ELSE IF k \in b.dirty THEN b.blocks[k] ELSE tx[p].ws[k]]
    BY <1>4 DEF Flushed, TxState
  <2>10. t.held = Flushed(p, n, note).held /\ t.ws = Flushed(p, n, note).ws
    BY DEF EnqueueSnapshotIfNeeded, Flushed
  <2>11. \A m \in Notes : m \in Keys /\ m \notin b.dirty
    BY <1>4, KeysAssumption DEF BatchState, Keys
  <2>12. t.held = tx[p].held /\ t.ws[n] = note /\ \A m \in Notes : m # n => t.ws[m] = tx[p].ws[m]
    BY <2>1, <2>9, <2>10, <2>11
  <2> HIDE DEF t
  <2>13. TxLocks(t)
    BY <1>3, <2>1, <2>8, <2>12 DEF HandlerChain, TxLocks
  <2>14. \A m \in Notes : NoteHistory(changes, t, m) = NoteHistory(changes, tx[p], m)
    BY <2>8 DEF NoteHistory
  <2>15. TxChain(p, rows, changes, t, n, 0)
    <3>1. Version(NoteView(rows, t, n)) = v + 1
      BY <2>2, <2>3, <2>12 DEF NoteView, Version
    <3>2. GoodLog(L, (v + 1) + 0)
      <4>1. (v + 1) + 0 = v + 1
        BY <2>2
      <4> QED
        BY <2>6, <4>1
    <3>3. TopOwned(L, v + 1, p)
      BY <2>2, <2>6, <2>7 DEF TopOwned, Change
    <3>4. NoteHistory(changes, t, n) = L
      BY <2>1, <2>14 DEF L
    <3> QED
      BY <3>1, <3>2, <3>3, <3>4 DEF TxChain
  <2>16. ASSUME NEW m \in Notes, m # n PROVE TxChain(p, rows, changes, t, m, 0)
    <3>1. NoteView(rows, t, m) = NoteView(rows, tx[p], m)
      BY <2>12, <2>16 DEF NoteView
    <3>2. TxChain(p, rows, changes, tx[p], m, 0)
      BY <2>5, <2>16, ViewChain
    <3> QED
      BY <2>14, <3>1, <3>2 DEF TxChain
  <2> QED
    BY <1>2, <1>5, <2>8, <2>12, <2>13, <2>15, <2>16, NextBatchChain
<1>6. CASE ~(b.changed /\ b.note # Absent) /\ tx' = tx
  <2>1. \A m \in Notes : Extra(pc[p], b, m) = 0
    BY <1>1, <1>3, <1>6 DEF Extra, HandlerChain
  <2>2. \A m \in Notes : TxChain(p, rows, changes, tx[p], m, 0)
    BY <2>1, ViewChain
  <2>3. TxLocks(tx[p]) /\ tx' = [tx EXCEPT ![p] = tx[p]]
    BY <1>3, <1>6, MovesUnchanged DEF HandlerChain
  <2> QED
    BY <1>2, <1>4, <2>2, <2>3, NextBatchChain
<1> QED
  BY <1>5, <1>6 DEF FlushBatch

LEMMA RejectBatchChain ==
  ASSUME TypeInv, ChainInv, NEW p \in Handlers, RejectBatch(p)
  PROVE  ChainInv'
<1> DEFINE n == batch[p].id
           t == Lock(tx[p], n)
           rest == AfterBatch(todo[p], n)
<1>1. pc[p] = "rejected"
  BY DEF RejectBatch
<1>2. NextBatch(p, rest) /\ UNCHANGED <<rows, changes>>
  BY DEF RejectBatch
<1>3. HandlerChain(p, rows, changes, tx[p], save[p], pc[p], batch[p])
  BY DEF ChainInv
<1>4. batch[p] \in BatchState /\ tx \in [Handlers -> TxState]
  BY ChainTypes
<1>5. \A m \in Notes : Extra(pc[p], batch[p], m) = 0
  BY <1>1 DEF Extra, InBatch
<1> HIDE DEF rest
<1>6. CASE tx' = tx
  <2>1. \A m \in Notes : TxChain(p, rows, changes, tx[p], m, 0)
    BY <1>5, ViewChain
  <2>2. TxLocks(tx[p]) /\ tx' = [tx EXCEPT ![p] = tx[p]] /\ tx[p] \in TxState
    BY <1>3, <1>4, <1>6, MovesUnchanged DEF HandlerChain
  <2> QED
    BY <1>2, <2>1, <2>2, NextBatchChain
<1>7. CASE n # NilNote /\ Free(p, n) /\ tx' = [tx EXCEPT ![p] = t]
  <2>1. n \in Keys
    BY <1>4, <1>7 DEF BatchState, Keys
  <2>2. /\ t \in TxState /\ TxLocks(t)
        /\ \A m \in Notes : m \in t.held => m \in tx[p].held \/ Free(p, m)
        /\ \A m \in Notes : TxChain(p, rows, changes, t, m, 0)
    BY <1>5, <1>7, <2>1, LockChain
  <2> HIDE DEF t
  <2> QED
    BY <1>2, <1>7, <2>2, NextBatchChain
<1> QED
  BY <1>4, <1>6, <1>7 DEF RejectBatch

\* The steps before the first and after the last batch.
LEMMA OutsideChain ==
  ASSUME TypeInv, ChainInv, NEW p \in Handlers,
         Publish(p) \/ Respond(p) \/ CommitUnknown(p) \/ \E r \in Requests : Receive(p, r)
  PROVE  ChainInv'
<1>1. pc[p] \notin InBatch
  BY DEF Publish, Respond, CommitUnknown, Receive, InBatch
<1>2. PICK c \in {"lock", "failed", "done"} : pc' = [pc EXCEPT ![p] = c]
  BY DEF Publish, Respond, CommitUnknown, Receive
<1>3. UNCHANGED <<rows, changes, tx, save, batch>>
  BY DEF Publish, Respond, CommitUnknown, Receive, store
<1>4. Moves(p, tx[p], save[p], c, batch[p]) /\ c \notin InBatch
  BY <1>2, <1>3, MovesUnchanged DEF Moves, InBatch
<1>5. tx[p] \in TxState
  BY ChainTypes
<1> QED
  BY <1>1, <1>4, <1>5, OutsideBatch

LEMMA PullPageChain ==
  ASSUME TypeInv, ChainInv, NEW p \in Handlers, PullPage(p), tx'[p] \in TxState
  PROVE  ChainInv'
<1> DEFINE d == req[p].device
<1>1. PICK row : tx' = [tx EXCEPT ![p] = Write(@, d, row)]
  BY DEF PullPage
<1>2. tx \in [Handlers -> TxState]
  BY ChainTypes
<1>3. pc[p] = "page" /\ pc[p] \notin InBatch /\ "commit" \notin InBatch
  BY DEF PullPage, InBatch
<1>4. d \in Devices /\ d \notin Notes
  BY <1>3, CurrentRequest, KeysAssumption
<1> DEFINE t == Write(tx[p], d, row)
<1>5. tx' = [tx EXCEPT ![p] = t] /\ t = tx'[p]
  BY <1>1, <1>2
<1>6. /\ t.pend = tx[p].pend
      /\ \A n \in Notes : t.ws[n] = tx[p].ws[n] /\ (n \in t.held <=> n \in tx[p].held)
  BY <1>2, <1>4 DEF Write, TxState, Keys
<1> HIDE DEF t
<1>7. Moves(p, t, save[p], "commit", batch[p])
  BY <1>5, MovesUnchanged DEF Moves, PullPage
<1> QED
  BY <1>3, <1>5, <1>6, <1>7, OutsideBatch

\* A handler keeps its chain while others commit: it sees no difference in the
\* notes it has locked.
LEMMA OthersCommit ==
  ASSUME NEW q, NEW R, NEW C, NEW S, NEW D, NEW t, NEW sv, NEW c, NEW b \in BatchState,
         b.id = NilNote => b.note = Absent,
         HandlerChain(q, R, C, t, sv, c, b),
         \A n \in Notes : n \in t.held => S[n] = R[n] /\ {x \in D : x.note = n} = {x \in C : x.note = n}
  PROVE  HandlerChain(q, S, D, t, sv, c, b)
<1>1. ASSUME NEW n \in Notes, n \in t.held, NEW u
      PROVE  NoteView(S, u, n) = NoteView(R, u, n) /\ NoteHistory(D, u, n) = NoteHistory(C, u, n)
  <2>1. S[n] = R[n] /\ {x \in D : x.note = n} = {x \in C : x.note = n}
    BY <1>1
  <2>2. \A x : x \in D /\ x.note = n <=> x \in C /\ x.note = n
    BY <2>1
  <2> QED
    BY <2>1, <2>2 DEF NoteView, NoteHistory
<1>2. ASSUME NEW n \in Notes, n \in t.held, NEW u, NEW e, TxChain(q, R, C, u, n, e)
      PROVE  TxChain(q, S, D, u, n, e)
  BY <1>1, <1>2 DEF TxChain
<1>3. \A n \in Notes : n \in t.held => TxChain(q, S, D, t, n, Extra(c, b, n))
  BY <1>2 DEF HandlerChain
<1>4. ASSUME c \in InBatch
      PROVE  /\ TxLocks(sv)
             /\ \A n \in Notes : n \in sv.held => n \in t.held /\ TxChain(q, S, D, sv, n, 0)
             /\ b.changed /\ b.id \in Notes => b.note # Absent
  BY <1>2, <1>4 DEF HandlerChain
<1>5. ASSUME c \in InBatch, b.note # Absent
      PROVE  /\ b.loaded /\ b.id \in t.held /\ NoteView(S, t, b.id) # Absent
             /\ b.note.version = NoteView(S, t, b.id).version
  <2>1. b.id \in Notes
    BY <1>5 DEF BatchState
  <2>2. b.loaded /\ b.id \in t.held /\ NoteView(R, t, b.id) # Absent
        /\ b.note.version = NoteView(R, t, b.id).version
    BY <1>5 DEF HandlerChain
  <2> QED
    BY <1>1, <2>1, <2>2
<1>6. TxLocks(t)
  BY DEF HandlerChain
<1> QED
  BY <1>3, <1>4, <1>5, <1>6 DEF HandlerChain

LEMMA CommitChain ==
  ASSUME TypeInv, ChainInv, NEW p \in Handlers, Commit(p)
  PROVE  ChainInv'
<1>1. PICK c \in {"publish", "respond"} : pc' = [pc EXCEPT ![p] = c]
  BY DEF Commit
<1>2. /\ pc[p] = "commit" /\ rows' = [k \in Keys |-> Visible(p, k)]
      /\ changes' = changes \cup tx[p].pend /\ tx' = [tx EXCEPT ![p] = EmptyTx]
      /\ UNCHANGED <<save, batch>>
  BY DEF Commit, CommitTx
<1>3. /\ tx \in [Handlers -> TxState] /\ pc \in [Handlers -> PCs]
      /\ batch \in [Handlers -> BatchState]
  BY ChainTypes
<1>4. HandlerChain(p, rows, changes, tx[p], save[p], pc[p], batch[p])
  BY DEF ChainInv
<1>5. /\ tx'[p] = EmptyTx /\ pc'[p] = c
      /\ \A q \in Handlers \ {p} : tx'[q] = tx[q] /\ pc'[q] = pc[q]
  BY <1>1, <1>2, <1>3
<1>6. EmptyTx.held = {} /\ EmptyTx.pend = {} /\ \A n \in Notes : EmptyTx.ws[n] = Absent
  BY DEF EmptyTx, Keys
<1>7. \A n \in Notes : /\ rows'[n] = NoteView(rows, tx[p], n)
                       /\ {x \in changes' : x.note = n} = NoteHistory(changes, tx[p], n)
  BY <1>2 DEF Visible, NoteView, NoteHistory, Keys
<1>8. CommittedChain'
  <2>1. SUFFICES ASSUME NEW n \in Notes
                 PROVE  GoodLog({x \in changes' : x.note = n}, Version(rows'[n]))
    BY DEF CommittedChain
  <2> DEFINE v == Version(NoteView(rows, tx[p], n))
  <2>2. Extra(pc[p], batch[p], n) = 0
    BY <1>2 DEF Extra, InBatch
  <2>3. GoodLog(NoteHistory(changes, tx[p], n), v + 0)
    BY <2>2, ViewChain DEF TxChain
  <2>4. NoteView(rows, tx[p], n) = Visible(p, n)
    BY DEF NoteView, Visible
  <2>5. v \in Nat
    BY <2>4, ChainTypes, VersionTyped
  <2>6. v + 0 = v
    BY <2>5
  <2> QED
    BY <1>7, <2>3, <2>6
<1>9. Exclusive'
  BY <1>5, <1>6 DEF ChainInv, Exclusive
<1>10. ASSUME NEW q \in Handlers
       PROVE  HandlerChain(q, rows', changes', tx'[q], save'[q], pc'[q], batch'[q])
  <2>1. CASE q = p
    BY <1>1, <1>5, <1>6, <2>1 DEF HandlerChain, TxLocks, InBatch
  <2>2. CASE q # p
    <3>1. ASSUME NEW n \in Notes, n \in tx[q].held
          PROVE  rows'[n] = rows[n] /\ {x \in changes' : x.note = n} = {x \in changes : x.note = n}
      <4>1. n \notin tx[p].held
        BY <2>2, <3>1 DEF ChainInv, Exclusive
      <4>2. tx[p].ws[n] = Absent /\ \A x \in tx[p].pend : x.note # n
        BY <1>4, <4>1 DEF HandlerChain, TxLocks
      <4> QED
        BY <1>7, <4>2 DEF NoteView, NoteHistory
    <3>2. HandlerChain(q, rows, changes, tx[q], save[q], pc[q], batch[q])
      BY DEF ChainInv
    <3>3. batch[q] \in BatchState /\ (batch[q].id = NilNote => batch[q].note = Absent)
      BY ChainTypes
    <3>4. HandlerChain(q, rows', changes', tx[q], save[q], pc[q], batch[q])
      BY <3>1, <3>2, <3>3, OthersCommit
    <3> QED
      BY <1>2, <1>5, <2>2, <3>4
  <2> QED
    BY <2>1, <2>2
<1> QED
  BY <1>8, <1>9, <1>10 DEF ChainInv

\* Registration and revocation touch no note.
LEMMA DeviceStepChain ==
  ASSUME TypeInv, ChainInv, NEW d \in Devices, NEW row, rows' = [rows EXCEPT ![d] = row],
         UNCHANGED <<changes, tx, save, pc, batch>>
  PROVE  ChainInv'
<1>1. \A n \in Notes : rows'[n] = rows[n]
  BY KeysAssumption DEF TypeInv, StoreInv, Keys
<1>2. CommittedChain' /\ Exclusive'
  BY <1>1 DEF ChainInv, CommittedChain, Exclusive
<1>3. ASSUME NEW q \in Handlers
      PROVE  HandlerChain(q, rows', changes', tx'[q], save'[q], pc'[q], batch'[q])
  <2>1. HandlerChain(q, rows, changes, tx[q], save[q], pc[q], batch[q])
    BY DEF ChainInv
  <2>2. batch[q] \in BatchState /\ (batch[q].id = NilNote => batch[q].note = Absent)
    BY ChainTypes
  <2>3. HandlerChain(q, rows', changes, tx[q], save[q], pc[q], batch[q])
    BY <1>1, <2>1, <2>2, OthersCommit
  <2> QED
    BY <2>3
<1> QED
  BY <1>2, <1>3 DEF ChainInv

-----------------------------------------------------------------------------
(* The invariant and its theorems. *)

LEMMA InitChain == Init => ChainInv
<1>1. SUFFICES ASSUME Init PROVE ChainInv
  OBVIOUS
<1>2. /\ changes = {} /\ \A n \in Notes : rows[n] = Absent
      /\ \A p \in Handlers : tx[p] = EmptyTx /\ pc[p] = "idle"
  BY <1>1, OwnerAssumption, KeysAssumption DEF Init, Keys
<1>3. EmptyTx.held = {} /\ EmptyTx.pend = {} /\ \A n \in Notes : EmptyTx.ws[n] = Absent
  BY DEF EmptyTx, Keys
<1>4. Exclusive
  BY <1>2, <1>3 DEF Exclusive
<1>5. CommittedChain
  BY <1>2 DEF CommittedChain, GoodLog, Version
<1>6. \A p \in Handlers : HandlerChain(p, rows, changes, tx[p], save[p], pc[p], batch[p])
  BY <1>2, <1>3 DEF HandlerChain, TxLocks, InBatch
<1> QED
  BY <1>4, <1>5, <1>6 DEF ChainInv

LEMMA HandlerStepChain ==
  ASSUME TypeInv, DeviceInv, ChainInv, NEW p \in Handlers, HandlerStep(p)
  PROVE  ChainInv'
<1>1. CASE LockDevice(p) \/ FindProcessed(p) \/ RetryOp(p)
  BY <1>1, LockDeviceChain, FindProcessedChain, RetryOpChain
<1>2. CASE RejectMalformed(p) \/ RejectExisting(p) \/ DeleteNoteLookup(p) \/ RejectCategory(p)
  BY <1>2, RejectionsChain
<1>3. CASE CreateNote(p) \/ DeleteNote(p) \/ ModifyNoteProperty(p) \/ ModifyNoteTitle(p)
  BY <1>3, CreateNoteChain, DeleteNoteChain, ModifyNoteChain
<1>4. CASE CreateBlock(p) \/ DeleteBlock(p) \/ ModifyBlock(p)
  BY <1>4, CreateBlockChain, DeleteBlockChain, ModifyBlockChain
<1>5. CASE CreateCategory(p) \/ DeleteCategory(p) \/ ModifyCategory(p)
  BY <1>5, CategoryChain
<1>6. CASE FlushBatch(p) \/ RejectBatch(p) \/ Commit(p)
  BY <1>6, FlushBatchChain, RejectBatchChain, CommitChain
<1>7. CASE Publish(p) \/ Respond(p)
  BY <1>7, OutsideChain
<1>8. CASE PullPage(p)
  <2>1. TypeInv'
    BY <1>8, PullPageType
  <2>2. tx'[p] \in TxState
    BY <2>1 DEF TypeInv, HandlerFunctions
  <2> QED
    BY <1>8, <2>2, PullPageChain
<1> QED
  BY <1>1, <1>2, <1>3, <1>4, <1>5, <1>6, <1>7, <1>8 DEF HandlerStep

LEMMA NextChain ==
  ASSUME TypeInv, DeviceInv, ChainInv, [Next]_vars
  PROVE  ChainInv'
<1>1. CASE \E p \in Handlers : \E r \in Requests : Receive(p, r)
  BY <1>1, OutsideChain
<1>2. CASE \E p \in Handlers : HandlerStep(p)
  BY <1>2, HandlerStepChain
<1>3. CASE \E p \in Handlers : Abort(p) \/ CommitUnknown(p)
  BY <1>3, FailRequestChain, OutsideChain DEF Abort
<1>4. CASE (\E d \in Devices : RegisterDevice(d)) \/ (\E d \in Revocable : RevokeDevice(d))
  <2>1. \E d \in Devices : \E row : rows' = [rows EXCEPT ![d] = row]
    BY <1>4, OwnerAssumption DEF RegisterDevice, RevokeDevice
  <2>2. UNCHANGED <<changes, tx, save, pc, batch>>
    BY <1>4 DEF RegisterDevice, RevokeDevice, handler
  <2> QED
    BY <2>1, <2>2, DeviceStepChain
<1>5. CASE CheckStep \/ UNCHANGED vars
  BY <1>5, CheckStepLeaves DEF vars, ChainInv, Exclusive, CommittedChain
<1> QED
  BY <1>1, <1>2, <1>3, <1>4, <1>5 DEF Next, CheckStep

LEMMA ChainIsInvariant == Spec => [](TypeInv /\ ChainInv)
<1>1. Init => TypeInv /\ DeviceInv /\ ChainInv
  BY InitType, InitChain
<1>2. TypeInv /\ DeviceInv /\ ChainInv /\ [Next]_vars => (TypeInv /\ DeviceInv /\ ChainInv)'
  BY NextType, DeviceInvStep, NextChain
<1> QED
  BY <1>1, <1>2, PTL DEF Spec

\* The change log of a note is a gapless chain of versions that ends at the
\* note's current_version (UpdateNoteState, insertChange), for any number of
\* handlers, notes and operations.
THEOREM VersionChainCorrect == Spec => []VersionChain
<1>1. TypeInv /\ ChainInv => VersionChain
  <2>1. SUFFICES ASSUME TypeInv, ChainInv, NEW n \in Notes
                 PROVE  LET log == {c \in changes : c.note = n} IN
                          /\ rows[n] = Absent => log = {}
                          /\ rows[n] # Absent => {c.result : c \in log} = 1 .. rows[n].version
                          /\ \A c \in log : c.result = c.base + 1
    BY DEF VersionChain
  <2> DEFINE log == {c \in changes : c.note = n}
             v == Version(rows[n])
  <2>2. GoodLog(log, v)
    BY <2>1 DEF ChainInv, CommittedChain
  <2>3. /\ \A c \in log : c.result \in 1 .. v /\ c.result = c.base + 1
        /\ \A i \in 1 .. v : \E c \in log : c.result = i
    BY <2>2 DEF GoodLog
  <2>4. rows[n] = Absent => v = 0
    BY DEF Version
  <2>5. rows[n] # Absent => v = rows[n].version
    BY DEF Version
  <2>6. {c.result : c \in log} = 1 .. v
    BY <2>3
  <2>7. v = 0 => log = {}
    BY <2>3
  <2> HIDE DEF log, v
  <2> QED
    BY <2>3, <2>4, <2>5, <2>6, <2>7 DEF log
<1> QED
  BY <1>1, ChainIsInvariant, PTL

\* No two requests ever both commit an edit of the same version of a note: the
\* row lock and the base version check of existingNote and DeleteNote are enough.
THEOREM NoLostUpdateCorrect == Spec => []NoLostUpdate
<1>1. TypeInv /\ ChainInv => NoLostUpdate
  <2>1. SUFFICES ASSUME ChainInv, NEW c \in changes, NEW d \in changes,
                        c.note \in Notes, c.note = d.note, c.base = d.base
                 PROVE  c.by = d.by
    BY DEF NoLostUpdate
  <2>2. GoodLog({x \in changes : x.note = c.note}, Version(rows[c.note]))
    BY <2>1 DEF ChainInv, CommittedChain
  <2> QED
    BY <2>1, <2>2 DEF GoodLog
<1> QED
  BY <1>1, ChainIsInvariant, PTL

\* A note's changes have their sequences in version order, and the changes of one
\* version come from one request, although sequences are handed out before commit
\* (insertChange runs under the note's row lock).
THEOREM SequenceOrderCorrect == Spec => []SequenceFollowsVersion
<1>1. TypeInv /\ ChainInv => SequenceFollowsVersion
  <2>1. SUFFICES ASSUME TypeInv, ChainInv, NEW c \in changes, NEW d \in changes,
                        c.note \in Notes, c.note = d.note, c.seq < d.seq
                 PROVE  c.result < d.result \/ (c.result = d.result /\ c.by = d.by)
    BY DEF SequenceFollowsVersion
  <2>2. GoodLog({x \in changes : x.note = c.note}, Version(rows[c.note]))
    BY <2>1 DEF ChainInv, CommittedChain
  <2>3. /\ c.result <= d.result
        /\ c.base = d.base => c.by = d.by
        /\ c.result = c.base + 1 /\ d.result = d.base + 1
    BY <2>1, <2>2 DEF GoodLog
  <2>4. /\ c.result \in Nat /\ d.result \in Nat
        /\ c.base \in Nat /\ d.base \in Nat
    BY <2>1 DEF TypeInv, StoreInv, Change
  <2> QED
    BY <2>3, <2>4
<1> QED
  BY <1>1, ChainIsInvariant, PTL
=============================================================================
