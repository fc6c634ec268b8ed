--------------------------- MODULE NoteReplayProofs ---------------------------
(***************************************************************************)
(* Replays and lock waits, for every value of the constants: the proofs of *)
(* ReplayMatchesState, CategoriesMatchLog and NoWaitCircle.                *)
(*                                                                         *)
(* The argument for replays: the log of a note or category grows by one    *)
(* change at a time, always the latest, so what a replay gives is known of *)
(* the longer log once it is known of the shorter one, and no induction    *)
(* over logs is needed.  A transaction holds what it changes, and a block  *)
(* only together with its note, so that nobody else's commit shows in it.  *)
(*                                                                         *)
(* The argument for waits: a handler waits for a note above all the notes  *)
(* it holds, and whoever holds a block holds the block's note.             *)
(***************************************************************************)
EXTENDS NoteBatchProofs, NoteReplay

-----------------------------------------------------------------------------
(* What a replay gives. *)

\* f is the function that Replay defines recursively.
Runs(H, start, f) == f = [c \in H |-> ApplyChange(Before(H, start, f, c), c)]

\* There is exactly one such function, and it ends in v.
Determined(H, start, v) ==
  /\ \E f : Runs(H, start, f)
  /\ \A f, g : Runs(H, start, f) /\ Runs(H, start, g) => f = g
  /\ \A f : Runs(H, start, f) => v = IF H = {} THEN start ELSE f[Latest(H)]

\* Every part of H has a latest change.
Ordered(H) == \A E \in SUBSET H : E # {} => \E c \in E : \A d \in E : d.seq <= c.seq

LEMMA ReplayIs ==
  ASSUME NEW H, NEW start, NEW v, Determined(H, start, v)
  PROVE  Replay(H, start) = v
<1> DEFINE after == CHOOSE f : Runs(H, start, f)
<1>1. Runs(H, start, after)
  BY DEF Determined
<1>2. Replay(H, start) = IF H = {} THEN start ELSE after[Latest(H)]
  BY DEF Replay, Runs
<1> QED
  BY <1>1, <1>2 DEF Determined

LEMMA ReplayNothing ==
  ASSUME NEW start
  PROVE  Determined({}, start, start)
<1>1. \A f : Runs({}, start, f) <=> f = [c \in {} |-> start]
  <2>1. \A f : [c \in {} |-> ApplyChange(Before({}, start, f, c), c)] = [c \in {} |-> start]
    OBVIOUS
  <2> QED
    BY <2>1 DEF Runs
<1> QED
  BY <1>1 DEF Determined

LEMMA OrderedChanges ==
  ASSUME NEW H, H \subseteq Change, NEW s \in Nat, \A c \in H : c.seq <= s
  PROVE  Ordered(H)
<1>1. SUFFICES ASSUME NEW E \in SUBSET H, E # {} PROVE \E c \in E : \A d \in E : d.seq <= c.seq
  BY DEF Ordered
<1> DEFINE T == {c.seq : c \in E}
<1>2. T \subseteq Nat /\ T # {} /\ \A i \in T : i <= s
  BY <1>1 DEF Change
<1>3. Max(T) \in T /\ \A i \in T : i <= Max(T)
  BY <1>2, MaxOfBounded
<1> QED
  BY <1>3

LEMMA LatestIn ==
  ASSUME NEW H, Ordered(H), NEW E \in SUBSET H, E # {}
  PROVE  Latest(E) \in E /\ \A d \in E : d.seq <= Latest(E).seq
  BY DEF Latest, Ordered

\* One more change, later than all of H, is applied to what H gives.
LEMMA ReplayExtends ==
  ASSUME NEW H, NEW start, NEW v, Determined(H, start, v), Ordered(H),
         NEW x, x.seq \in Int, \A d \in H : d.seq \in Int /\ d.seq < x.seq
  PROVE  Determined(H \cup {x}, start, ApplyChange(v, x))
<1> DEFINE G == H \cup {x}
<1>1. x \notin H
  OBVIOUS
<1>2. Earlier(G, x) = H /\ Latest(G) = x /\ G # {}
  <2>1. Earlier(G, x) = H
    BY DEF Earlier
  <2>2. \A c \in G : (\A d \in G : d.seq <= c.seq) <=> c = x
    OBVIOUS
  <2> QED
    BY <2>1, <2>2 DEF Latest
<1>3. ASSUME NEW c \in H PROVE Earlier(G, c) = Earlier(H, c)
  BY <1>1 DEF Earlier
<1>4. ASSUME NEW c \in H, Earlier(H, c) # {} PROVE Latest(Earlier(H, c)) \in H
  BY <1>4, LatestIn DEF Earlier
<1>5. H # {} => Latest(H) \in H
  BY LatestIn
<1>6. ASSUME NEW f, NEW g, \A c \in H : f[c] = g[c]
      PROVE  \A c \in H : Before(G, start, f, c) = Before(H, start, g, c)
  BY <1>3, <1>4, <1>6 DEF Before
<1>7. ASSUME NEW f, Runs(G, start, f)
      PROVE  /\ Runs(H, start, [c \in H |-> f[c]])
             /\ f = [c \in G |-> IF c = x THEN ApplyChange(v, x) ELSE f[c]]
  <2> DEFINE g == [c \in H |-> f[c]]
  <2>1. \A c \in H : f[c] = g[c]
    OBVIOUS
  <2>2. f = [c \in G |-> ApplyChange(Before(G, start, f, c), c)]
    BY <1>7 DEF Runs
  <2>3. \A c \in H : g[c] = ApplyChange(Before(H, start, g, c), c)
    <3>1. \A c \in H : Before(G, start, f, c) = Before(H, start, g, c)
      BY <2>1, <1>6
    <3> HIDE DEF g
    <3>2. \A c \in H : f[c] = ApplyChange(Before(G, start, f, c), c)
      BY <2>2
    <3> QED
      BY <3>1, <3>2, <2>1
  <2>4. Runs(H, start, g)
    <3>1. g = [c \in H |-> g[c]]
      OBVIOUS
    <3> HIDE DEF g
    <3> QED
      BY <3>1, <2>3 DEF Runs
  <2>5. v = IF H = {} THEN start ELSE g[Latest(H)]
    BY <2>4 DEF Determined
  <2>6. Before(G, start, f, x) = v
    BY <2>5, <2>1, <1>2, <1>5 DEF Before
  <2> QED
    BY <2>2, <2>4, <2>6
<1>8. ASSUME NEW f, NEW g, Runs(G, start, f), Runs(G, start, g) PROVE f = g
  <2>1. [c \in H |-> f[c]] = [c \in H |-> g[c]]
    BY <1>7, <1>8 DEF Determined
  <2>2. \A c \in H : f[c] = g[c]
    BY <2>1
  <2>3. /\ f = [c \in G |-> IF c = x THEN ApplyChange(v, x) ELSE f[c]]
        /\ g = [c \in G |-> IF c = x THEN ApplyChange(v, x) ELSE g[c]]
    BY <1>7, <1>8
  <2>4. \A c \in G : (IF c = x THEN ApplyChange(v, x) ELSE f[c]) = IF c = x THEN ApplyChange(v, x) ELSE g[c]
    BY <2>2
  <2>5. [c \in G |-> IF c = x THEN ApplyChange(v, x) ELSE f[c]] = [c \in G |-> IF c = x THEN ApplyChange(v, x) ELSE g[c]]
    BY <2>4
  <2> QED
    BY ONLY <2>3, <2>5
<1>9. \E f : Runs(G, start, f)
  <2>1. PICK g : Runs(H, start, g)
    BY DEF Determined
  <2> DEFINE f == [c \in G |-> IF c = x THEN ApplyChange(v, x) ELSE g[c]]
  <2>2. v = IF H = {} THEN start ELSE g[Latest(H)]
    BY <2>1 DEF Determined
  <2>3. \A c \in H : f[c] = g[c] /\ g[c] = ApplyChange(Before(H, start, g, c), c)
    <3>1. g = [c \in H |-> ApplyChange(Before(H, start, g, c), c)]
      BY <2>1 DEF Runs
    <3> QED
      BY <3>1, <1>1
  <2>4. \A c \in H : Before(G, start, f, c) = Before(H, start, g, c)
    <3> HIDE DEF f
    <3> QED
      BY <2>3, <1>6
  <2>5. f[x] = ApplyChange(v, x) /\ f = [c \in G |-> f[c]]
    OBVIOUS
  <2>6. Before(G, start, f, x) = v
    <3>1. H # {} => f[Latest(H)] = g[Latest(H)]
      BY <2>3, <1>5
    <3> HIDE DEF f
    <3> QED
      BY <3>1, <2>2, <1>2 DEF Before
  <2>7. \A c \in G : f[c] = ApplyChange(Before(G, start, f, c), c)
    <3> HIDE DEF f
    <3> QED
      BY <2>3, <2>4, <2>5, <2>6
  <2>8. Runs(G, start, f)
    <3> HIDE DEF f
    <3> QED
      BY <2>5, <2>7 DEF Runs
  <2> QED
    BY <2>8
<1>10. ASSUME NEW f, Runs(G, start, f) PROVE ApplyChange(v, x) = f[Latest(G)]
  BY <1>7, <1>10, <1>2
<1> QED
  BY <1>2, <1>8, <1>9, <1>10 DEF Determined

-----------------------------------------------------------------------------
(* Notes with their blocks and categories, as a transaction sees them. *)

\* A document is a note with its blocks, or a category.  `Concerns` says which
\* changes are in its log.
Documents == Notes \cup Categories
Concerns(x, s) == IF s \in Notes THEN x.note = s ELSE x.note = NilNote /\ x.op.key = s
History(C, t, s) == {x \in C \cup t.pend : Concerns(x, s)}
Start(s) == IF s \in Notes THEN EmptyDocument ELSE Absent

\* The block rows of note n, and the document, that transaction t sees over the
\* tables R.
BlockOf(row, n) == IF row # Absent /\ row.note = n THEN row ELSE Absent
BlocksOf(R, t, n) == [k \in Blocks |-> BlockOf(NoteView(R, t, k), n)]
Content(R, t, s) ==
  IF s \in Notes THEN [note |-> NoteView(R, t, s), blocks |-> BlocksOf(R, t, s)] ELSE NoteView(R, t, s)

\* What the batch b makes of its note once it is flushed.
DraftBlocks(R, t, b) == [k \in Blocks |-> IF b.blocks[k] # Absent THEN b.blocks[k] ELSE BlocksOf(R, t, b.id)[k]]
DraftNote(R, t, b) == IF b.changed THEN [b.note EXCEPT !.version = @ + 1] ELSE NoteView(R, t, b.id)
Draft(R, t, c, b, s) ==
  IF c \in InBatch /\ s \in Notes /\ s = b.id
  THEN [note |-> DraftNote(R, t, b), blocks |-> DraftBlocks(R, t, b)]
  ELSE Content(R, t, s)

\* A transaction holds the rows it writes and the documents it logs, and a block
\* only together with its note, which its writes do not change.
TxRows(R, t) ==
  /\ \A k \in Keys : t.ws[k] # Absent => k \in t.held
  /\ \A x \in t.pend : \A s \in Documents : Concerns(x, s) => s \in t.held
  /\ \A k \in Blocks : k \in t.held =>
       /\ NoteView(R, t, k) # Absent /\ NoteView(R, t, k).note \in t.held
       /\ R[k] # Absent => R[k].note = NoteView(R, t, k).note

\* The cached blocks are blocks of the batch's note, locked and, unless they are
\* dirty, as stored.
BlocksCached(R, t, b) ==
  /\ \A k \in Blocks : b.blocks[k] # Absent =>
       /\ k \in t.held /\ b.blocks[k].note = b.id /\ NoteView(R, t, k).note = b.id
       /\ k \notin b.dirty => NoteView(R, t, k) = b.blocks[k]
  /\ \A k \in b.dirty : b.blocks[k] # Absent

\* A batch that has accepted nothing has cached at most the note, as stored.
CacheFresh(R, t, b) ==
  ~b.changed => /\ \A k \in Blocks : b.blocks[k] = Absent
                /\ b.note # Absent => b.note = NoteView(R, t, b.id)

\* Notes are locked in the order of their ids, the batch's own one last.
RanksOK(t, sv, c, b) ==
  /\ c \in PushWork => \A n \in Notes : n \in t.held => n <= NoteRank(b.id)
  /\ c \in InBatch => \A n \in Notes : n \in sv.held => n < NoteRank(b.id)

TxReplays(R, C, t, s) == Determined(History(C, t, s), Start(s), Content(R, t, s))

DocumentsOK(R, C, t, sv, c, b) ==
  /\ TxRows(R, t) /\ RanksOK(t, sv, c, b)
  /\ \A s \in Documents : s \in t.held => Determined(History(C, t, s), Start(s), Draft(R, t, c, b, s))
  /\ c \in InBatch =>
       /\ TxRows(R, sv) /\ sv.held \subseteq t.held
       /\ \A s \in Documents : s \in sv.held => TxReplays(R, C, sv, s)
       /\ BlocksCached(R, t, b) /\ CacheFresh(R, t, b)

\* No row is locked twice.
KeysExclusive ==
  \A p, q \in Handlers : p # q => \A k \in Keys : k \notin tx[p].held \/ k \notin tx[q].held

ReplayInv ==
  /\ KeysExclusive
  /\ \A s \in Documents : TxReplays(rows, changes, EmptyTx, s)
  /\ \A p \in Handlers : DocumentsOK(rows, changes, tx[p], save[p], pc[p], batch[p])

LEMMA DocumentKeys ==
  /\ Documents \subseteq Keys /\ Blocks \subseteq Keys /\ Notes \cap Blocks = {} /\ Documents \cap Blocks = {}
  /\ Documents \cap Devices = {} /\ Blocks \cap Devices = {} /\ Notes \cap Categories = {}
  /\ NilNote \notin Notes /\ \A n \in Notes : n \in Int
  BY KeysAssumption DEF Documents, Keys

\* Two transactions that see the same rows see the same document.
LEMMA ContentSame ==
  ASSUME NEW R, NEW S, NEW t, NEW u, NEW s, NoteView(R, t, s) = NoteView(S, u, s),
         s \in Notes => \A k \in Blocks : BlockOf(NoteView(R, t, k), s) = BlockOf(NoteView(S, u, k), s)
  PROVE  Content(R, t, s) = Content(S, u, s)
<1>1. CASE s \in Notes
  <2>1. BlocksOf(R, t, s) = BlocksOf(S, u, s)
    BY <1>1 DEF BlocksOf
  <2> QED
    BY <1>1, <2>1 DEF Content
<1>2. CASE s \notin Notes
  BY <1>2 DEF Content
<1> QED
  BY <1>1, <1>2

\* A transaction that does not hold a document sees it as it is committed.
LEMMA UnheldContent ==
  ASSUME NEW R, NEW C, NEW t, TxRows(R, t), NEW s \in Documents, s \notin t.held
  PROVE  /\ Content(R, t, s) = Content(R, EmptyTx, s) /\ History(C, t, s) = History(C, EmptyTx, s)
         /\ NoteView(R, t, s) = R[s]
<1>1. t.ws[s] = Absent /\ \A x \in t.pend : ~Concerns(x, s)
  BY DocumentKeys DEF TxRows
<1>2. \A k \in Keys : NoteView(R, EmptyTx, k) = R[k]
  BY EmptyTxFacts DEF NoteView
<1>3. NoteView(R, t, s) = R[s] /\ NoteView(R, EmptyTx, s) = R[s]
  BY <1>1, <1>2, DocumentKeys DEF NoteView
<1>4. ASSUME NEW k \in Blocks
      PROVE  BlockOf(NoteView(R, t, k), s) = BlockOf(R[k], s)
  <2>1. CASE t.ws[k] = Absent
    BY <2>1 DEF NoteView
  <2>2. CASE t.ws[k] # Absent
    <3>1. k \in t.held
      BY <2>2, DocumentKeys DEF TxRows
    <3>2. NoteView(R, t, k).note # s /\ (R[k] # Absent => R[k].note # s)
      BY <3>1 DEF TxRows
    <3> QED
      BY <3>2 DEF BlockOf
  <2> QED
    BY <2>1, <2>2
<1>5. \A k \in Blocks : BlockOf(NoteView(R, t, k), s) = BlockOf(NoteView(R, EmptyTx, k), s)
  BY <1>2, <1>4, DocumentKeys
<1>6. Content(R, t, s) = Content(R, EmptyTx, s)
  BY <1>3, <1>5, ContentSame
<1>7. History(C, t, s) = History(C, EmptyTx, s)
  BY <1>1, EmptyTxFacts DEF History
<1> QED
  BY <1>3, <1>6, <1>7

\* The facts about types that the proofs below use.
LEMMA ReplayTypes ==
  ASSUME TypeInv, ChainInv, NEW p \in Handlers
  PROVE  /\ tx[p] \in TxState /\ save[p] \in TxState /\ batch[p] \in BatchState /\ pc[p] \in PCs
         /\ tx[p].held \subseteq Keys /\ save[p].held \subseteq Keys
         /\ batch[p].id \in Notes \cup {NilNote} /\ (batch[p].id = NilNote => batch[p].note = Absent)
         /\ NoteRank(batch[p].id) \in Int
         /\ pc[p] \in InBatch =>
              /\ batch[p].note # Absent => batch[p].loaded /\ batch[p].id \in tx[p].held
              /\ batch[p].changed /\ batch[p].id \in Notes => batch[p].note # Absent
<1>1. HandlerChain(p, rows, changes, tx[p], save[p], pc[p], batch[p])
  BY DEF ChainInv
<1>2. /\ tx[p] \in TxState /\ save[p] \in TxState /\ batch[p] \in BatchState /\ pc[p] \in PCs
      /\ batch[p].id = NilNote => batch[p].note = Absent
  BY ChainTypes
<1>3. batch[p].id \in Notes \cup {NilNote}
  BY <1>2 DEF BatchState
<1>4. NoteRank(batch[p].id) \in Int
  BY <1>3, NoteRankTyped
<1> QED
  BY <1>1, <1>2, <1>3, <1>4 DEF HandlerChain, TxState

\* The draft of a batch that has accepted nothing is the stored document.
LEMMA FreshDraft ==
  ASSUME NEW R, NEW t, NEW c, NEW b, ~b.changed, CacheFresh(R, t, b), NEW s
  PROVE  Draft(R, t, c, b, s) = Content(R, t, s)
<1>1. CASE c \in InBatch /\ s \in Notes /\ s = b.id
  <2>1. DraftNote(R, t, b) = NoteView(R, t, s)
    BY <1>1 DEF DraftNote
  <2>2. DraftBlocks(R, t, b) = BlocksOf(R, t, s)
    BY <1>1 DEF DraftBlocks, BlocksOf, CacheFresh
  <2> QED
    BY <1>1, <2>1, <2>2 DEF Draft, Content
<1> QED
  BY <1>1 DEF Draft

\* What the log gives of a document is what handler p is about to commit, whether
\* it holds the document or not.
LEMMA ViewReplay ==
  ASSUME TypeInv, ChainInv, ReplayInv, NEW p \in Handlers, NEW s \in Documents
  PROVE  Determined(History(changes, tx[p], s), Start(s), Draft(rows, tx[p], pc[p], batch[p], s))
<1>1. DocumentsOK(rows, changes, tx[p], save[p], pc[p], batch[p]) /\ TxReplays(rows, changes, EmptyTx, s)
  BY DEF ReplayInv
<1>2. CASE s \in tx[p].held
  BY <1>1, <1>2 DEF DocumentsOK
<1>3. CASE s \notin tx[p].held
  <2>1. TxReplays(rows, changes, tx[p], s)
    <3>1. /\ Content(rows, tx[p], s) = Content(rows, EmptyTx, s)
          /\ History(changes, tx[p], s) = History(changes, EmptyTx, s)
      BY <1>1, <1>3, UnheldContent DEF DocumentsOK
    <3> QED
      BY <1>1, <3>1 DEF TxReplays
  <2>2. CASE pc[p] \in InBatch /\ s \in Notes /\ s = batch[p].id
    <3>1. ~batch[p].changed
      BY <1>3, <2>2, ReplayTypes
    <3>2. CacheFresh(rows, tx[p], batch[p])
      BY <1>1, <2>2 DEF DocumentsOK
    <3> QED
      BY <2>1, <3>1, <3>2, FreshDraft DEF TxReplays
  <2>3. CASE ~(pc[p] \in InBatch /\ s \in Notes /\ s = batch[p].id)
    BY <2>1, <2>3 DEF TxReplays, Draft
  <2> QED
    BY <2>2, <2>3
<1> QED
  BY <1>2, <1>3

-----------------------------------------------------------------------------
(* Steps of one handler. *)

\* A step of p that commits nothing preserves the invariant if the locks it takes
\* are free and p's documents are right again.
LEMMA ReplayStep ==
  ASSUME TypeInv, ReplayInv, NEW p \in Handlers, Alone(p), rows' = rows, changes' = changes,
         \A k \in Keys : k \in tx'[p].held => k \in tx[p].held \/ Free(p, k),
         DocumentsOK(rows, changes, tx'[p], save'[p], pc'[p], batch'[p])
  PROVE  ReplayInv'
<1>1. KeysExclusive'
  <2>1. SUFFICES ASSUME NEW q \in Handlers, NEW r \in Handlers, q # r, NEW k \in Keys,
                        k \in tx'[q].held, k \in tx'[r].held
                 PROVE  FALSE
    BY DEF KeysExclusive
  <2>2. \A h \in Handlers : k \in tx'[h].held => k \in tx[h].held \/ (h = p /\ Free(p, k))
    BY DEF Alone
  <2>3. k \notin tx[q].held \/ k \notin tx[r].held
    BY <2>1 DEF ReplayInv, KeysExclusive
  <2>4. CASE q = p
    BY <2>1, <2>2, <2>3, <2>4 DEF Free, Alone
  <2>5. CASE r = p
    BY <2>1, <2>2, <2>3, <2>5 DEF Free, Alone
  <2>6. CASE q # p /\ r # p
    BY <2>1, <2>2, <2>3, <2>6
  <2> QED
    BY <2>4, <2>5, <2>6
<1>2. \A s \in Documents : TxReplays(rows', changes', EmptyTx, s)
  BY DEF ReplayInv
<1>3. \A q \in Handlers : DocumentsOK(rows', changes', tx'[q], save'[q], pc'[q], batch'[q])
  BY DEF ReplayInv, Alone
<1> QED
  BY <1>1, <1>2, <1>3 DEF ReplayInv

\* Without a transaction there is nothing to be right.
LEMMA NoDocuments ==
  ASSUME NEW R, NEW C, NEW sv, NEW c, c \notin PushWork, NEW b
  PROVE  DocumentsOK(R, C, EmptyTx, sv, c, b)
<1>1. c \notin InBatch
  BY DEF PushWork, InBatch
<1>2. TxRows(R, EmptyTx)
  BY EmptyTxFacts DEF TxRows
<1> QED
  BY <1>1, <1>2, EmptyTxFacts DEF DocumentsOK, RanksOK

LEMMA ReplayIdle ==
  ASSUME TypeInv, DevicesInv, ReplayInv, NEW p \in Handlers, Alone(p),
         FailShape(p) \/ ReceiveShape(p) \/ PublishShape(p) \/ RespondShape(p) \/ UnknownShape(p)
  PROVE  ReplayInv'
<1>1. tx'[p] = EmptyTx /\ pc'[p] \notin PushWork /\ rows' = rows /\ changes' = changes
  <2>1. DeviceOK(p, rows, tx[p], save[p], pc[p], req[p], reply[p])
    BY DeviceHandler
  <2>2. pc[p] \notin Working => tx[p] = EmptyTx
    BY <2>1 DEF DeviceOK
  <2> QED
    BY <2>2 DEF FailShape, ReceiveShape, PublishShape, RespondShape, UnknownShape, Silent, Working, PushWork
<1>2. DocumentsOK(rows, changes, tx'[p], save'[p], pc'[p], batch'[p])
  BY <1>1, NoDocuments
<1> QED
  BY <1>1, <1>2, EmptyTxFacts, ReplayStep

\* Steps between two operations of a batch.
LEMMA ReplayQuiet ==
  ASSUME TypeInv, ReplayInv, NEW p \in Handlers, Alone(p), QuietShape(p)
  PROVE  ReplayInv'
<1>1. /\ pc[p] \in InBatch /\ pc'[p] \in InBatch /\ tx'[p] = tx[p] /\ save'[p] = save[p]
      /\ batch'[p] = batch[p] /\ rows' = rows /\ changes' = changes
  BY DEF QuietShape, SameBatch, Silent, InBatch
<1>2. DocumentsOK(rows, changes, tx[p], save[p], pc[p], batch[p])
  BY DEF ReplayInv
<1>3. pc[p] \in PushWork
  BY <1>1 DEF InBatch, PushWork
<1>4. \A s : Draft(rows, tx[p], pc'[p], batch[p], s) = Draft(rows, tx[p], pc[p], batch[p], s)
  BY <1>1 DEF Draft
<1>5. RanksOK(tx[p], save[p], pc'[p], batch[p])
  BY <1>1, <1>2, <1>3 DEF DocumentsOK, RanksOK
<1>6. DocumentsOK(rows, changes, tx[p], save[p], pc'[p], batch[p])
  BY <1>1, <1>2, <1>4, <1>5 DEF DocumentsOK
<1> QED
  BY <1>1, <1>6, ReplayStep

\* A rejected operation goes back to the savepoint of its batch.
LEMMA ReplayReject ==
  ASSUME TypeInv, ChainInv, ReplayInv, NEW p \in Handlers, pc[p] \in {"apply", "lookup"},
         NEW reason, NEW version, RejectOp(p, reason, version)
  PROVE  ReplayInv'
<1>1. /\ pc[p] \in InBatch /\ pc'[p] = "rejected" /\ tx'[p] = save[p] /\ save'[p] = save[p]
      /\ batch'[p] = batch[p] /\ rows' = rows /\ changes' = changes /\ Alone(p)
  BY ShapeTypes DEF RejectOp, RollbackToSavepoint, InBatch, Alone
<1>2. DocumentsOK(rows, changes, tx[p], save[p], pc[p], batch[p])
  BY DEF ReplayInv
<1>3. "rejected" \notin InBatch
  BY DEF InBatch
<1>4. RanksOK(save[p], save[p], "rejected", batch[p])
  <2>1. \A n \in Notes : n \in save[p].held => n < NoteRank(batch[p].id)
    BY <1>1, <1>2 DEF DocumentsOK, RanksOK
  <2>2. NoteRank(batch[p].id) \in Int
    BY ReplayTypes
  <2>3. \A n \in Notes : n \in save[p].held => n <= NoteRank(batch[p].id)
    BY <2>1, <2>2, DocumentKeys
  <2> QED
    BY <1>3, <2>3 DEF RanksOK
<1>5. \A s : Draft(rows, save[p], "rejected", batch[p], s) = Content(rows, save[p], s)
  BY <1>3 DEF Draft
<1>6. DocumentsOK(rows, changes, save[p], save[p], "rejected", batch[p])
  BY <1>1, <1>2, <1>3, <1>4, <1>5 DEF DocumentsOK, TxReplays
<1>7. \A k \in Keys : k \in save[p].held => k \in tx[p].held
  BY <1>1, <1>2 DEF DocumentsOK
<1> QED
  BY <1>1, <1>6, <1>7, ReplayStep

\* A savepoint is opened on a transaction without a batch under way.
LEMMA ReplayOpens ==
  ASSUME TypeInv, ReplayInv, NEW p \in Handlers, Alone(p), rows' = rows, changes' = changes,
         NEW ops \in Seq(Operation), OpensBatch(p, ops),
         \A k \in Keys : k \in tx'[p].held => k \in tx[p].held \/ Free(p, k),
         TxRows(rows, tx'[p]), \A s \in Documents : s \in tx'[p].held => TxReplays(rows, changes, tx'[p], s),
         \A o \in Elements(ops) : \A n \in Notes : n \in tx'[p].held => n < NoteRank(o.note)
  PROVE  ReplayInv'
<1> DEFINE m == IF ops = <<>> THEN NilNote ELSE Head(ops).note
           b == NewBatch(m)
           t == tx'[p]
           c == IF ops = <<>> THEN "commit" ELSE "find"
<1>1. save'[p] = t /\ batch'[p] = b /\ pc'[p] = c
  BY DEF OpensBatch
<1>2. b.id = m /\ b.note = Absent /\ b.changed = FALSE /\ b.dirty = {} /\ \A k \in Blocks : b.blocks[k] = Absent
  BY DEF NewBatch
<1> HIDE DEF b, m, t
<1>3. BlocksCached(rows, t, b) /\ CacheFresh(rows, t, b)
  BY <1>2 DEF BlocksCached, CacheFresh
<1>4. \A s : Draft(rows, t, c, b, s) = Content(rows, t, s)
  BY <1>2, <1>3, FreshDraft
<1>5. RanksOK(t, t, c, b)
  <2>1. CASE ops = <<>>
    BY <2>1 DEF RanksOK, PushWork, InBatch
  <2>2. CASE ops # <<>>
    <3>1. 1 \in 1 .. Len(ops) /\ m = ops[1].note
      BY <2>2 DEF m
    <3>2. ops[1] \in Elements(ops) /\ NoteRank(m) \in Int /\ Notes \subseteq Int
      BY <3>1, SequenceElements, KeysAssumption
    <3>3. \A n \in Notes : n \in t.held => n < NoteRank(m)
      BY <3>1, <3>2 DEF t
    <3> QED
      BY <1>2, <3>2, <3>3 DEF RanksOK
  <2> QED
    BY <2>1, <2>2
<1>6. DocumentsOK(rows, changes, t, t, c, b)
  BY <1>3, <1>4, <1>5 DEF DocumentsOK, TxReplays, t
<1> QED
  BY <1>1, <1>6, ReplayStep DEF t

\* Rows outside notes, blocks and categories do not matter.
LEMMA DevicesApart ==
  ASSUME NEW R, NEW C, NEW t \in TxState, NEW u \in TxState, u.pend = t.pend, TxRows(R, t),
         \A k \in Documents \cup Blocks : u.ws[k] = t.ws[k] /\ (k \in u.held <=> k \in t.held),
         \A k \in Devices : u.ws[k] # Absent => k \in u.held,
         \A k \in Blocks : k \in t.held => NoteView(R, t, k) \in BlockRow
  PROVE  /\ TxRows(R, u)
         /\ \A s \in Documents : Content(R, u, s) = Content(R, t, s) /\ History(C, u, s) = History(C, t, s)
<1>1. \A k \in Documents \cup Blocks : NoteView(R, u, k) = NoteView(R, t, k)
  BY DEF NoteView
<1>2. TxRows(R, u)
  <2>1. \A k \in Keys : u.ws[k] # Absent => k \in u.held
    BY DEF TxRows, Keys, Documents
  <2>2. \A x \in u.pend : \A s \in Documents : Concerns(x, s) => s \in u.held
    BY DEF TxRows
  <2>3. \A k \in Blocks : k \in u.held =>
          /\ NoteView(R, u, k) # Absent /\ NoteView(R, u, k).note \in u.held
          /\ R[k] # Absent => R[k].note = NoteView(R, u, k).note
    <3>1. \A k \in Blocks : k \in t.held => NoteView(R, t, k).note \in Documents
      BY DEF BlockRow, Documents
    <3> QED
      BY <1>1, <3>1 DEF TxRows
  <2> QED
    BY <2>1, <2>2, <2>3 DEF TxRows
<1>3. \A s \in Documents : Content(R, u, s) = Content(R, t, s)
  BY <1>1, ContentSame
<1>4. \A s \in Documents : History(C, u, s) = History(C, t, s)
  BY DEF History
<1> QED
  BY <1>2, <1>3, <1>4

\* The device lock, and the cursor a pull writes.
LEMMA ReplayDevice ==
  ASSUME TypeInv, TypeInv', ChainInv, DevicesInv, ReplayInv, NEW p \in Handlers, Alone(p),
         LockShape(p) \/ PageShape(p)
  PROVE  ReplayInv'
<1> DEFINE d == req[p].device
<1>1. pc[p] \in {"lock", "page"} /\ pc[p] \notin PushWork /\ pc[p] \notin InBatch
  BY DEF LockShape, PageShape, PushWork, InBatch
<1>2. d \in Devices /\ d \in Keys /\ d \notin Documents \cup Blocks /\ req[p].ops \in Seq(Operation)
  BY <1>1, CurrentRequest, DocumentKeys DEF Keys
<1>3. DocumentsOK(rows, changes, tx[p], save[p], pc[p], batch[p]) /\ tx[p] \in TxState /\ tx'[p] \in TxState
  BY ReplayTypes, ShapeTypes DEF ReplayInv, TypeInv, HandlerFunctions
<1>4. /\ tx'[p].pend = tx[p].pend /\ tx'[p].held = tx[p].held \cup {d}
      /\ \A k \in Keys : k # d => tx'[p].ws[k] = tx[p].ws[k]
  <2>1. CASE LockShape(p)
    BY <1>3, <2>1 DEF LockShape, Lock, TxState
  <2>2. CASE PageShape(p)
    <3>1. PICK row : tx'[p] = Write(tx[p], d, row)
      BY <2>2 DEF PageShape
    <3> HIDE DEF d
    <3> QED
      BY <1>3, <3>1 DEF Write, TxState
  <2> QED
    BY <2>1, <2>2
<1>5. d \in tx[p].held \/ Free(p, d)
  <2>1. CASE LockShape(p)
    BY <2>1 DEF LockShape
  <2>2. CASE PageShape(p)
    <3>1. DeviceOK(p, rows, tx[p], save[p], pc[p], req[p], reply[p]) /\ pc[p] = "page"
      BY <2>2, DeviceHandler DEF PageShape
    <3> QED
      BY <1>2, <3>1 DEF DeviceOK, HoldsDevice, Working
  <2> QED
    BY <2>1, <2>2
<1>6. \A k \in Devices : tx'[p].ws[k] # Absent => k \in tx'[p].held
  BY <1>3, <1>4 DEF DocumentsOK, TxRows, Keys
<1>7. \A k \in Blocks : k \in tx[p].held => NoteView(rows, tx[p], k) \in BlockRow
  <2>1. \A k \in Blocks : Visible(p, k) \in BlockRow \cup {Absent} /\ NoteView(rows, tx[p], k) = Visible(p, k)
    BY VisibleTyped DEF TypedRow, Keys, NoteView, Visible
  <2> QED
    BY <1>3, <2>1 DEF DocumentsOK, TxRows
<1>8. /\ TxRows(rows, tx'[p])
      /\ \A s \in Documents : /\ Content(rows, tx'[p], s) = Content(rows, tx[p], s)
                              /\ History(changes, tx'[p], s) = History(changes, tx[p], s)
  BY <1>2, <1>3, <1>4, <1>6, <1>7, DocumentKeys, DevicesApart DEF DocumentsOK
<1>9. \A s \in Documents : s \in tx'[p].held => TxReplays(rows, changes, tx'[p], s)
  BY <1>1, <1>2, <1>3, <1>4, <1>8 DEF DocumentsOK, TxReplays, Draft
<1>10. \A k \in Keys : k \in tx'[p].held => k \in tx[p].held \/ Free(p, k)
  BY <1>4, <1>5
<1>11. rows' = rows /\ changes' = changes
  BY DEF LockShape, PageShape, Silent
<1>12. CASE LockShape(p) /\ OpensBatch(p, SortedOperations(req[p].ops))
  <2>1. DeviceOK(p, rows, tx[p], save[p], pc[p], req[p], reply[p]) /\ pc[p] = "lock"
    BY <1>12, DeviceHandler DEF LockShape
  <2>2. tx[p].held = {}
    BY <2>1, EmptyTxFacts DEF DeviceOK, Working
  <2>3. \A n \in Notes : n \notin tx'[p].held
    BY <1>2, <1>4, <2>2 DEF Documents
  <2> QED
    BY <1>2, <1>8, <1>9, <1>10, <1>11, <1>12, <2>3, SortedOperationsIsSeq, ReplayOpens
<1>13. CASE pc'[p] \in {"page", "commit"} /\ SameBatch(p)
  <2>1. pc'[p] \notin InBatch /\ pc'[p] \notin PushWork
    BY <1>13 DEF InBatch, PushWork
  <2>2. DocumentsOK(rows, changes, tx'[p], save'[p], pc'[p], batch'[p])
    BY <1>8, <1>9, <2>1 DEF DocumentsOK, RanksOK, TxReplays, Draft
  <2> QED
    BY <1>10, <1>11, <2>2, ReplayStep
<1> QED
  BY <1>12, <1>13 DEF LockShape, PageShape

-----------------------------------------------------------------------------
(* Accepted operations. *)

LEMMA AcceptOpShape ==
  ASSUME TypeInv, NEW p \in Handlers, pc[p] = "apply", NEW t, NEW b, NEW base, NEW result,
         AcceptOp(p, t, b, base, result), NEW x, x = NewChange(p, Op(p), base, result)
  PROVE  /\ Alone(p) /\ tx'[p] = Logged(t, x) /\ batch'[p] = Marked(b, x) /\ pc'[p] \in {"find", "flush"}
         /\ save'[p] = save[p] /\ rows' = rows /\ changes' = changes
<1>1. /\ tx' = [tx EXCEPT ![p] = Logged(t, x)] /\ batch' = [batch EXCEPT ![p] = Marked(b, x)]
      /\ Advance(p) /\ UNCHANGED <<rows, changes, save, req, failure, reply>>
  BY DEF AcceptOp, Logged, Marked
<1>2. tx'[p] = Logged(t, x) /\ batch'[p] = Marked(b, x) /\ Advances(p)
  BY <1>1, ShapeTypes DEF Advance, Advances
<1>3. Alone(p)
  BY <1>1, ShapeTypes DEF Alone, Advance
<1> QED
  BY <1>1, <1>2, <1>3 DEF Advances

\* The change row of the operation is later than all of the log it joins.
LEMMA NewChangeFacts ==
  ASSUME TypeInv, ChainInv, ReplayInv, NEW p \in Handlers, pc[p] = "apply", NEW base \in Nat, NEW result \in Nat,
         NEW x, x = NewChange(p, Op(p), base, result), NEW s \in Documents
  PROVE  /\ x \in Change /\ x.note = Op(p).note /\ x.op = Op(p) /\ x.owner = User(p) /\ x.result = result
         /\ x.seq \in Int /\ \A d \in History(changes, tx[p], s) : d.seq \in Int /\ d.seq < x.seq
         /\ Determined(History(changes, tx[p], s) \cup {x}, Start(s),
                       ApplyChange(Draft(rows, tx[p], "apply", batch[p], s), x))
<1>1. /\ x \in Change /\ x.seq = seq + 1 /\ x.note = Op(p).note /\ x.op = Op(p) /\ x.owner = User(p)
      /\ x.result = result
  <2>1. Op(p) \in Operation /\ User(p) \in Users /\ req[p].device \in Devices /\ seq \in Nat
    BY CurrentRequest, ChainTypes
  <2>2. Op(p).note \in Notes \cup {NilNote}
    BY <2>1 DEF Operation
  <2> QED
    BY <2>1, <2>2 DEF NewChange, Change
<1> DEFINE H == History(changes, tx[p], s)
<1>2. H \subseteq Change /\ seq \in Nat /\ \A d \in H : d.seq <= seq
  BY ChainTypes DEF History
<1>3. Ordered(H)
  BY <1>2, OrderedChanges
<1>4. x.seq \in Int /\ \A d \in H : d.seq \in Int /\ d.seq < x.seq
  BY <1>1, <1>2 DEF Change
<1>5. Determined(H, Start(s), Draft(rows, tx[p], "apply", batch[p], s))
  BY ViewReplay
<1> HIDE DEF H
<1>6. Determined(H \cup {x}, Start(s), ApplyChange(Draft(rows, tx[p], "apply", batch[p], s), x))
  BY <1>3, <1>4, <1>5, ReplayExtends
<1> QED
  BY <1>1, <1>4, <1>6 DEF H

\* An operation of note n is accepted.  It locks the note and the blocks W of it, and
\* makes of the batch's draft what the change says.
AcceptsNote(p, n, W, t, b, base, result, x) ==
  /\ pc[p] = "apply" /\ n \in Notes /\ Op(p).note = n /\ batch[p].id = n /\ (n \in tx[p].held \/ Free(p, n))
  /\ W \subseteq Blocks /\ \A k \in W : Free(p, k)
  /\ t \in TxState /\ t.pend = tx[p].pend /\ t.held = tx[p].held \cup {n} \cup W
  /\ \A k \in Keys \ (W \cup {n}) : t.ws[k] = tx[p].ws[k]
  /\ \A k \in W : NoteView(rows, t, k) # Absent /\ NoteView(rows, t, k).note = n
  /\ \A k \in W : Visible(p, k) # Absent => Visible(p, k).note = n
  /\ b \in BatchState /\ b.id = n /\ BlocksCached(rows, t, b)
  /\ base \in Nat /\ result \in Nat /\ AcceptOp(p, t, b, base, result) /\ x = NewChange(p, Op(p), base, result)
  /\ [b.note EXCEPT !.version = @ + 1] = ApplyToNote(DraftNote(rows, tx[p], batch[p]), x)
  /\ \A k \in Blocks : DraftBlocks(rows, t, b)[k] = ApplyToBlock(DraftBlocks(rows, tx[p], batch[p])[k], k, x)

LEMMA AcceptNoteDocs ==
  ASSUME TypeInv, ChainInv, ReplayInv, NEW p \in Handlers, NEW n, NEW W, NEW t, NEW b, NEW base, NEW result, NEW x,
         AcceptsNote(p, n, W, t, b, base, result, x)
  PROVE  ReplayInv'
<1> SUFFICES
      ASSUME pc[p] = "apply", n \in Notes, Op(p).note = n, batch[p].id = n, n \in tx[p].held \/ Free(p, n),
             W \subseteq Blocks, \A k \in W : Free(p, k),
             t \in TxState, t.pend = tx[p].pend, t.held = tx[p].held \cup {n} \cup W,
             \A k \in Keys \ (W \cup {n}) : t.ws[k] = tx[p].ws[k],
             \A k \in W : NoteView(rows, t, k) # Absent /\ NoteView(rows, t, k).note = n,
             \A k \in W : Visible(p, k) # Absent => Visible(p, k).note = n,
             b \in BatchState, b.id = n, BlocksCached(rows, t, b),
             base \in Nat, result \in Nat, AcceptOp(p, t, b, base, result), x = NewChange(p, Op(p), base, result),
             [b.note EXCEPT !.version = @ + 1] = ApplyToNote(DraftNote(rows, tx[p], batch[p]), x),
             \A k \in Blocks : DraftBlocks(rows, t, b)[k] = ApplyToBlock(DraftBlocks(rows, tx[p], batch[p])[k], k, x)
      PROVE  ReplayInv'
  BY DEF AcceptsNote
<1> DEFINE u == Logged(t, x)
           e == Marked(b, x)
           c == pc'[p]
<1>1. /\ Alone(p) /\ tx'[p] = u /\ batch'[p] = e /\ c \in {"find", "flush"}
      /\ save'[p] = save[p] /\ rows' = rows /\ changes' = changes
  BY AcceptOpShape
<1>2. u.ws = t.ws /\ u.held = t.held /\ u.pend = tx[p].pend \cup {x}
  BY DEF TxState, Logged
<1>3. e.id = n /\ e.note = b.note /\ e.blocks = b.blocks /\ e.dirty = b.dirty /\ e.changed = TRUE
  BY DEF BatchState, Marked
<1> HIDE DEF u, e
<1>4. DocumentsOK(rows, changes, tx[p], save[p], "apply", batch[p])
  BY DEF ReplayInv
<1>5. "apply" \in InBatch /\ "apply" \in PushWork /\ c \in InBatch
  BY <1>1 DEF InBatch, PushWork
<1>6. x.note = n /\ x.note # NilNote /\ \A s \in Documents : Concerns(x, s) <=> s = n
  <2>1. x.note = n
    BY DEF NewChange
  <2> QED
    BY <2>1, DocumentKeys DEF Concerns
<1>7. \A k \in Keys : NoteView(rows, tx[p], k) = Visible(p, k)
  BY DEF NoteView, Visible
<1>8. \A k : NoteView(rows, u, k) = NoteView(rows, t, k)
  BY <1>2 DEF NoteView
<1>9. \A k \in Keys : k \notin W \cup {n} => NoteView(rows, u, k) = NoteView(rows, tx[p], k)
  BY <1>2 DEF NoteView
<1>10. TxRows(rows, u)
  <2>1. TxRows(rows, tx[p])
    BY <1>4 DEF DocumentsOK
  <2>2. \A k \in Keys : u.ws[k] # Absent => k \in u.held
    BY <1>2, <2>1 DEF TxRows
  <2>3. \A y \in u.pend : \A s \in Documents : Concerns(y, s) => s \in u.held
    BY <1>2, <1>6, <2>1 DEF TxRows
  <2>4. ASSUME NEW k \in Blocks, k \in u.held
        PROVE  /\ NoteView(rows, u, k) # Absent /\ NoteView(rows, u, k).note \in u.held
               /\ rows[k] # Absent => rows[k].note = NoteView(rows, u, k).note
    <3>1. CASE k \in W
      <4>1. NoteView(rows, u, k) # Absent /\ NoteView(rows, u, k).note = n
        BY <1>8, <3>1
      <4>2. rows[k] # Absent => rows[k].note = n
        <5>1. CASE tx[p].ws[k] = Absent
          BY <3>1, <5>1 DEF Visible
        <5>2. CASE tx[p].ws[k] # Absent
          <6>1. k \in tx[p].held
            BY <2>1, <5>2, DocumentKeys DEF TxRows
          <6> QED
            BY <2>1, <3>1, <6>1, <1>7, DocumentKeys DEF TxRows
        <5> QED
          BY <5>1, <5>2
      <4> QED
        BY <1>2, <4>1, <4>2
    <3>2. CASE k \notin W
      <4>1. k \in tx[p].held /\ NoteView(rows, u, k) = NoteView(rows, tx[p], k)
        BY <1>2, <1>9, <2>4, <3>2, DocumentKeys
      <4> QED
        BY <1>2, <2>1, <4>1 DEF TxRows
    <3> QED
      BY <3>1, <3>2
  <2> QED
    BY <2>2, <2>3, <2>4 DEF TxRows
<1>11. RanksOK(u, save[p], c, e)
  <2>1. NoteRank(n) = n
    BY DocumentKeys DEF NoteRank
  <2>2. \A m \in Notes : m \in u.held => m = n \/ m \in tx[p].held
    BY <1>2, DocumentKeys
  <2>3. n \in Int /\ n <= n
    BY DocumentKeys
  <2> QED
    BY <1>3, <1>4, <1>5, <2>1, <2>2, <2>3 DEF DocumentsOK, RanksOK
<1>12. Determined(History(changes, u, n), Start(n), Draft(rows, u, c, e, n))
  <2> DEFINE v == Draft(rows, tx[p], "apply", batch[p], n)
  <2>1. History(changes, u, n) = History(changes, tx[p], n) \cup {x}
    BY <1>2, <1>6 DEF History, Documents
  <2>2. v = [note |-> DraftNote(rows, tx[p], batch[p]), blocks |-> DraftBlocks(rows, tx[p], batch[p])]
    BY <1>5 DEF Draft
  <2>3. Draft(rows, u, c, e, n) = [note |-> [b.note EXCEPT !.version = @ + 1], blocks |-> DraftBlocks(rows, u, e)]
    BY <1>3, <1>5 DEF Draft, DraftNote
  <2>4. DraftBlocks(rows, u, e) = [k \in Blocks |-> DraftBlocks(rows, t, b)[k]]
    BY <1>3, <1>8 DEF DraftBlocks, BlocksOf
  <2>5. ApplyChange(v, x) = Draft(rows, u, c, e, n)
    <3>1. ApplyChange(v, x) = [note |-> ApplyToNote(v.note, x), blocks |-> [k \in Blocks |-> ApplyToBlock(v.blocks[k], k, x)]]
      BY <1>6 DEF ApplyChange
    <3>2. v.note = DraftNote(rows, tx[p], batch[p]) /\ v.blocks = DraftBlocks(rows, tx[p], batch[p])
      BY <2>2
    <3> HIDE DEF v
    <3>3. [k \in Blocks |-> ApplyToBlock(v.blocks[k], k, x)] = [k \in Blocks |-> DraftBlocks(rows, t, b)[k]]
      BY <3>2
    <3> QED
      BY <2>3, <2>4, <3>1, <3>2, <3>3
  <2>6. Determined(History(changes, tx[p], n) \cup {x}, Start(n), ApplyChange(v, x))
    BY NewChangeFacts DEF Documents
  <2> QED
    BY <2>1, <2>5, <2>6
<1>13. ASSUME NEW s \in Documents, s \in u.held, s # n
       PROVE  Determined(History(changes, u, s), Start(s), Draft(rows, u, c, e, s))
  <2>1. s \in tx[p].held /\ s \in Keys /\ s \notin W \cup {n}
    BY <1>2, <1>13, DocumentKeys
  <2>2. History(changes, u, s) = History(changes, tx[p], s)
    BY <1>2, <1>6, <1>13 DEF History
  <2>3. Draft(rows, u, c, e, s) = Content(rows, u, s) /\ Draft(rows, tx[p], "apply", batch[p], s) = Content(rows, tx[p], s)
    BY <1>3, <1>13 DEF Draft
  <2>4. \A k \in Blocks : BlockOf(NoteView(rows, u, k), s) = BlockOf(NoteView(rows, tx[p], k), s)
    <3>1. TAKE k \in Blocks
    <3>2. CASE k \in W
      BY <1>7, <1>8, <1>13, <3>2, DocumentKeys DEF BlockOf
    <3>3. CASE k \notin W
      BY <1>9, <3>3, DocumentKeys
    <3> QED
      BY <3>2, <3>3
  <2>5. Content(rows, u, s) = Content(rows, tx[p], s)
    BY <1>9, <2>1, <2>4, ContentSame
  <2> QED
    BY <1>4, <2>1, <2>2, <2>3, <2>5 DEF DocumentsOK
<1>14. BlocksCached(rows, u, e) /\ CacheFresh(rows, u, e)
  BY <1>2, <1>3, <1>8 DEF BlocksCached, CacheFresh
<1>15. /\ TxRows(rows, save[p]) /\ save[p].held \subseteq u.held
       /\ \A s \in Documents : s \in save[p].held => TxReplays(rows, changes, save[p], s)
  BY <1>2, <1>4, <1>5 DEF DocumentsOK
<1>16. DocumentsOK(rows, changes, u, save[p], c, e)
  BY <1>10, <1>11, <1>12, <1>13, <1>14, <1>15 DEF DocumentsOK
<1>17. \A k \in Keys : k \in u.held => k \in tx[p].held \/ Free(p, k)
  BY <1>2
<1> QED
  BY <1>1, <1>16, <1>17, ReplayStep

LEMMA NoteRowsEqual ==
  ASSUME NEW r \in NoteRow, NEW e \in NoteRow, r.owner = e.owner, r.version = e.version,
         r.deleted = e.deleted, r.title = e.title, r.props = e.props
  PROVE  r = e
  BY DEF NoteRow

LEMMA NoteRowEdited ==
  ASSUME NEW d \in NoteRow, NEW v \in Nat, NEW e \in BOOLEAN, NEW r \in Props, NEW t \in Seq(Runes)
  PROVE  [d EXCEPT !.version = v, !.deleted = e, !.props = r, !.title = t] \in NoteRow
  BY DEF NoteRow

LEMMA NextVersion ==
  ASSUME NEW d \in NoteRow, NEW m \in NoteRow, m.owner = d.owner
  PROVE  [m EXCEPT !.version = @ + 1]
           = [d EXCEPT !.version = m.version + 1, !.deleted = m.deleted, !.props = m.props, !.title = m.title]
<1>1. PICK r : r = [d EXCEPT !.version = m.version + 1, !.deleted = m.deleted, !.props = m.props, !.title = m.title]
  OBVIOUS
<1>2. PICK e : e = [m EXCEPT !.version = @ + 1]
  OBVIOUS
<1>3. r \in NoteRow /\ e \in NoteRow
  <2>1. r \in NoteRow
    <3>1. m.version + 1 \in Nat /\ m.deleted \in BOOLEAN /\ m.props \in Props /\ m.title \in Seq(Runes)
      BY ONLY m \in NoteRow DEF NoteRow
    <3>2. [d EXCEPT !.version = m.version + 1, !.deleted = m.deleted, !.props = m.props, !.title = m.title] \in NoteRow
      BY ONLY <3>1, d \in NoteRow, NoteRowEdited, Zenon
    <3> QED
      BY ONLY <1>1, <3>2
  <2>2. e \in NoteRow
    BY <1>2 DEF NoteRow
  <2> QED
    BY <2>1, <2>2
<1>4. r.owner = e.owner /\ r.title = e.title /\ r.props = e.props
  BY <1>1, <1>2 DEF NoteRow
<1>5. r.version = e.version
  BY <1>1, <1>2 DEF NoteRow
<1>6. r.deleted = e.deleted
  BY <1>1, <1>2 DEF NoteRow
<1>7. r = e
  BY ONLY <1>3, <1>4, <1>5, <1>6, NoteRowsEqual
<1> QED
  BY <1>1, <1>2, <1>7

\* What a change makes of a note that is there already.
LEMMA NoteApplied ==
  ASSUME NEW d \in NoteRow, NEW m \in NoteRow, NEW x, x.op.type # "create_note", x.result = m.version + 1,
         m.owner = d.owner,
         m.deleted = IF x.op.type = "delete_note" THEN TRUE ELSE d.deleted,
         m.props = IF x.op.type = "modify_note_property" THEN x.op.props ELSE d.props,
         m.title = IF x.op.type = "modify_note_title" THEN ApplyTextDelta(d.title, x.op.delta) ELSE d.title
  PROVE  [m EXCEPT !.version = @ + 1] = ApplyToNote(d, x)
<1>1. ApplyToNote(d, x) = [d EXCEPT !.version = m.version + 1, !.deleted = m.deleted, !.props = m.props, !.title = m.title]
  BY DEF ApplyToNote
<1> QED
  BY <1>1, NextVersion

\* The batch's draft of its note is the note it has cached, up to the version.
LEMMA EditDraft ==
  ASSUME TypeInv, ChainInv, ReplayInv, NEW p \in Handlers, pc[p] = "apply", NEW n \in Notes, batch[p].id = n,
         NEW m, m = (IF batch[p].note # Absent THEN batch[p].note ELSE Visible(p, n)), m # Absent
  PROVE  LET d == DraftNote(rows, tx[p], batch[p]) IN
           /\ d \in NoteRow /\ m \in NoteRow /\ d.owner = m.owner /\ d.deleted = m.deleted
           /\ d.title = m.title /\ d.props = m.props
<1> DEFINE d == DraftNote(rows, tx[p], batch[p])
<1>1. NoteView(rows, tx[p], n) = Visible(p, n) /\ Visible(p, n) \in NoteRow \cup {Absent}
  BY ChainTypes DEF NoteView, Visible
<1>2. batch[p].note \in NoteRow \cup {Absent} /\ pc[p] \in InBatch
  BY ChainTypes DEF BatchState, InBatch
<1>3. m \in NoteRow
  BY <1>1, <1>2
<1>4. CASE batch[p].changed
  <2>1. d = [m EXCEPT !.version = @ + 1]
    BY <1>2, <1>4, ReplayTypes DEF DraftNote
  <2> HIDE DEF d
  <2>2. /\ d \in NoteRow /\ d.owner = m.owner /\ d.deleted = m.deleted
        /\ d.title = m.title /\ d.props = m.props
    BY <1>3, <2>1 DEF NoteRow
  <2> QED
    BY <1>3, <2>2 DEF d
<1>5. CASE ~batch[p].changed
  <2>1. CacheFresh(rows, tx[p], batch[p])
    BY <1>2 DEF ReplayInv, DocumentsOK
  <2>2. d = m
    BY <1>1, <1>5, <2>1 DEF DraftNote, CacheFresh
  <2> QED
    BY <1>3, <2>2
<1> QED
  BY <1>4, <1>5

LEMMA DraftBlockIs ==
  ASSUME NEW p \in Handlers, NEW k \in Blocks
  PROVE  DraftBlocks(rows, tx[p], batch[p])[k] = BatchBlock(p, k, batch[p].id)
  BY DEF DraftBlocks, BlocksOf, BlockOf, NoteView, BatchBlock, BlockForNote, Visible

\* The row an edit starts from.
LEMMA EditStart ==
  ASSUME TypeInv, ChainInv, ReplayInv, NEW p \in Handlers, NEW type \in EditTypes, Editing(p, type)
  PROVE  LET n == Op(p).note
             m == EnsuredNote(p, n)
             d == DraftNote(rows, tx[p], batch[p])
         IN
           /\ pc[p] = "apply" /\ n \in Notes /\ n = batch[p].id /\ Op(p).type = type /\ Decodes(Op(p))
           /\ n \in tx[p].held \/ Free(p, n)
           /\ d \in NoteRow /\ m \in NoteRow /\ d.owner = m.owner /\ d.deleted = m.deleted
           /\ d.title = m.title /\ d.props = m.props
           /\ BlocksCached(rows, tx[p], batch[p]) /\ TxRows(rows, tx[p])
<1> DEFINE n == Op(p).note
           m == EnsuredNote(p, n)
<1>1. /\ pc[p] = "apply" /\ n \in Notes /\ n = batch[p].id /\ Op(p).type = type /\ Decodes(Op(p))
      /\ EnsureNote(p, n) /\ m # Absent
  BY EditingTyped DEF Editing
<1>2. n \in tx[p].held \/ Free(p, n)
  BY <1>1, EnsuredChain DEF InBatch
<1>3. m = IF batch[p].note # Absent THEN batch[p].note ELSE Visible(p, n)
  <2>1. batch[p].note # Absent => batch[p].loaded
    BY <1>1, ReplayTypes DEF InBatch
  <2> QED
    BY <1>1, <2>1 DEF EnsuredNote, NoteForOwner
<1>4. BlocksCached(rows, tx[p], batch[p]) /\ TxRows(rows, tx[p])
  BY <1>1 DEF ReplayInv, DocumentsOK, InBatch
<1> HIDE DEF m, n
<1> QED
  BY <1>1, <1>2, <1>3, <1>4, EditDraft DEF m, n

LEMMA AcceptEditDocs ==
  ASSUME TypeInv, ChainInv, ReplayInv, NEW p \in Handlers,
         NEW type \in {"modify_note_property", "modify_note_title"}, Editing(p, type),
         NEW note \in NoteRow, note.version = EnsuredNote(p, Op(p).note).version,
         note.owner = EnsuredNote(p, Op(p).note).owner, note.deleted = EnsuredNote(p, Op(p).note).deleted,
         note.props = IF type = "modify_note_property" THEN Op(p).props ELSE EnsuredNote(p, Op(p).note).props,
         note.title = IF type = "modify_note_title"
                      THEN ApplyTextDelta(EnsuredNote(p, Op(p).note).title, Op(p).delta)
                      ELSE EnsuredNote(p, Op(p).note).title,
         AcceptEdit(p, note)
  PROVE  ReplayInv'
<1> DEFINE n == Op(p).note
           t == Ensured(p, n)
           b == Loaded(p, note)
           d == DraftNote(rows, tx[p], batch[p])
           m == EnsuredNote(p, n)
           x == NewChange(p, Op(p), note.version, note.version + 1)
<1>1. type \in EditTypes /\ type # "create_note" /\ type # "delete_note"
  BY DEF EditTypes
<1>2. /\ pc[p] = "apply" /\ n \in Notes /\ n = batch[p].id /\ Op(p).type = type
      /\ n \in tx[p].held \/ Free(p, n)
      /\ d \in NoteRow /\ m \in NoteRow /\ d.owner = m.owner /\ d.deleted = m.deleted
      /\ d.title = m.title /\ d.props = m.props
      /\ BlocksCached(rows, tx[p], batch[p])
  BY <1>1, EditStart
<1>3. t \in TxState /\ t.pend = tx[p].pend /\ t.ws = tx[p].ws /\ t.held = tx[p].held \cup {n}
  BY <1>1, EnsuredTx
<1>4. b \in BatchState /\ b.id = n /\ b.note = note /\ b.blocks = batch[p].blocks /\ b.dirty = batch[p].dirty
  BY <1>2, LoadedTyped
<1>5. AcceptOp(p, t, b, note.version, note.version + 1)
  BY DEF AcceptEdit
<1>6. x.op = Op(p) /\ x.result = note.version + 1 /\ note.version \in Nat
  BY DEF NewChange, NoteRow
<1> HIDE DEF t, b, d, m, x, n
<1>7. \A k : NoteView(rows, t, k) = NoteView(rows, tx[p], k)
  BY <1>3 DEF NoteView
<1>8. BlocksCached(rows, t, b)
  BY <1>2, <1>3, <1>4, <1>7 DEF BlocksCached
<1>9. [b.note EXCEPT !.version = @ + 1] = ApplyToNote(d, x)
  <2>1. /\ note.owner = d.owner /\ note.deleted = (IF x.op.type = "delete_note" THEN TRUE ELSE d.deleted)
        /\ note.props = (IF x.op.type = "modify_note_property" THEN x.op.props ELSE d.props)
        /\ note.title = IF x.op.type = "modify_note_title" THEN ApplyTextDelta(d.title, x.op.delta) ELSE d.title
    BY <1>1, <1>2, <1>6 DEF m, n
  <2>2. x.op.type # "create_note" /\ x.result = note.version + 1
    BY <1>1, <1>2, <1>6
  <2>3. d \in NoteRow /\ note \in NoteRow
    BY <1>2
  <2>4. [note EXCEPT !.version = @ + 1] = ApplyToNote(d, x)
    BY ONLY <2>1, <2>2, <2>3, NoteApplied
  <2> QED
    BY <1>4, <2>4
<1>10. \A k \in Blocks : DraftBlocks(rows, t, b)[k] = ApplyToBlock(DraftBlocks(rows, tx[p], batch[p])[k], k, x)
  <2>1. \A k \in Blocks : DraftBlocks(rows, t, b)[k] = DraftBlocks(rows, tx[p], batch[p])[k]
    BY <1>2, <1>4, <1>7 DEF DraftBlocks, BlocksOf
  <2>2. \A k, block : ApplyToBlock(block, k, x) = block
    BY <1>2, <1>6 DEF ApplyToBlock
  <2> QED
    BY <2>1, <2>2
<1> QED
  <2>1. t.held = tx[p].held \cup {n} \cup {} /\ note.version \in Nat /\ note.version + 1 \in Nat
    BY <1>3, <1>6
  <2>2. AcceptsNote(p, n, {}, t, b, note.version, note.version + 1, x)
    BY <1>2, <1>3, <1>4, <1>5, <1>8, <1>9, <1>10, <2>1 DEF AcceptsNote, d, x, n
  <2> QED
    BY <2>2, AcceptNoteDocs

LEMMA ModifyNoteDocs ==
  ASSUME TypeInv, ChainInv, ReplayInv, NEW p \in Handlers, ModifyNoteProperty(p) \/ ModifyNoteTitle(p)
  PROVE  ReplayInv'
<1> DEFINE m == EnsuredNote(p, Op(p).note)
<1>1. CASE ModifyNoteProperty(p)
  <2> DEFINE note == [m EXCEPT !.props = Op(p).props]
  <2>1. Editing(p, "modify_note_property") /\ AcceptEdit(p, note)
    BY <1>1 DEF ModifyNoteProperty
  <2>2. m \in NoteRow /\ Op(p).props \in Props
    BY <2>1, EditingTyped DEF EditTypes, Operation, Decodes
  <2> HIDE DEF m
  <2>3. /\ note \in NoteRow /\ note.version = m.version /\ note.owner = m.owner
        /\ note.props = Op(p).props /\ note.title = m.title
    BY <2>2 DEF NoteRow
  <2>4. note.deleted = m.deleted
    BY <2>2 DEF NoteRow
  <2> HIDE DEF note
  <2> QED
    BY <2>1, <2>3, <2>4, AcceptEditDocs DEF m
<1>2. CASE ModifyNoteTitle(p)
  <2> DEFINE note == [m EXCEPT !.title = ApplyTextDelta(@, Op(p).delta)]
  <2>1. Editing(p, "modify_note_title")
    BY <1>2 DEF ModifyNoteTitle
  <2>2. m \in NoteRow /\ Op(p).delta \in TextDeltas(Runes) /\ pc[p] = "apply"
    BY <2>1, EditingTyped DEF EditTypes, Operation, Decodes
  <2>3. CASE RejectOp(p, "invalid", 0)
    BY <2>2, <2>3, ReplayReject
  <2>4. CASE AcceptEdit(p, note) /\ DeltaInRange(m.title, Op(p).delta)
    <3>1. m.title \in Seq(Runes)
      BY <2>2 DEF NoteRow
    <3>2. ApplyTextDelta(m.title, Op(p).delta) \in Seq(Runes)
      BY <2>2, <2>4, <3>1, ApplyTextDeltaType
    <3> HIDE DEF m
    <3>3. /\ note \in NoteRow /\ note.version = m.version /\ note.owner = m.owner
          /\ note.props = m.props /\ note.title = ApplyTextDelta(m.title, Op(p).delta)
      BY <2>2, <3>2 DEF NoteRow
    <3>4. note.deleted = m.deleted
      BY <2>2 DEF NoteRow
    <3> HIDE DEF note
    <3> QED
      BY <2>1, <2>4, <3>3, <3>4, AcceptEditDocs DEF m
  <2> QED
    BY <1>2, <2>3, <2>4 DEF ModifyNoteTitle
<1> QED
  BY <1>1, <1>2

\* An accepted operation of one block leaves the row `row` of it, written or dirty.
LEMMA EditBlockDocs ==
  ASSUME TypeInv, ChainInv, ReplayInv, NEW p \in Handlers,
         NEW type \in {"create_block", "delete_block", "modify_block"}, Editing(p, type),
         NEW n, n = Op(p).note, NEW h, h = Op(p).key, Free(p, h),
         NEW t \in TxState, t.pend = tx[p].pend, t.held = tx[p].held \cup {n} \cup {h},
         \A k \in Keys \ {h} : t.ws[k] = tx[p].ws[k],
         NEW b \in BatchState, b.id = batch[p].id, b.note = EnsuredNote(p, n),
         NEW row \in BlockRow, row.note = n,
         NoteView(rows, t, h) # Absent, NoteView(rows, t, h).note = n, h \in b.dirty \/ NoteView(rows, t, h) = row,
         Visible(p, h) # Absent => Visible(p, h).note = n,
         b.blocks = [batch[p].blocks EXCEPT ![h] = row], \A k \in Blocks \ {h} : k \in b.dirty <=> k \in batch[p].dirty,
         NEW base, base = EnsuredNote(p, n).version, AcceptOp(p, t, b, base, base + 1),
         row = ApplyToBlock(BatchBlock(p, h, n), h, NewChange(p, Op(p), base, base + 1))
  PROVE  ReplayInv'
<1> DEFINE d == DraftNote(rows, tx[p], batch[p])
           m == EnsuredNote(p, n)
           x == NewChange(p, Op(p), base, base + 1)
<1>1. type \in EditTypes
  BY DEF EditTypes
<1>2. /\ pc[p] = "apply" /\ n \in Notes /\ n = batch[p].id /\ Op(p).type = type /\ Decodes(Op(p))
      /\ n \in tx[p].held \/ Free(p, n)
      /\ d \in NoteRow /\ m \in NoteRow /\ d.owner = m.owner /\ d.deleted = m.deleted
      /\ d.title = m.title /\ d.props = m.props
      /\ BlocksCached(rows, tx[p], batch[p])
  BY <1>1, EditStart
<1>3. h \in Blocks /\ h \in Keys
  BY <1>2, DocumentKeys DEF Decodes
<1>4. x.op = Op(p) /\ x.result = base + 1 /\ base \in Nat
  BY <1>2 DEF NewChange, NoteRow
<1>5. batch[p].blocks \in [Blocks -> BlockRow \cup {Absent}] /\ b.dirty \subseteq Blocks
  BY ChainTypes DEF BatchState
<1>6. b.blocks[h] = row /\ row # Absent /\ \A k \in Blocks : k # h => b.blocks[k] = batch[p].blocks[k]
  BY <1>3, <1>5, AbsentAssumption DEF Row
<1> HIDE DEF d, m, x
<1>7. \A k \in Keys : k # h => NoteView(rows, t, k) = NoteView(rows, tx[p], k)
  BY DEF NoteView
<1>8. BlocksCached(rows, t, b)
  <2>1. ASSUME NEW k \in Blocks, b.blocks[k] # Absent
        PROVE  /\ k \in t.held /\ b.blocks[k].note = b.id /\ NoteView(rows, t, k).note = b.id
               /\ k \notin b.dirty => NoteView(rows, t, k) = b.blocks[k]
    <3>1. CASE k = h
      BY <1>2, <1>6, <3>1
    <3>2. CASE k # h
      BY <1>2, <1>6, <1>7, <2>1, <3>2, DocumentKeys DEF BlocksCached
    <3> QED
      BY <3>1, <3>2
  <2>2. \A k \in b.dirty : b.blocks[k] # Absent
    BY <1>2, <1>5, <1>6 DEF BlocksCached
  <2> QED
    BY <2>1, <2>2 DEF BlocksCached
<1>9. [b.note EXCEPT !.version = @ + 1] = ApplyToNote(d, x)
  <2>1. b.note = m /\ m.version = base
    BY DEF m
  <2>2. /\ m.owner = d.owner /\ m.deleted = (IF x.op.type = "delete_note" THEN TRUE ELSE d.deleted)
        /\ m.props = (IF x.op.type = "modify_note_property" THEN x.op.props ELSE d.props)
        /\ m.title = IF x.op.type = "modify_note_title" THEN ApplyTextDelta(d.title, x.op.delta) ELSE d.title
    BY <1>2, <1>4
  <2>3. x.op.type # "create_note" /\ x.result = m.version + 1
    BY <1>2, <1>4, <2>1
  <2>4. d \in NoteRow /\ m \in NoteRow
    BY <1>2
  <2>5. [m EXCEPT !.version = @ + 1] = ApplyToNote(d, x)
    BY ONLY <2>2, <2>3, <2>4, NoteApplied
  <2> QED
    BY <2>1, <2>5
<1>10. ASSUME NEW k \in Blocks
       PROVE  DraftBlocks(rows, t, b)[k] = ApplyToBlock(DraftBlocks(rows, tx[p], batch[p])[k], k, x)
  <2>1. CASE k = h
    <3>1. DraftBlocks(rows, t, b)[k] = row
      BY <1>6, <2>1 DEF DraftBlocks
    <3>2. DraftBlocks(rows, tx[p], batch[p])[k] = BatchBlock(p, h, n)
      BY <1>2, <2>1, DraftBlockIs
    <3> QED
      BY <2>1, <3>1, <3>2 DEF x
  <2>2. CASE k # h
    <3>1. DraftBlocks(rows, t, b)[k] = DraftBlocks(rows, tx[p], batch[p])[k]
      <4>1. NoteView(rows, t, k) = NoteView(rows, tx[p], k) /\ b.blocks[k] = batch[p].blocks[k] /\ b.id = batch[p].id
        BY <1>6, <1>7, <2>2, DocumentKeys
      <4> QED
        BY ONLY k \in Blocks, <4>1 DEF DraftBlocks, BlocksOf
    <3>2. \A block : ApplyToBlock(block, k, x) = block
      <4>1. x.op.type \in {"create_block", "delete_block", "modify_block"} /\ x.op.key = h
        BY <1>2, <1>4
      <4> QED
        BY ONLY <2>2, <4>1 DEF ApplyToBlock
    <3> QED
      BY <3>1, <3>2
  <2> QED
    BY <2>1, <2>2
<1>11. AcceptsNote(p, n, {h}, t, b, base, base + 1, x)
  <2>1. base + 1 \in Nat /\ \A k \in Keys \ ({h} \cup {n}) : t.ws[k] = tx[p].ws[k]
    BY <1>4
  <2> QED
    BY <1>2, <1>3, <1>4, <1>8, <1>9, <1>10, <2>1 DEF AcceptsNote, d, x
<1> QED
  BY <1>11, AcceptNoteDocs

\* The transaction of a block operation.
LEMMA BlockTx ==
  ASSUME TypeInv, ChainInv, NEW p \in Handlers, NEW type \in EditTypes, Editing(p, type),
         NEW h \in Blocks, NEW row \in BlockRow, NEW t, NEW n, n = Op(p).note
  PROVE  /\ t = Write(Ensured(p, n), h, row) \/ t = Lock(Ensured(p, n), h) =>
              /\ t \in TxState /\ t.pend = tx[p].pend /\ t.held = tx[p].held \cup {n} \cup {h}
              /\ \A k \in Keys \ {h} : t.ws[k] = tx[p].ws[k]
         /\ t = Write(Ensured(p, n), h, row) => NoteView(rows, t, h) = row
         /\ t = Lock(Ensured(p, n), h) => NoteView(rows, t, h) = Visible(p, h)
<1> DEFINE u == Ensured(p, n)
<1>1. u \in TxState /\ u.pend = tx[p].pend /\ u.ws = tx[p].ws /\ u.held = tx[p].held \cup {n}
  BY EnsuredTx
<1>2. h \in Keys /\ row \in Row /\ row # Absent
  BY DocumentKeys, AbsentAssumption DEF Row
<1> HIDE DEF u
<1>3. ASSUME t = Write(u, h, row)
      PROVE  /\ t \in TxState /\ t.pend = tx[p].pend /\ t.held = tx[p].held \cup {n} \cup {h}
             /\ \A k \in Keys \ {h} : t.ws[k] = tx[p].ws[k]
             /\ NoteView(rows, t, h) = row
  <2>1. t.ws[h] = row
    BY <1>1, <1>2, <1>3 DEF Write, TxState
  <2> QED
    BY <1>1, <1>2, <1>3, <2>1, WriteFacts DEF NoteView
<1>4. ASSUME t = Lock(u, h)
      PROVE  /\ t \in TxState /\ t.pend = tx[p].pend /\ t.held = tx[p].held \cup {n} \cup {h}
             /\ \A k \in Keys \ {h} : t.ws[k] = tx[p].ws[k]
             /\ NoteView(rows, t, h) = Visible(p, h)
  <2>1. t \in TxState /\ t.pend = u.pend /\ t.held = u.held \cup {h} /\ t.ws = u.ws
    BY <1>1, <1>2, <1>4 DEF Lock, TxState
  <2> QED
    BY <1>1, <2>1 DEF NoteView, Visible
<1> QED
  BY <1>3, <1>4 DEF u

\* A block the batch works on is stored, in the batch's note.
LEMMA StoredBlock ==
  ASSUME TypeInv, ChainInv, ReplayInv, NEW p \in Handlers, NEW type \in EditTypes, Editing(p, type),
         NEW n, n = Op(p).note, NEW h \in Blocks, BatchBlock(p, h, n) # Absent
  PROVE  /\ BatchBlock(p, h, n) \in BlockRow /\ BatchBlock(p, h, n).note = n
         /\ Visible(p, h) # Absent /\ Visible(p, h).note = n
<1>1. n = batch[p].id /\ BlocksCached(rows, tx[p], batch[p]) /\ TxRows(rows, tx[p])
  BY EditStart
<1>2. BatchBlock(p, h, n) \in BlockRow /\ NoteView(rows, tx[p], h) = Visible(p, h)
  BY BatchBlockTyped DEF NoteView, Visible
<1>3. CASE batch[p].blocks[h] # Absent
  BY <1>1, <1>2, <1>3 DEF BatchBlock, BlocksCached, TxRows
<1>4. CASE batch[p].blocks[h] = Absent
  BY <1>2, <1>4 DEF BatchBlock, BlockForNote
<1> QED
  BY <1>3, <1>4

LEMMA CreateBlockDocs ==
  ASSUME TypeInv, ChainInv, ReplayInv, NEW p \in Handlers, CreateBlock(p)
  PROVE  ReplayInv'
<1> DEFINE op == Op(p)
           n == op.note
           h == op.key
           note == EnsuredNote(p, n)
           block == [note |-> n, deleted |-> FALSE, text |-> op.text, props |-> op.props]
           t == Write(Ensured(p, n), h, block)
           l == Loaded(p, note)
           b == [l EXCEPT !.blocks = [@ EXCEPT ![h] = block]]
           x == NewChange(p, op, note.version, note.version + 1)
<1>1. Editing(p, "create_block") /\ "create_block" \in EditTypes
  BY DEF CreateBlock, EditTypes
<1>2. /\ pc[p] = "apply" /\ op \in Operation /\ Decodes(op) /\ op.type = "create_block"
      /\ n \in Notes /\ note \in NoteRow
  BY <1>1, EditingTyped
<1>3. CASE RejectOp(p, "invalid", 0)
  BY <1>2, <1>3, ReplayReject
<1>4. CASE /\ Visible(p, h) = Absent /\ Free(p, h)
           /\ AcceptOp(p, t, b, note.version, note.version + 1)
  <2>1. h \in Blocks /\ op.props \in Props /\ op.text \in Seq(Runes)
    BY <1>2 DEF Operation, Decodes
  <2>2. block \in BlockRow /\ block.note = n /\ block # Absent
    <3>1. block.note = n
      OBVIOUS
    <3> HIDE DEF n, op
    <3>2. block \in BlockRow
      BY <1>2, <2>1 DEF BlockRow
    <3> HIDE DEF block
    <3> QED
      BY <3>1, <3>2, AbsentAssumption DEF Row
  <2>3. block = ApplyToBlock(BatchBlock(p, h, n), h, x)
    <3>1. x.op = op /\ x.note = n
      BY DEF NewChange
    <3> HIDE DEF x
    <3> QED
      BY <1>2, <3>1 DEF ApplyToBlock
  <2> HIDE DEF block
  <2>4. /\ t \in TxState /\ t.pend = tx[p].pend /\ t.held = tx[p].held \cup {n} \cup {h}
        /\ \A k \in Keys \ {h} : t.ws[k] = tx[p].ws[k]
        /\ NoteView(rows, t, h) = block
    BY <1>1, <2>1, <2>2, BlockTx
  <2>5. l \in BatchState /\ l.id = batch[p].id /\ l.note = note /\ l.blocks = batch[p].blocks /\ l.dirty = batch[p].dirty
    BY <1>2, LoadedTyped
  <2> HIDE DEF l, note, t
  <2>6. /\ b \in BatchState /\ b.id = batch[p].id /\ b.note = note /\ b.dirty = batch[p].dirty
        /\ b.blocks = [batch[p].blocks EXCEPT ![h] = block]
    BY <2>1, <2>2, <2>5 DEF BatchState
  <2> HIDE DEF b
  <2> QED
    BY <1>1, <1>4, <2>2, <2>3, <2>4, <2>6, EditBlockDocs DEF note
<1> QED
  BY <1>3, <1>4 DEF CreateBlock

LEMMA DeleteBlockDocs ==
  ASSUME TypeInv, ChainInv, ReplayInv, NEW p \in Handlers, DeleteBlock(p)
  PROVE  ReplayInv'
<1> DEFINE op == Op(p)
           n == op.note
           h == op.key
           note == EnsuredNote(p, n)
           block == BatchBlock(p, h, n)
           gone == [block EXCEPT !.deleted = TRUE]
           t == Write(Ensured(p, n), h, gone)
           l == Loaded(p, note)
           b == [l EXCEPT !.blocks = [@ EXCEPT ![h] = gone], !.dirty = @ \ {h}]
           x == NewChange(p, op, note.version, note.version + 1)
<1>1. Editing(p, "delete_block") /\ "delete_block" \in EditTypes
  BY DEF DeleteBlock, EditTypes
<1>2. /\ pc[p] = "apply" /\ Decodes(op) /\ op.type = "delete_block"
      /\ n \in Notes /\ note \in NoteRow
  BY <1>1, EditingTyped
<1>3. CASE RejectOp(p, "not_found", 0)
  BY <1>2, <1>3, ReplayReject
<1>4. CASE /\ block # Absent /\ Free(p, h)
           /\ AcceptOp(p, t, b, note.version, note.version + 1)
  <2>1. h \in Blocks
    BY <1>2 DEF Decodes
  <2>2. block \in BlockRow /\ block.note = n /\ Visible(p, h).note = n
    BY <1>1, <1>4, <2>1, StoredBlock
  <2>3. gone = ApplyToBlock(block, h, x)
    <3>1. x.op = op
      BY DEF NewChange
    <3> HIDE DEF x, block
    <3> QED
      BY <1>2, <3>1 DEF ApplyToBlock
  <2> HIDE DEF block
  <2>4. gone \in BlockRow /\ gone.note = n /\ gone # Absent
    BY <2>2, AbsentAssumption DEF BlockRow, Row
  <2> HIDE DEF gone
  <2>5. /\ t \in TxState /\ t.pend = tx[p].pend /\ t.held = tx[p].held \cup {n} \cup {h}
        /\ \A k \in Keys \ {h} : t.ws[k] = tx[p].ws[k]
        /\ NoteView(rows, t, h) = gone
    BY <1>1, <2>1, <2>4, BlockTx
  <2>6. l \in BatchState /\ l.id = batch[p].id /\ l.note = note /\ l.blocks = batch[p].blocks /\ l.dirty = batch[p].dirty
    BY <1>2, LoadedTyped
  <2> HIDE DEF l, note, t
  <2>7. /\ b \in BatchState /\ b.id = batch[p].id /\ b.note = note /\ b.dirty = batch[p].dirty \ {h}
        /\ b.blocks = [batch[p].blocks EXCEPT ![h] = gone]
    BY <2>1, <2>4, <2>6 DEF BatchState
  <2> HIDE DEF b
  <2> QED
    BY <1>1, <1>4, <2>2, <2>3, <2>4, <2>5, <2>7, EditBlockDocs DEF note, block
<1> QED
  BY <1>3, <1>4 DEF DeleteBlock

LEMMA ModifyBlockDocs ==
  ASSUME TypeInv, ChainInv, ReplayInv, NEW p \in Handlers, ModifyBlock(p)
  PROVE  ReplayInv'
<1> DEFINE op == Op(p)
           n == op.note
           h == op.key
           note == EnsuredNote(p, n)
           block == BatchBlock(p, h, n)
           edited == [block EXCEPT !.props = IF op.props = None THEN @ ELSE op.props,
                                   !.text = IF op.delta = None THEN @ ELSE ApplyTextDelta(@, op.delta)]
           t == Lock(Ensured(p, n), h)
           l == Loaded(p, note)
           b == [l EXCEPT !.blocks = [@ EXCEPT ![h] = edited], !.dirty = @ \cup {h}]
           x == NewChange(p, op, note.version, note.version + 1)
<1>1. Editing(p, "modify_block") /\ "modify_block" \in EditTypes
  BY DEF ModifyBlock, EditTypes
<1>2. /\ pc[p] = "apply" /\ op \in Operation /\ Decodes(op) /\ op.type = "modify_block"
      /\ n \in Notes /\ note \in NoteRow
  BY <1>1, EditingTyped
<1>3. CASE RejectOp(p, "not_found", 0) \/ RejectOp(p, "invalid", 0)
  BY <1>2, <1>3, ReplayReject
<1>4. CASE /\ block # Absent /\ Free(p, h) /\ (op.delta # None => DeltaInRange(block.text, op.delta))
           /\ AcceptOp(p, t, b, note.version, note.version + 1)
  <2>1. /\ h \in Blocks /\ op.props \in Props \cup {None}
        /\ op.delta \in TextDeltas(Runes) \cup {None}
    BY <1>2 DEF Operation, Decodes
  <2>2. block \in BlockRow /\ block.note = n /\ Visible(p, h) # Absent /\ Visible(p, h).note = n
    BY <1>1, <1>4, <2>1, StoredBlock
  <2>3. op.delta # None => ApplyTextDelta(block.text, op.delta) \in Seq(Runes)
    BY <1>4, <2>1, <2>2, ApplyTextDeltaType DEF BlockRow
  <2>4. edited = ApplyToBlock(block, h, x)
    <3>1. x.op = op
      BY DEF NewChange
    <3> HIDE DEF x, block
    <3> QED
      BY <1>2, <3>1 DEF ApplyToBlock
  <2> HIDE DEF block
  <2>5. edited \in BlockRow /\ edited.note = n /\ edited # Absent
    <3>1. edited \in BlockRow
      BY <2>1, <2>2, <2>3 DEF BlockRow
    <3>2. edited.note = n
      BY <2>2 DEF BlockRow
    <3> QED
      BY <3>1, <3>2, AbsentAssumption DEF Row
  <2> HIDE DEF edited
  <2>6. /\ t \in TxState /\ t.pend = tx[p].pend /\ t.held = tx[p].held \cup {n} \cup {h}
        /\ \A k \in Keys \ {h} : t.ws[k] = tx[p].ws[k]
        /\ NoteView(rows, t, h) = Visible(p, h)
    BY <1>1, <2>1, <2>5, BlockTx
  <2>7. l \in BatchState /\ l.id = batch[p].id /\ l.note = note /\ l.blocks = batch[p].blocks /\ l.dirty = batch[p].dirty
    BY <1>2, LoadedTyped
  <2> HIDE DEF l, note, t
  <2>8. /\ b \in BatchState /\ b.id = batch[p].id /\ b.note = note /\ b.dirty = batch[p].dirty \cup {h}
        /\ b.blocks = [batch[p].blocks EXCEPT ![h] = edited]
    BY <2>1, <2>5, <2>7 DEF BatchState
  <2> HIDE DEF b
  <2> QED
    BY <1>1, <1>4, <2>2, <2>4, <2>5, <2>6, <2>8, EditBlockDocs DEF note, block
<1> QED
  BY <1>3, <1>4 DEF ModifyBlock

LEMMA CreateNoteDocs ==
  ASSUME TypeInv, ChainInv, ReplayInv, NEW p \in Handlers, CreateNote(p)
  PROVE  ReplayInv'
<1> DEFINE op == Op(p)
           n == op.note
           note == [owner |-> User(p), version |-> 0, deleted |-> FALSE,
                    title |-> op.text, props |-> op.props]
           block == [note |-> n, deleted |-> FALSE, text |-> op.text, props |-> op.props]
           W == op.blocks
           ws == [k \in Keys |-> IF k = n THEN note ELSE IF k \in W THEN block ELSE tx[p].ws[k]]
           t == [tx[p] EXCEPT !.ws = ws, !.held = @ \cup {n} \cup W]
           bs == [k \in Blocks |-> IF k \in W THEN block ELSE batch[p].blocks[k]]
           b == [Loaded(p, note) EXCEPT !.blocks = bs]
           x == NewChange(p, op, 0, 1)
<1>1. Applying(p, {"create_note"})
  BY DEF CreateNote
<1>2. /\ pc[p] = "apply" /\ n \in Notes /\ n = batch[p].id
      /\ op \in Operation /\ User(p) \in Users /\ op.type = "create_note"
  BY <1>1, ApplyingTyped, KeysAssumption DEF CategoryTypes
<1>3. batch[p] \in BatchState /\ tx[p] \in TxState
  BY ChainTypes
<1>4. CASE \E reason, version : RejectOp(p, reason, version)
  BY <1>2, <1>4, ReplayReject
<1>5. CASE /\ op.base = 0 /\ batch[p].note = Absent /\ Visible(p, n) = Absent /\ Free(p, n)
           /\ (\A k \in W : Visible(p, k) = Absent /\ Free(p, k))
           /\ AcceptOp(p, t, b, 0, 1)
  <2>1. Decodes(op)
    BY <1>1, <1>2, <1>5, ApplyingTyped
  <2>2. op.props \in Props /\ op.text \in Seq(Runes) /\ W \subseteq Blocks
    BY <1>2, <2>1 DEF Operation, Decodes
  <2>3. note \in NoteRow /\ block \in BlockRow /\ block.note = n
    BY <1>2, <2>2 DEF NoteRow, BlockRow
  <2>4. x.op = op /\ x.note = n /\ x.owner = User(p) /\ x.result = 1
    BY DEF NewChange
  <2> HIDE DEF x
  <2>5. \A d : [note EXCEPT !.version = @ + 1] = ApplyToNote(d, x)
    <3>1. ASSUME NEW d
          PROVE  ApplyToNote(d, x) = [note EXCEPT !.version = 1, !.deleted = @, !.props = @, !.title = @]
      BY <1>2, <2>4 DEF ApplyToNote
    <3>2. note.version + 1 = 1
      OBVIOUS
    <3> HIDE DEF note
    <3> QED
      BY <2>3, <3>1, <3>2, NextVersion
  <2>6. \A k \in Blocks : \A old : ApplyToBlock(old, k, x) = IF k \in W THEN block ELSE old
    BY <1>2, <2>4 DEF ApplyToBlock
  <2>7. block # Absent /\ note # Absent
    BY <2>3, AbsentAssumption DEF Row
  <2> HIDE DEF note, block
  <2>8. ws \in [Keys -> Row \cup {Absent}]
    BY <1>3, <2>3 DEF TxState, Row
  <2>9. n \in Keys /\ W \subseteq Keys /\ n \notin W
    BY <1>2, <2>2, DocumentKeys DEF Documents
  <2>10. (\A k \in W : ws[k] = block) /\ \A k \in Keys \ (W \cup {n}) : ws[k] = tx[p].ws[k]
    BY <2>9
  <2> HIDE DEF ws, n
  <2>11. /\ t \in TxState /\ t.ws = ws /\ t.pend = tx[p].pend
         /\ t.held = tx[p].held \cup {n} \cup W
    BY <1>3, <2>8, <2>9 DEF TxState
  <2>12. bs \in [Blocks -> BlockRow \cup {Absent}]
    BY <1>3, <2>3 DEF BatchState
  <2>13. /\ Loaded(p, note) \in BatchState /\ Loaded(p, note).id = batch[p].id
         /\ Loaded(p, note).note = note /\ Loaded(p, note).dirty = batch[p].dirty
    BY <2>3, LoadedTyped
  <2>14. \A k \in Blocks : bs[k] = IF k \in W THEN block ELSE batch[p].blocks[k]
    OBVIOUS
  <2> HIDE DEF bs
  <2>15. b \in BatchState /\ b.id = n /\ b.note = note /\ b.dirty = batch[p].dirty /\ b.blocks = bs
    BY <1>2, <2>12, <2>13 DEF BatchState
  <2> HIDE DEF t, b
  <2>16. /\ \A k \in W : NoteView(rows, t, k) = block
         /\ \A k \in Keys \ (W \cup {n}) : NoteView(rows, t, k) = NoteView(rows, tx[p], k)
    BY <2>7, <2>10, <2>11 DEF NoteView
  <2>17. \A k \in Blocks : batch[p].blocks[k] = Absent
    <3>1. ~batch[p].changed
      BY <1>2, <1>5, ReplayTypes DEF InBatch
    <3> QED
      BY <1>2, <3>1 DEF ReplayInv, DocumentsOK, CacheFresh, InBatch
  <2>18. BlocksCached(rows, t, b)
    <3>1. BlocksCached(rows, tx[p], batch[p]) /\ b.dirty \subseteq Blocks
      BY <1>2, <2>15 DEF ReplayInv, DocumentsOK, InBatch, BatchState
    <3>2. b.dirty = {}
      BY <2>15, <2>17, <3>1 DEF BlocksCached
    <3> QED
      BY <2>3, <2>11, <2>14, <2>15, <2>16, <2>17, <3>2 DEF BlocksCached, n
  <2>19. ASSUME NEW k \in Blocks
         PROVE  DraftBlocks(rows, t, b)[k] = ApplyToBlock(DraftBlocks(rows, tx[p], batch[p])[k], k, x)
    <3>1. CASE k \in W
      BY <2>6, <2>7, <2>14, <2>15, <3>1 DEF DraftBlocks
    <3>2. CASE k \notin W
      <4>1. NoteView(rows, t, k) = NoteView(rows, tx[p], k)
        BY <1>2, <2>16, <3>2, DocumentKeys DEF Documents, n
      <4>2. DraftBlocks(rows, t, b)[k] = DraftBlocks(rows, tx[p], batch[p])[k]
        BY <1>2, <2>14, <2>15, <3>2, <4>1 DEF DraftBlocks, BlocksOf, n
      <4> QED
        BY <2>6, <3>2, <4>2
    <3> QED
      BY <3>1, <3>2
  <2>20. AcceptsNote(p, n, W, t, b, 0, 1, x)
    <3>1. /\ \A k \in W : NoteView(rows, t, k) # Absent /\ NoteView(rows, t, k).note = n
          /\ \A k \in W : Visible(p, k) # Absent => Visible(p, k).note = n
      BY <1>5, <2>3, <2>7, <2>16 DEF n
    <3>2. x = NewChange(p, Op(p), 0, 1) /\ Op(p).note = n /\ 0 \in Nat /\ 1 \in Nat
      BY DEF x, n
    <3>3. n \in Notes /\ batch[p].id = n
      BY <1>2 DEF n
    <3>4. \A k \in Keys \ (W \cup {n}) : t.ws[k] = tx[p].ws[k]
      BY <2>10, <2>11
    <3>5. [b.note EXCEPT !.version = @ + 1] = ApplyToNote(DraftNote(rows, tx[p], batch[p]), x)
      BY <2>5, <2>15
    <3>6. pc[p] = "apply" /\ Free(p, n) /\ \A k \in W : Free(p, k)
      BY <1>2, <1>5 DEF n
    <3> QED
      BY <1>5, <2>2, <2>11, <2>15, <2>18, <2>19, <3>1, <3>2, <3>3, <3>4, <3>5, <3>6 DEF AcceptsNote
  <2> QED
    BY <2>20, AcceptNoteDocs
<1>6. /\ tx[p] \in TxState => [tx[p] EXCEPT !.ws = [k \in Keys |-> IF k = n THEN note
                                       ELSE IF k \in op.blocks THEN block ELSE @[k]],
                             !.held = @ \cup {n} \cup op.blocks] = t
      /\ [Loaded(p, note) EXCEPT !.blocks = [k \in Blocks |->
                                       IF k \in op.blocks THEN block ELSE @[k]]] = b
  BY <1>3 DEF Loaded, BatchState
<1> QED
  BY <1>3, <1>4, <1>5, <1>6 DEF CreateNote

LEMMA DeleteNoteDocs ==
  ASSUME TypeInv, ChainInv, ReplayInv, NEW p \in Handlers, DeleteNote(p)
  PROVE  ReplayInv'
<1> DEFINE n == Op(p).note
           row == Visible(p, n)
           gone == [row EXCEPT !.deleted = TRUE]
           m == IF batch[p].note # Absent THEN batch[p].note ELSE row
           note == [m EXCEPT !.deleted = TRUE]
           d == DraftNote(rows, tx[p], batch[p])
<1>1. Applying(p, {"delete_note"})
  BY DEF DeleteNote
<1>2. pc[p] = "apply" /\ n \in Notes /\ n = batch[p].id /\ n \in Keys /\ Op(p).type = "delete_note"
  BY <1>1, ApplyingTyped DEF CategoryTypes, Keys
<1>3. CASE /\ OwnedBy(row, User(p)) /\ Free(p, n)
           /\ AcceptOp(p, Write(tx[p], n, gone), Loaded(p, note), note.version, note.version + 1)
  <2>1. row \in NoteRow /\ row # Absent /\ tx[p] \in TxState
    BY <1>2, <1>3, ChainTypes DEF OwnedBy
  <2>2. gone \in NoteRow /\ gone \in Row /\ gone # Absent
    <3>1. gone \in NoteRow
      BY <2>1 DEF NoteRow
    <3> QED
      BY <3>1, AbsentAssumption DEF Row
  <2>3. d \in NoteRow /\ m \in NoteRow /\ d.owner = m.owner /\ d.title = m.title /\ d.props = m.props
    BY <1>2, <2>1, EditDraft
  <2> HIDE DEF m, d
  <2>4. /\ note \in NoteRow /\ note.owner = m.owner /\ note.deleted = TRUE
        /\ note.title = m.title /\ note.props = m.props
    BY <2>3 DEF NoteRow
  <2> HIDE DEF note, gone, row
  <2> DEFINE t == Write(tx[p], n, gone)
             b == Loaded(p, note)
             x == NewChange(p, Op(p), note.version, note.version + 1)
  <2>5. /\ t \in TxState /\ t.pend = tx[p].pend /\ t.held = tx[p].held \cup {n} \cup {}
        /\ \A k \in Keys \ ({} \cup {n}) : t.ws[k] = tx[p].ws[k]
    BY <1>2, <2>1, <2>2, WriteFacts
  <2>6. /\ b \in BatchState /\ b.id = n /\ b.note = note
        /\ b.blocks = batch[p].blocks /\ b.dirty = batch[p].dirty
    BY <1>2, <2>4, LoadedTyped
  <2>7. x.op = Op(p) /\ x.result = note.version + 1 /\ note.version \in Nat /\ note.version + 1 \in Nat
    BY <2>4 DEF NewChange, NoteRow
  <2>8. AcceptOp(p, t, b, note.version, note.version + 1)
    BY <1>3
  <2> HIDE DEF t, b, x
  <2>9. \A k \in Blocks : NoteView(rows, t, k) = NoteView(rows, tx[p], k)
    BY <1>2, <2>5, DocumentKeys DEF NoteView
  <2>10. BlocksCached(rows, t, b)
    <3>1. BlocksCached(rows, tx[p], batch[p]) /\ b.dirty \subseteq Blocks
      BY <1>2, <2>6 DEF ReplayInv, DocumentsOK, InBatch, BatchState
    <3> QED
      BY <1>2, <2>5, <2>6, <2>9, <3>1 DEF BlocksCached
  <2>11. [b.note EXCEPT !.version = @ + 1] = ApplyToNote(d, x)
    <3>1. /\ note.owner = d.owner /\ note.deleted = (IF x.op.type = "delete_note" THEN TRUE ELSE d.deleted)
          /\ note.props = (IF x.op.type = "modify_note_property" THEN x.op.props ELSE d.props)
          /\ note.title = IF x.op.type = "modify_note_title" THEN ApplyTextDelta(d.title, x.op.delta) ELSE d.title
      BY <1>2, <2>3, <2>4, <2>7
    <3>2. x.op.type # "create_note" /\ x.result = note.version + 1
      BY <1>2, <2>7
    <3>3. [note EXCEPT !.version = @ + 1] = ApplyToNote(d, x)
      BY ONLY <2>3, <2>4, <3>1, <3>2, NoteApplied
    <3> QED
      BY <2>6, <3>3
  <2>12. \A k \in Blocks : DraftBlocks(rows, t, b)[k] = ApplyToBlock(DraftBlocks(rows, tx[p], batch[p])[k], k, x)
    <3>1. \A k \in Blocks : DraftBlocks(rows, t, b)[k] = DraftBlocks(rows, tx[p], batch[p])[k]
      BY <1>2, <2>6, <2>9 DEF DraftBlocks, BlocksOf
    <3>2. \A k, block : ApplyToBlock(block, k, x) = block
      BY <1>2, <2>7 DEF ApplyToBlock
    <3> QED
      BY <3>1, <3>2
  <2>13. AcceptsNote(p, n, {}, t, b, note.version, note.version + 1, x)
    BY <1>2, <1>3, <2>5, <2>6, <2>7, <2>8, <2>10, <2>11, <2>12 DEF AcceptsNote, d, x
  <2> QED
    BY <2>13, AcceptNoteDocs
<1>4. CASE /\ pc' = [pc EXCEPT ![p] = "lookup"]
           /\ UNCHANGED <<store, req, todo, batch, failure, reply, world>>
  BY <1>2, <1>4, QuietShapes, ReplayQuiet
<1> QED
  BY <1>3, <1>4 DEF DeleteNote

\* An accepted operation of category h leaves the row `row` of it.
LEMMA AcceptCategoryDocs ==
  ASSUME TypeInv, ChainInv, ReplayInv, NEW p \in Handlers, NEW types, types \subseteq CategoryTypes, Applying(p, types),
         NEW h, h = Op(p).key, Free(p, h), NEW row \in CategoryRow,
         AcceptOp(p, Write(tx[p], h, row), batch[p], 0, 0),
         row = ApplyToCategory(Visible(p, h), NewChange(p, Op(p), 0, 0))
  PROVE  ReplayInv'
<1> DEFINE x == NewChange(p, Op(p), 0, 0)
           t == Write(tx[p], h, row)
           u == Logged(t, x)
           e == Marked(batch[p], x)
           c == pc'[p]
<1>1. /\ pc[p] = "apply" /\ Op(p).note = NilNote /\ batch[p].id = NilNote
      /\ Op(p).type \in CategoryTypes
  BY ApplyingTyped
<1>2. h \in Categories /\ h \in Documents /\ h \in Keys /\ h \notin Notes /\ h \notin Blocks
  <2>1. h \in Categories
    BY <1>1, ApplyingTyped DEF Decodes, CategoryTypes
  <2> QED
    BY <2>1, DocumentKeys DEF Documents
<1>3. /\ Alone(p) /\ tx'[p] = u /\ batch'[p] = e /\ c \in {"find", "flush"}
      /\ save'[p] = save[p] /\ rows' = rows /\ changes' = changes
  BY <1>1, AcceptOpShape
<1>4. x.note = NilNote /\ x.op = Op(p) /\ \A s \in Documents : Concerns(x, s) <=> s = h
  <2>1. x.note = NilNote /\ x.op = Op(p)
    BY <1>1 DEF NewChange
  <2> QED
    BY <1>2, <2>1, DocumentKeys DEF Concerns
<1>5. tx[p] \in TxState /\ batch[p] \in BatchState /\ row \in Row /\ row # Absent
  BY ChainTypes, AbsentAssumption DEF Row
<1>6. /\ t \in TxState /\ t.pend = tx[p].pend /\ t.held = tx[p].held \cup {h} /\ t.ws[h] = row
      /\ \A k \in Keys : k # h => t.ws[k] = tx[p].ws[k]
  <2>1. t.ws[h] = row
    BY <1>2, <1>5 DEF Write, TxState
  <2> QED
    BY <1>2, <1>5, <2>1, WriteFacts
<1> HIDE DEF t, x
<1>7. u.ws = t.ws /\ u.held = t.held /\ u.pend = tx[p].pend \cup {x}
  BY <1>6 DEF TxState, Logged
<1>8. /\ e.id = NilNote /\ e.blocks = batch[p].blocks /\ e.dirty = batch[p].dirty /\ e.changed = TRUE
  BY <1>1, <1>5 DEF BatchState, Marked
<1> HIDE DEF u, e
<1>9. DocumentsOK(rows, changes, tx[p], save[p], "apply", batch[p])
  BY <1>1 DEF ReplayInv
<1>10. "apply" \in InBatch /\ "apply" \in PushWork /\ c \in InBatch
  BY <1>3 DEF InBatch, PushWork
<1>11. NoteView(rows, u, h) = row /\ \A k \in Keys : k # h => NoteView(rows, u, k) = NoteView(rows, tx[p], k)
  BY <1>5, <1>6, <1>7 DEF NoteView
<1>12. \A k \in Blocks : NoteView(rows, u, k) = NoteView(rows, tx[p], k) /\ (k \in u.held <=> k \in tx[p].held)
  BY <1>2, <1>6, <1>7, <1>11, DocumentKeys
<1>13. \A s \in Notes : s \in u.held <=> s \in tx[p].held
  BY <1>2, <1>6, <1>7
<1>14. TxRows(rows, u)
  <2>1. TxRows(rows, tx[p])
    BY <1>9 DEF DocumentsOK
  <2>2. \A k \in Keys : u.ws[k] # Absent => k \in u.held
    BY <1>6, <1>7, <2>1 DEF TxRows
  <2>3. \A y \in u.pend : \A s \in Documents : Concerns(y, s) => s \in u.held
    BY <1>4, <1>6, <1>7, <2>1 DEF TxRows
  <2>4. \A k \in Blocks : k \in u.held =>
          /\ NoteView(rows, u, k) # Absent /\ NoteView(rows, u, k).note \in u.held
          /\ rows[k] # Absent => rows[k].note = NoteView(rows, u, k).note
    BY <1>6, <1>7, <1>12, <2>1 DEF TxRows
  <2> QED
    BY <2>2, <2>3, <2>4 DEF TxRows
<1>15. RanksOK(u, save[p], c, e)
  BY <1>1, <1>8, <1>9, <1>10, <1>13 DEF DocumentsOK, RanksOK
<1>16. \A s : Draft(rows, u, c, e, s) = Content(rows, u, s) /\ Draft(rows, tx[p], "apply", batch[p], s) = Content(rows, tx[p], s)
  BY <1>1, <1>8, DocumentKeys DEF Draft
<1>17. Determined(History(changes, u, h), Start(h), Content(rows, u, h))
  <2>1. History(changes, u, h) = History(changes, tx[p], h) \cup {x}
    BY <1>2, <1>4, <1>7 DEF History
  <2>2. Content(rows, u, h) = row /\ Content(rows, tx[p], h) = Visible(p, h)
    BY <1>2, <1>11 DEF Content, NoteView, Visible
  <2>3. ApplyChange(Content(rows, tx[p], h), x) = row
    BY <1>4, <2>2 DEF ApplyChange, x
  <2>4. Determined(History(changes, tx[p], h) \cup {x}, Start(h), ApplyChange(Draft(rows, tx[p], "apply", batch[p], h), x))
    BY <1>1, <1>2, NewChangeFacts DEF x
  <2> QED
    BY <1>16, <2>1, <2>2, <2>3, <2>4
<1>18. ASSUME NEW s \in Documents, s \in u.held, s # h
       PROVE  Determined(History(changes, u, s), Start(s), Content(rows, u, s))
  <2>1. s \in tx[p].held /\ s \in Keys
    BY <1>6, <1>7, <1>18, DocumentKeys
  <2>2. History(changes, u, s) = History(changes, tx[p], s)
    BY <1>4, <1>7, <1>18 DEF History
  <2>3. Content(rows, u, s) = Content(rows, tx[p], s)
    BY <1>11, <1>12, <1>18, <2>1, ContentSame
  <2> QED
    BY <1>9, <1>16, <2>1, <2>2, <2>3 DEF DocumentsOK
<1>19. BlocksCached(rows, u, e) /\ CacheFresh(rows, u, e)
  <2>1. BlocksCached(rows, tx[p], batch[p])
    BY <1>9, <1>10 DEF DocumentsOK
  <2> QED
    BY <1>1, <1>8, <1>12, <2>1 DEF BlocksCached, CacheFresh
<1>20. /\ TxRows(rows, save[p]) /\ save[p].held \subseteq u.held
       /\ \A s \in Documents : s \in save[p].held => TxReplays(rows, changes, save[p], s)
  BY <1>6, <1>7, <1>9, <1>10 DEF DocumentsOK
<1>21. DocumentsOK(rows, changes, u, save[p], c, e)
  BY <1>14, <1>15, <1>16, <1>17, <1>18, <1>19, <1>20 DEF DocumentsOK
<1>22. \A k \in Keys : k \in u.held => k \in tx[p].held \/ Free(p, k)
  BY <1>6, <1>7
<1> QED
  BY <1>3, <1>21, <1>22, ReplayStep

LEMMA CategoryDocs ==
  ASSUME TypeInv, ChainInv, DevicesInv, ReplayInv, NEW p \in Handlers,
         CreateCategory(p) \/ DeleteCategory(p) \/ ModifyCategory(p)
  PROVE  ReplayInv'
<1> DEFINE h == Op(p).key
           x == NewChange(p, Op(p), 0, 0)
<1>1. PICK type \in CategoryTypes :
        Applying(p, {type}) /\ type \in {"create_category", "delete_category", "modify_category"}
  BY DEF CreateCategory, DeleteCategory, ModifyCategory, CategoryTypes
<1>2. /\ pc[p] = "apply" /\ Op(p) \in Operation /\ Decodes(Op(p)) /\ User(p) \in Users
      /\ Op(p).type = type /\ h \in Categories /\ pc[p] \in InTx
  BY <1>1, ApplyingTyped DEF Decodes, CategoryTypes, InTx
<1>3. x.op = Op(p) /\ x.owner = User(p)
  BY DEF NewChange
<1>4. CASE FailRequest(p, "unique_violation")
  <2>1. Failing(p)
    BY <1>2, <1>4 DEF Failing
  <2> QED
    BY <2>1, FailingShape, ReplayIdle
<1> HIDE DEF x
<1>5. CASE CreateCategory(p)
  <2> DEFINE row == [owner |-> User(p), name |-> Op(p).name, deleted |-> FALSE]
  <2>1. Applying(p, {"create_category"}) /\ Op(p).type = "create_category"
    BY <1>5 DEF CreateCategory, Applying
  <2>2. row \in CategoryRow
    BY <1>2, <2>1 DEF Operation, Decodes, CategoryRow
  <2>3. row = ApplyToCategory(Visible(p, h), x)
    BY <1>3, <2>1 DEF ApplyToCategory
  <2>4. \/ FailRequest(p, "unique_violation")
        \/ AcceptOp(p, Write(tx[p], h, row), batch[p], 0, 0) /\ Free(p, h)
    BY <1>5 DEF CreateCategory
  <2> HIDE DEF row
  <2> QED
    BY <1>1, <1>4, <2>2, <2>3, <2>4, AcceptCategoryDocs DEF x
<1>6. CASE DeleteCategory(p)
  <2> DEFINE row == [Visible(p, h) EXCEPT !.deleted = TRUE]
  <2>1. Visible(p, h) \in CategoryRow /\ Op(p).type = "delete_category"
    BY <1>2, <1>6, ActiveCategoryTyped DEF DeleteCategory, Applying
  <2>2. row \in CategoryRow
    BY <2>1 DEF CategoryRow
  <2>3. row = ApplyToCategory(Visible(p, h), x)
    BY <1>3, <2>1 DEF ApplyToCategory
  <2>4. AcceptOp(p, Write(tx[p], h, row), batch[p], 0, 0) /\ Free(p, h)
    BY <1>6 DEF DeleteCategory, RowGranted
  <2> HIDE DEF row
  <2> QED
    BY <1>1, <2>2, <2>3, <2>4, AcceptCategoryDocs DEF x
<1>7. CASE ModifyCategory(p)
  <2> DEFINE row == [Visible(p, h) EXCEPT !.name = Op(p).name]
  <2>1. Visible(p, h) \in CategoryRow /\ Op(p).type = "modify_category"
    BY <1>2, <1>7, ActiveCategoryTyped DEF ModifyCategory, Applying
  <2>2. row \in CategoryRow
    BY <1>2, <2>1 DEF CategoryRow, Operation, Decodes
  <2>3. row = ApplyToCategory(Visible(p, h), x)
    BY <1>3, <2>1 DEF ApplyToCategory
  <2>4. \/ FailRequest(p, "unique_violation")
        \/ AcceptOp(p, Write(tx[p], h, row), batch[p], 0, 0) /\ Free(p, h)
    BY <1>7 DEF ModifyCategory, RowGranted
  <2> HIDE DEF row
  <2> QED
    BY <1>1, <1>4, <2>2, <2>3, <2>4, AcceptCategoryDocs DEF x
<1> QED
  BY <1>5, <1>6, <1>7

-----------------------------------------------------------------------------
(* The ends of operations and batches. *)

\* One more note is locked, and nothing is written.
LEMMA LockedMore ==
  ASSUME NEW R, NEW C, NEW t \in TxState, NEW n \in Notes, TxRows(R, t), NEW u, u = Lock(t, n)
  PROVE  /\ u.held = t.held \cup {n} /\ TxRows(R, u)
         /\ \A k : NoteView(R, u, k) = NoteView(R, t, k)
         /\ \A s : BlocksOf(R, u, s) = BlocksOf(R, t, s)
         /\ \A s : Content(R, u, s) = Content(R, t, s) /\ History(C, u, s) = History(C, t, s)
<1>1. u.ws = t.ws /\ u.pend = t.pend /\ u.held = t.held \cup {n}
  BY DEF Lock, TxState
<1>2. \A k : NoteView(R, u, k) = NoteView(R, t, k)
  BY <1>1 DEF NoteView
<1>3. TxRows(R, u)
  BY <1>1, <1>2, DocumentKeys DEF TxRows
<1>4. \A s : BlocksOf(R, u, s) = BlocksOf(R, t, s)
  BY <1>2 DEF BlocksOf
<1>5. \A s : Content(R, u, s) = Content(R, t, s)
  BY <1>2, <1>4 DEF Content
<1>6. \A s : History(C, u, s) = History(C, t, s)
  BY <1>1 DEF History
<1> QED
  BY <1>1, <1>2, <1>3, <1>4, <1>5, <1>6

\* An operation that is in the log already: its note is locked and cached, at most.
LEMMA RetryDocs ==
  ASSUME TypeInv, ChainInv, ReplayInv, NEW p \in Handlers, RetryOp(p)
  PROVE  ReplayInv'
<1> DEFINE n == Op(p).note
           m == EnsuredNote(p, n)
           t == tx[p]
           u == tx'[p]
           b == batch[p]
           e == batch'[p]
<1>1. /\ pc[p] = "find" /\ pc[p] \in InBatch /\ pc[p] \in PushWork /\ Advance(p)
      /\ UNCHANGED <<rows, changes, save, req, failure, reply>>
  BY DEF RetryOp, InBatch, PushWork
<1>2. n = b.id /\ n \in Notes \cup {NilNote} /\ NilNote \notin Notes
  BY <1>1, CurrentRequest, KeysAssumption DEF Operation
<1>3. /\ t \in TxState /\ b \in BatchState /\ NoteRank(n) \in Int
      /\ b.note # Absent => b.loaded /\ n \in t.held
      /\ b.changed /\ n \in Notes => b.note # Absent
  BY <1>1, <1>2, ReplayTypes
<1>4. DocumentsOK(rows, changes, t, save[p], pc[p], b)
  BY DEF ReplayInv
<1>5. /\ Alone(p) /\ pc'[p] \in InBatch /\ save'[p] = save[p] /\ TxRows(rows, t)
      /\ n = NilNote => u = t /\ e = b
      /\ n \in Notes => u = Ensured(p, n) /\ e = Loaded(p, m)
  <2>1. CASE n = NilNote
    <3>1. tx' = tx /\ batch' = batch
      BY <2>1 DEF RetryOp
    <3> QED
      BY <1>1, <1>2, <1>4, <2>1, <3>1, ShapeTypes DEF Alone, Advance, DocumentsOK, InBatch
  <2>2. CASE n \in Notes
    <3>1. tx' = [tx EXCEPT ![p] = Ensured(p, n)] /\ batch' = [batch EXCEPT ![p] = Loaded(p, m)]
      BY <1>2, <2>2 DEF RetryOp
    <3> QED
      BY <1>1, <1>2, <1>4, <2>2, <3>1, ShapeTypes DEF Alone, Advance, DocumentsOK, InBatch
  <2> QED
    BY <1>2, <2>1, <2>2
<1>6. n \in Notes => EnsureNote(p, n)
  BY <1>2 DEF RetryOp
<1>7. /\ e.id = n /\ e.changed = b.changed /\ e.blocks = b.blocks /\ e.dirty = b.dirty
      /\ e.note = b.note \/ (~b.changed /\ n \in Notes /\ e.note = NoteView(rows, t, n))
  <2>1. CASE n = NilNote
    BY <1>2, <1>5, <2>1
  <2>2. CASE n \in Notes
    <3>1. /\ e.id = b.id /\ e.changed = b.changed /\ e.blocks = b.blocks /\ e.dirty = b.dirty
          /\ e.note = m
      BY <1>3, <1>5, <2>2 DEF Loaded, BatchState
    <3>2. m = IF b.loaded THEN b.note ELSE NoteForOwner(p, n, User(p))
      BY DEF EnsuredNote
    <3>3. m = b.note \/ (~b.changed /\ m = NoteView(rows, t, n))
      BY <1>3, <2>2, <3>2 DEF NoteForOwner, Visible, NoteView
    <3> HIDE DEF m, b, e
    <3> QED
      BY <1>2, <2>2, <3>1, <3>3
  <2> QED
    BY <1>2, <2>1, <2>2
<1>8. /\ n \in Notes => n \in t.held \/ n \notin u.held \/ Free(p, n)
      /\ u = t \/ (n \in Notes /\ u = Lock(t, n))
  <2>1. CASE n = NilNote
    BY <1>2, <1>5, <2>1
  <2>2. CASE n \in Notes /\ m = Absent
    BY <1>5, <2>2 DEF Ensured
  <2>3. CASE n \in Notes /\ m # Absent
    BY <1>1, <1>2, <1>5, <1>6, <2>3, EnsuredChain
  <2> QED
    BY <1>2, <2>1, <2>2, <2>3
<1> HIDE DEF m, t, u, b, e
<1>9. /\ TxRows(rows, u) /\ t.held \subseteq u.held
      /\ \A k : k \in u.held => k \in t.held \/ (n \in Notes /\ k = n)
      /\ \A k : NoteView(rows, u, k) = NoteView(rows, t, k)
      /\ \A s : BlocksOf(rows, u, s) = BlocksOf(rows, t, s)
      /\ \A s : Content(rows, u, s) = Content(rows, t, s) /\ History(changes, u, s) = History(changes, t, s)
  <2>1. CASE u = t
    BY <1>5, <2>1
  <2>2. CASE n \in Notes /\ u = Lock(t, n)
    <3>1. u.held = t.held \cup {n}
      BY <1>3, <2>2 DEF Lock, TxState
    <3> QED
      BY <1>3, <1>5, <2>2, <3>1, LockedMore
  <2> QED
    BY <1>8, <2>1, <2>2
<1>10. \A s : Draft(rows, u, pc'[p], e, s) = Draft(rows, t, pc[p], b, s)
  <2>1. TAKE s
  <2>2. CASE s \in Notes /\ s = n
    <3>1. DraftNote(rows, u, e) = DraftNote(rows, t, b)
      BY <1>2, <1>7, <1>9, <2>2 DEF DraftNote
    <3>2. DraftBlocks(rows, u, e) = DraftBlocks(rows, t, b)
      BY <1>2, <1>7, <1>9 DEF DraftBlocks, b
    <3> QED
      BY <1>1, <1>2, <1>5, <1>7, <2>2, <3>1, <3>2 DEF Draft, b
  <2>3. CASE ~(s \in Notes /\ s = n)
    BY <1>2, <1>7, <1>9, <2>3 DEF Draft, b
  <2> QED
    BY <2>2, <2>3
<1>11. \A s \in Documents : Determined(History(changes, u, s), Start(s), Draft(rows, u, pc'[p], e, s))
  BY <1>9, <1>10, ViewReplay DEF t, b
<1>12. BlocksCached(rows, u, e) /\ CacheFresh(rows, u, e)
  <2>1. BlocksCached(rows, t, b) /\ CacheFresh(rows, t, b)
    BY <1>1, <1>4 DEF DocumentsOK
  <2>2. BlocksCached(rows, u, e)
    BY <1>2, <1>7, <1>9, <2>1 DEF BlocksCached, b
  <2>3. CacheFresh(rows, u, e)
    BY <1>2, <1>7, <1>9, <2>1 DEF CacheFresh, b
  <2> QED
    BY <2>2, <2>3
<1>13. RanksOK(u, save[p], pc'[p], e)
  <2>1. RanksOK(t, save[p], pc[p], b)
    BY <1>4 DEF DocumentsOK
  <2>2. n \in Notes => n <= NoteRank(n)
    BY <1>3, NoteRankTyped
  <2> QED
    BY <1>1, <1>2, <1>7, <1>9, <2>1, <2>2 DEF RanksOK, b
<1>14. DocumentsOK(rows, changes, u, save[p], pc'[p], e)
  BY <1>1, <1>4, <1>9, <1>11, <1>12, <1>13 DEF DocumentsOK
<1>15. \A k \in Keys : k \in u.held => k \in t.held \/ Free(p, k)
  BY <1>8, <1>9
<1> QED
  BY <1>1, <1>5, <1>14, <1>15, ReplayStep DEF t, u, e

\* What flushing a changed batch of a note writes.
LEMMA FlushedRows ==
  ASSUME TypeInv, ChainInv, NEW p \in Handlers, pc[p] = "flush", NEW b, b = batch[p],
         b.changed, b.note # Absent, NEW note \in NoteRow,
         NEW t, t = EnqueueSnapshotIfNeeded(p, Flushed(p, b.id, note), b.id, note.version)
  PROVE  /\ b.id \in Notes /\ t.pend = tx[p].pend /\ t.held = tx[p].held /\ t.ws[b.id] = note /\ note # Absent
         /\ \A k \in Keys \ {b.id} : t.ws[k] = IF k \in b.dirty THEN b.blocks[k] ELSE tx[p].ws[k]
<1>1. b \in BatchState /\ tx[p] \in TxState /\ b.id \in Notes
  BY ChainTypes DEF BatchState
<1>4. note # Absent
  BY AbsentAssumption DEF Row
<1>5. /\ Flushed(p, b.id, note).held = tx[p].held /\ Flushed(p, b.id, note).pend = tx[p].pend
      /\ Flushed(p, b.id, note).ws = [k \in Keys |-> IF k = b.id THEN note
                        ELSE IF k \in b.dirty THEN b.blocks[k] ELSE tx[p].ws[k]]
  BY <1>1 DEF Flushed, TxState
<1>6. /\ t.held = Flushed(p, b.id, note).held /\ t.ws = Flushed(p, b.id, note).ws
      /\ t.pend = Flushed(p, b.id, note).pend
  BY DEF EnqueueSnapshotIfNeeded, Flushed
<1>7. b.id \in Keys
  BY <1>1 DEF Keys
<1> QED
  BY <1>1, <1>4, <1>5, <1>6, <1>7

\* A batch that is flushed leaves its note as its draft says.
LEMMA FlushDocs ==
  ASSUME TypeInv, ChainInv, DevicesInv, BatchesInv, ReplayInv, NEW p \in Handlers, FlushBatch(p)
  PROVE  ReplayInv'
<1> DEFINE t == tx[p]
           u == tx'[p]
           b == batch[p]
           n == b.id
           note == [b.note EXCEPT !.version = @ + 1]
<1>1. /\ pc[p] = "flush" /\ pc[p] \in InBatch /\ pc[p] \in PushWork
      /\ UNCHANGED <<rows, changes>>
  BY DEF FlushBatch, InBatch, PushWork
<1>2. Alone(p) /\ OpensBatch(p, todo[p]) /\ u.pend = t.pend /\ u.held = t.held
  BY FlushBatchShape DEF FlushShape
<1>3. /\ DocumentsOK(rows, changes, t, save[p], "flush", b) /\ TxRows(rows, t)
      /\ BlocksCached(rows, t, b) /\ CacheFresh(rows, t, b) /\ RanksOK(t, save[p], "flush", b)
  BY <1>1 DEF ReplayInv, DocumentsOK
<1>4. /\ t \in TxState /\ b \in BatchState /\ NoteRank(n) \in Int /\ n \in Notes \cup {NilNote}
      /\ b.changed /\ n \in Notes => b.note # Absent /\ n \in t.held
      /\ n = NilNote => b.note = Absent
  BY <1>1, ReplayTypes
<1>5. \A s \in Documents : Determined(History(changes, t, s), Start(s), Draft(rows, t, "flush", b, s))
  BY <1>1, ViewReplay
<1>6. \A s : History(changes, u, s) = History(changes, t, s)
  BY <1>2 DEF History
<1>7. todo[p] \in Seq(Operation) /\ \A o \in Elements(todo[p]) : \A k \in Notes : k \in t.held => k < NoteRank(o.note)
  <2>1. todo[p] \in Seq(Operation) /\ \A o \in Elements(todo[p]) : NoteRank(n) < NoteRank(o.note)
    BY <1>1, BatchWorks, BatchHandler DEF OrderOK
  <2>2. \A o \in Elements(todo[p]) : NoteRank(o.note) \in Int
    BY <2>1, SequenceElements
  <2>3. \A k \in Notes : k \in t.held => k <= NoteRank(n)
    BY <1>1, <1>3 DEF RanksOK
  <2> QED
    BY <1>4, <2>1, <2>2, <2>3, DocumentKeys
<1>8. TxRows(rows, u) /\ \A s \in Documents : Content(rows, u, s) = Draft(rows, t, "flush", b, s)
  <2>1. CASE ~(b.changed /\ b.note # Absent)
    <3>1. u = t
      BY <2>1 DEF FlushBatch
    <3>2. n = NilNote \/ ~b.changed
      BY <1>4, <2>1
    <3>3. \A s \in Documents : Draft(rows, t, "flush", b, s) = Content(rows, t, s)
      <4>1. CASE n = NilNote
        BY <4>1, DocumentKeys DEF Draft
      <4>2. CASE ~b.changed
        BY <1>3, <4>2, FreshDraft
      <4> QED
        BY <3>2, <4>1, <4>2
    <3> QED
      BY <1>3, <3>1, <3>3
  <2>2. CASE b.changed /\ b.note # Absent
    <3>1. u = EnqueueSnapshotIfNeeded(p, Flushed(p, n, note), n, note.version)
      BY <2>2, ShapeTypes DEF FlushBatch
    <3>2. /\ n \in Notes /\ u.ws[n] = note /\ note # Absent
          /\ \A k \in Keys \ {n} : u.ws[k] = IF k \in b.dirty THEN b.blocks[k] ELSE t.ws[k]
      <4>1. b = batch[p] /\ note \in NoteRow
        BY <1>4, <2>2 DEF BatchState, NoteRow
      <4> HIDE DEF b, note, u, t
      <4>2. /\ n \in Notes /\ u.ws[n] = note /\ note # Absent
            /\ \A k \in Keys \ {n} : u.ws[k] = IF k \in b.dirty THEN b.blocks[k] ELSE tx[p].ws[k]
        BY <1>1, <2>2, <3>1, <4>1, FlushedRows
      <4> QED
        BY <4>2 DEF t
    <3>3. n \in t.held /\ n \in Keys /\ n \notin Blocks /\ b.dirty \subseteq Blocks /\ Blocks \subseteq Keys
      BY <1>4, <2>2, <3>2, DocumentKeys DEF BatchState, Keys
    <3> HIDE DEF note, t, u, b
    <3>4. \A k \in Keys \ b.dirty : k # n => NoteView(rows, u, k) = NoteView(rows, t, k)
      BY <3>2 DEF NoteView
    <3>5. \A k \in b.dirty : /\ NoteView(rows, u, k) = b.blocks[k] /\ b.blocks[k] # Absent /\ k \in t.held
                             /\ b.blocks[k].note = n /\ NoteView(rows, t, k).note = n
      BY <1>3, <3>2, <3>3 DEF NoteView, BlocksCached
    <3>6. NoteView(rows, u, n) = note
      BY <3>2 DEF NoteView
    <3>7. TxRows(rows, u)
      <4>1. \A k \in Keys : u.ws[k] # Absent => k \in u.held
        BY <1>2, <1>3, <3>2, <3>3, <3>5 DEF TxRows
      <4>2. \A x \in u.pend : \A s \in Documents : Concerns(x, s) => s \in u.held
        BY <1>2, <1>3 DEF TxRows
      <4>3. ASSUME NEW k \in Blocks, k \in u.held
            PROVE  /\ NoteView(rows, u, k) # Absent /\ NoteView(rows, u, k).note \in u.held
                   /\ rows[k] # Absent => rows[k].note = NoteView(rows, u, k).note
        BY <1>2, <1>3, <3>3, <3>4, <3>5, <4>3 DEF TxRows
      <4> QED
        BY <4>1, <4>2, <4>3 DEF TxRows
    <3>8. ASSUME NEW s \in Documents, s # n PROVE Content(rows, u, s) = Draft(rows, t, "flush", b, s)
      <4>1. NoteView(rows, u, s) = NoteView(rows, t, s)
        BY <3>3, <3>4, <3>8, DocumentKeys
      <4>2. \A k \in Blocks : BlockOf(NoteView(rows, u, k), s) = BlockOf(NoteView(rows, t, k), s)
        BY <3>3, <3>4, <3>5, <3>8 DEF BlockOf
      <4>3. Content(rows, u, s) = Content(rows, t, s)
        BY <4>1, <4>2, ContentSame
      <4> QED
        BY <3>8, <4>3 DEF Draft, b
    <3>9. Content(rows, u, n) = Draft(rows, t, "flush", b, n)
      <4>1. DraftNote(rows, t, b) = note
        BY <2>2 DEF DraftNote, note
      <4>2. ASSUME NEW k \in Blocks
            PROVE  BlockOf(NoteView(rows, u, k), n) = IF b.blocks[k] # Absent THEN b.blocks[k]
                                                      ELSE BlocksOf(rows, t, n)[k]
        <5>1. CASE k \in b.dirty
          BY <3>5, <5>1 DEF BlockOf
        <5>2. CASE k \notin b.dirty
          <6>1. NoteView(rows, u, k) = NoteView(rows, t, k)
            BY <3>3, <3>4, <5>2
          <6>2. b.blocks[k] # Absent => NoteView(rows, t, k) = b.blocks[k] /\ b.blocks[k].note = n
            BY <1>3, <5>2 DEF BlocksCached
          <6> QED
            BY <6>1, <6>2 DEF BlockOf, BlocksOf
        <5> QED
          BY <5>1, <5>2
      <4>3. BlocksOf(rows, u, n) = DraftBlocks(rows, t, b)
        <5>1. BlocksOf(rows, u, n) = [k \in Blocks |-> BlockOf(NoteView(rows, u, k), n)]
          BY DEF BlocksOf
        <5>2. DraftBlocks(rows, t, b) = [k \in Blocks |-> IF b.blocks[k] # Absent THEN b.blocks[k]
                                                          ELSE BlocksOf(rows, t, n)[k]]
          BY DEF DraftBlocks
        <5> QED
          BY <4>2, <5>1, <5>2
      <4> QED
        BY <1>1, <3>2, <3>6, <4>1, <4>3 DEF Content, Draft, b
    <3> QED
      BY <3>7, <3>8, <3>9
  <2> QED
    BY <2>1, <2>2
<1>9. \A s \in Documents : s \in u.held => TxReplays(rows, changes, u, s)
  BY <1>5, <1>6, <1>8 DEF TxReplays
<1> HIDE DEF t, u, b
<1>10. \A k \in Keys : k \in u.held => k \in t.held
  BY <1>2
<1>11. \A o \in Elements(todo[p]) : \A k \in Notes : k \in u.held => k < NoteRank(o.note)
  BY <1>2, <1>7
<1> QED
  BY <1>1, <1>2, <1>7, <1>8, <1>9, <1>10, <1>11, ReplayOpens DEF t, u

\* A batch that was rejected is over: its note is locked again to be read, at most.
LEMMA RejectBatchDocs ==
  ASSUME TypeInv, ChainInv, DevicesInv, BatchesInv, ReplayInv, NEW p \in Handlers, RejectBatch(p)
  PROVE  ReplayInv'
<1> DEFINE t == tx[p]
           u == tx'[p]
           n == batch[p].id
           ops == AfterBatch(todo[p], n)
<1>1. /\ pc[p] = "rejected" /\ pc[p] \notin InBatch /\ pc[p] \in PushWork /\ UNCHANGED <<rows, changes>>
  BY DEF RejectBatch, InBatch, PushWork
<1>2. Alone(p) /\ OpensBatch(p, ops)
  BY RejectBatchShapes DEF RejectBatchShape
<1>3. DocumentsOK(rows, changes, t, save[p], pc[p], batch[p]) /\ TxRows(rows, t) /\ RanksOK(t, save[p], pc[p], batch[p])
  BY DEF ReplayInv, DocumentsOK
<1>4. t \in TxState /\ NoteRank(n) \in Int /\ n \in Notes \cup {NilNote}
  BY ReplayTypes
<1>5. u = t \/ (n \in Notes /\ Free(p, n) /\ u = Lock(t, n))
  BY <1>4, ShapeTypes DEF RejectBatch
<1>6. /\ ops \in Seq(Operation) /\ \A o \in Elements(ops) : NoteRank(n) < NoteRank(o.note) /\ NoteRank(o.note) \in Int
  <2>1. /\ todo[p] \in Seq(Operation) /\ Ranked(todo[p])
        /\ \A o \in Elements(todo[p]) : NoteRank(n) <= NoteRank(o.note)
    BY <1>1, BatchWorks, BatchHandler DEF OrderOK
  <2>2. ops \in Seq(Operation)
    BY <2>1, AfterBatchType
  <2> QED
    BY <1>4, <2>1, <2>2, AfterBatchElements, SequenceElements
<1>7. \A s \in Documents : TxReplays(rows, changes, t, s)
  BY <1>1, ViewReplay DEF TxReplays, Draft
<1> HIDE DEF t, u, ops
<1>8. /\ TxRows(rows, u) /\ \A k : k \in u.held => k \in t.held \/ (n \in Notes /\ k = n /\ Free(p, n))
      /\ \A s : Content(rows, u, s) = Content(rows, t, s) /\ History(changes, u, s) = History(changes, t, s)
  <2>1. CASE u = t
    BY <1>3, <2>1
  <2>2. CASE n \in Notes /\ Free(p, n) /\ u = Lock(t, n)
    <3>1. u.held = t.held \cup {n}
      BY <1>4, <2>2 DEF Lock, TxState
    <3> QED
      BY <1>3, <1>4, <2>2, <3>1, LockedMore
  <2> QED
    BY <1>5, <2>1, <2>2
<1>9. \A s \in Documents : s \in u.held => TxReplays(rows, changes, u, s)
  BY <1>7, <1>8 DEF TxReplays
<1>10. \A o \in Elements(ops) : \A k \in Notes : k \in u.held => k < NoteRank(o.note)
  <2>1. \A k \in Notes : k \in u.held => k <= NoteRank(n)
    <3>1. n \in Notes => n <= NoteRank(n)
      BY <1>4, NoteRankTyped
    <3>2. \A k \in Notes : k \in t.held => k <= NoteRank(n)
      BY <1>1, <1>3 DEF RanksOK
    <3> QED
      BY <1>8, <3>1, <3>2
  <2> QED
    BY <1>4, <1>6, <2>1, DocumentKeys
<1>11. \A k \in Keys : k \in u.held => k \in t.held \/ Free(p, k)
  BY <1>8
<1> QED
  BY <1>1, <1>2, <1>6, <1>8, <1>9, <1>10, <1>11, ReplayOpens DEF t, u

-----------------------------------------------------------------------------
(* Committed rows change under a transaction. *)

\* A transaction does not notice changes of rows and logs it has not locked.
LEMMA TxStay ==
  ASSUME NEW R, NEW S, NEW C, NEW E, NEW t, TxRows(R, t),
         \A k \in Blocks \cup Documents : k \in t.held => S[k] = R[k],
         \A n \in Notes : n \in t.held => \A k \in Blocks : BlockOf(S[k], n) = BlockOf(R[k], n),
         \A s \in Documents : s \in t.held => {x \in C : Concerns(x, s)} = {x \in E : Concerns(x, s)}
  PROVE  /\ TxRows(S, t)
         /\ \A k \in Blocks \cup Documents : k \in t.held => NoteView(S, t, k) = NoteView(R, t, k)
         /\ \A n \in Notes : n \in t.held => BlocksOf(S, t, n) = BlocksOf(R, t, n)
         /\ \A s \in Documents : s \in t.held =>
              Content(S, t, s) = Content(R, t, s) /\ History(E, t, s) = History(C, t, s)
<1>1. \A k \in Blocks \cup Documents : k \in t.held => NoteView(S, t, k) = NoteView(R, t, k)
  BY DEF NoteView
<1>2. ASSUME NEW n \in Notes, n \in t.held PROVE BlocksOf(S, t, n) = BlocksOf(R, t, n)
  <2>1. \A k \in Blocks : BlockOf(NoteView(S, t, k), n) = BlockOf(NoteView(R, t, k), n)
    BY <1>2 DEF NoteView
  <2> QED
    BY <2>1 DEF BlocksOf
<1>3. TxRows(S, t)
  BY <1>1 DEF TxRows
<1>4. \A s \in Documents : s \in t.held => Content(S, t, s) = Content(R, t, s)
  BY <1>1, <1>2 DEF Content
<1>5. ASSUME NEW s \in Documents, s \in t.held PROVE History(E, t, s) = History(C, t, s)
  <2>1. /\ History(E, t, s) = {x \in E : Concerns(x, s)} \cup {x \in t.pend : Concerns(x, s)}
        /\ History(C, t, s) = {x \in C : Concerns(x, s)} \cup {x \in t.pend : Concerns(x, s)}
    BY DEF History
  <2> QED
    BY <1>5, <2>1
<1> QED
  BY <1>1, <1>2, <1>3, <1>4, <1>5

LEMMA DocsStay ==
  ASSUME NEW R, NEW S, NEW C, NEW E, NEW t, NEW sv, NEW c, NEW b, DocumentsOK(R, C, t, sv, c, b),
         \A k \in Blocks \cup Documents : k \in t.held => S[k] = R[k],
         \A n \in Notes : n \in t.held => \A k \in Blocks : BlockOf(S[k], n) = BlockOf(R[k], n),
         \A s \in Documents : s \in t.held => {x \in C : Concerns(x, s)} = {x \in E : Concerns(x, s)},
         c \in InBatch /\ b.note # Absent => b.id \in Notes /\ b.id \in t.held
  PROVE  DocumentsOK(S, E, t, sv, c, b)
<1>1. TxRows(R, t) /\ RanksOK(t, sv, c, b)
  BY DEF DocumentsOK
<1>2. /\ TxRows(S, t)
      /\ \A k \in Blocks \cup Documents : k \in t.held => NoteView(S, t, k) = NoteView(R, t, k)
      /\ \A n \in Notes : n \in t.held => BlocksOf(S, t, n) = BlocksOf(R, t, n)
      /\ \A s \in Documents : s \in t.held =>
           Content(S, t, s) = Content(R, t, s) /\ History(E, t, s) = History(C, t, s)
  BY <1>1, TxStay
<1>3. ASSUME NEW s \in Documents, s \in t.held PROVE Draft(S, t, c, b, s) = Draft(R, t, c, b, s)
  <2>1. CASE c \in InBatch /\ s \in Notes /\ s = b.id
    <3>1. DraftNote(S, t, b) = DraftNote(R, t, b)
      BY <1>2, <1>3, <2>1 DEF DraftNote
    <3>2. DraftBlocks(S, t, b) = DraftBlocks(R, t, b)
      BY <1>2, <1>3, <2>1 DEF DraftBlocks
    <3> QED
      BY <2>1, <3>1, <3>2 DEF Draft
  <2>2. CASE ~(c \in InBatch /\ s \in Notes /\ s = b.id)
    BY <1>2, <1>3, <2>2 DEF Draft
  <2> QED
    BY <2>1, <2>2
<1>4. \A s \in Documents : s \in t.held => Determined(History(E, t, s), Start(s), Draft(S, t, c, b, s))
  BY <1>2, <1>3 DEF DocumentsOK
<1>5. ASSUME c \in InBatch
      PROVE  /\ TxRows(S, sv) /\ sv.held \subseteq t.held
             /\ \A s \in Documents : s \in sv.held => TxReplays(S, E, sv, s)
             /\ BlocksCached(S, t, b) /\ CacheFresh(S, t, b)
  <2>1. /\ TxRows(R, sv) /\ sv.held \subseteq t.held
        /\ \A s \in Documents : s \in sv.held => TxReplays(R, C, sv, s)
        /\ BlocksCached(R, t, b) /\ CacheFresh(R, t, b)
    BY <1>5 DEF DocumentsOK
  <2>2. /\ TxRows(S, sv)
        /\ \A s \in Documents : s \in sv.held =>
             Content(S, sv, s) = Content(R, sv, s) /\ History(E, sv, s) = History(C, sv, s)
    BY <2>1, TxStay
  <2>3. \A s \in Documents : s \in sv.held => TxReplays(S, E, sv, s)
    BY <2>1, <2>2 DEF TxReplays
  <2>4. BlocksCached(S, t, b)
    BY <1>2, <2>1 DEF BlocksCached
  <2>5. CacheFresh(S, t, b)
    BY <1>2, <1>5, <2>1 DEF CacheFresh, Documents
  <2> QED
    BY <2>1, <2>2, <2>3, <2>4, <2>5
<1> QED
  BY <1>1, <1>2, <1>4, <1>5 DEF DocumentsOK

\* The facts about a handler's batch that DocsStay needs.
LEMMA CachedNote ==
  ASSUME TypeInv, ChainInv, NEW p \in Handlers
  PROVE  pc[p] \in InBatch /\ batch[p].note # Absent => batch[p].id \in Notes /\ batch[p].id \in tx[p].held
  BY ReplayTypes

\* A commit shows in the documents it changed, and in nobody else's.
LEMMA CommitDocs ==
  ASSUME TypeInv, ChainInv, ReplayInv, NEW p \in Handlers, Alone(p), CommitShape(p)
  PROVE  ReplayInv'
<1>1. /\ pc[p] = "commit" /\ pc[p] \notin InBatch /\ tx'[p] = EmptyTx /\ pc'[p] \notin PushWork
      /\ rows' = [k \in Keys |-> Visible(p, k)] /\ changes' = changes \cup tx[p].pend
  BY DEF CommitShape, InBatch, PushWork
<1>2. \A k \in Keys : rows'[k] = NoteView(rows, tx[p], k)
  BY <1>1 DEF Visible, NoteView
<1>3. TxRows(rows, tx[p])
  BY DEF ReplayInv, DocumentsOK
<1>4. KeysExclusive'
  BY <1>1, EmptyTxFacts DEF ReplayInv, KeysExclusive, Alone
<1>5. ASSUME NEW s \in Documents PROVE TxReplays(rows', changes', EmptyTx, s)
  <2>1. Determined(History(changes, tx[p], s), Start(s), Content(rows, tx[p], s))
    BY <1>1, ViewReplay DEF Draft
  <2>2. History(changes', EmptyTx, s) = History(changes, tx[p], s)
    BY <1>1, EmptyTxFacts DEF History
  <2>3. \A k \in Keys : NoteView(rows', EmptyTx, k) = NoteView(rows, tx[p], k)
    <3>1. \A k \in Keys : NoteView(rows', EmptyTx, k) = rows'[k]
      BY EmptyTxFacts DEF NoteView
    <3> QED
      BY <1>2, <3>1
  <2>4. Content(rows', EmptyTx, s) = Content(rows, tx[p], s)
    BY <2>3, DocumentKeys, ContentSame
  <2> QED
    BY <2>1, <2>2, <2>4 DEF TxReplays
<1>6. DocumentsOK(rows', changes', tx'[p], save'[p], pc'[p], batch'[p])
  BY <1>1, NoDocuments
<1>7. ASSUME NEW q \in Handlers, q # p
      PROVE  DocumentsOK(rows', changes', tx[q], save[q], pc[q], batch[q])
  <2>1. DocumentsOK(rows, changes, tx[q], save[q], pc[q], batch[q])
    BY DEF ReplayInv
  <2>2. \A k \in Keys : k \in tx[q].held => k \notin tx[p].held
    BY <1>7 DEF ReplayInv, KeysExclusive
  <2>3. \A k \in Blocks \cup Documents : k \in tx[q].held => rows'[k] = rows[k]
    BY <1>2, <1>3, <2>2, DocumentKeys DEF TxRows, NoteView
  <2>4. ASSUME NEW n \in Notes, n \in tx[q].held, NEW k \in Blocks PROVE BlockOf(rows'[k], n) = BlockOf(rows[k], n)
    <3>1. CASE tx[p].ws[k] = Absent
      BY <1>2, <3>1, DocumentKeys DEF NoteView
    <3>2. CASE tx[p].ws[k] # Absent
      <4>1. k \in tx[p].held /\ n \notin tx[p].held
        BY <1>3, <2>2, <2>4, <3>2, DocumentKeys DEF TxRows, Documents
      <4>2. NoteView(rows, tx[p], k).note # n /\ (rows[k] # Absent => rows[k].note # n)
        BY <1>3, <4>1 DEF TxRows
      <4> QED
        BY <1>2, <4>2, DocumentKeys DEF BlockOf
    <3> QED
      BY <3>1, <3>2
  <2>5. \A s \in Documents : s \in tx[q].held => {x \in changes : Concerns(x, s)} = {x \in changes' : Concerns(x, s)}
    <3>1. TAKE s \in Documents
    <3>2. HAVE s \in tx[q].held
    <3>3. \A x \in tx[p].pend : ~Concerns(x, s)
      BY <1>3, <2>2, <3>2, DocumentKeys DEF TxRows
    <3> QED
      BY <1>1, <3>3
  <2> QED
    BY <2>1, <2>3, <2>4, <2>5, CachedNote, DocsStay
<1>8. \A q \in Handlers : DocumentsOK(rows', changes', tx'[q], save'[q], pc'[q], batch'[q])
  BY <1>6, <1>7 DEF Alone
<1> QED
  BY <1>4, <1>5, <1>8 DEF ReplayInv

LEMMA DeviceDocs ==
  ASSUME TypeInv, ChainInv, ReplayInv, NEW d \in Devices, DeviceShape(d)
  PROVE  ReplayInv'
<1>1. UNCHANGED <<changes, tx, save, pc, batch>>
  BY DEF DeviceShape
<1>2. \A k \in Blocks \cup Documents : rows'[k] = rows[k]
  BY ShapeTypes, DocumentKeys DEF DeviceShape
<1>3. KeysExclusive'
  BY <1>1 DEF ReplayInv, KeysExclusive
<1>4. ASSUME NEW s \in Documents PROVE TxReplays(rows', changes', EmptyTx, s)
  <2>1. \A k \in Blocks \cup Documents : NoteView(rows', EmptyTx, k) = NoteView(rows, EmptyTx, k)
    BY <1>2 DEF NoteView
  <2>2. Content(rows', EmptyTx, s) = Content(rows, EmptyTx, s)
    BY <2>1, ContentSame
  <2> QED
    BY <1>1, <2>2 DEF ReplayInv, TxReplays
<1>5. ASSUME NEW q \in Handlers PROVE DocumentsOK(rows', changes, tx[q], save[q], pc[q], batch[q])
  <2>1. DocumentsOK(rows, changes, tx[q], save[q], pc[q], batch[q])
    BY DEF ReplayInv
  <2> QED
    BY <1>2, <2>1, CachedNote, DocsStay
<1> QED
  BY <1>1, <1>3, <1>4, <1>5 DEF ReplayInv

-----------------------------------------------------------------------------
(* Every step. *)

LEMMA InitReplay == Init => ReplayInv
<1>1. SUFFICES ASSUME Init PROVE ReplayInv
  OBVIOUS
<1>2. /\ changes = {} /\ \A p \in Handlers : tx[p] = EmptyTx /\ pc[p] = "idle"
      /\ \A k \in Blocks \cup Documents : rows[k] = Absent
  BY <1>1, OwnerAssumption, DocumentKeys DEF Init
<1>3. KeysExclusive
  BY <1>2, EmptyTxFacts DEF KeysExclusive
<1>4. ASSUME NEW s \in Documents PROVE TxReplays(rows, changes, EmptyTx, s)
  <2>1. History(changes, EmptyTx, s) = {}
    BY <1>2, EmptyTxFacts DEF History
  <2>2. \A k \in Blocks \cup Documents : NoteView(rows, EmptyTx, k) = Absent
    BY <1>2, EmptyTxFacts, DocumentKeys DEF NoteView
  <2>3. Content(rows, EmptyTx, s) = Start(s)
    <3>1. CASE s \in Notes
      <4>1. BlocksOf(rows, EmptyTx, s) = [k \in Blocks |-> Absent]
        BY <2>2 DEF BlocksOf, BlockOf
      <4> QED
        BY <2>2, <3>1, <4>1 DEF Content, Start, EmptyDocument
    <3>2. CASE s \notin Notes
      BY <2>2, <3>2 DEF Content, Start
    <3> QED
      BY <3>1, <3>2
  <2> QED
    BY <2>1, <2>3, ReplayNothing DEF TxReplays
<1>5. \A p \in Handlers : DocumentsOK(rows, changes, tx[p], save[p], pc[p], batch[p])
  <2>1. "idle" \notin PushWork
    BY DEF PushWork
  <2> QED
    BY <1>2, <2>1, NoDocuments
<1> QED
  BY <1>3, <1>4, <1>5 DEF ReplayInv

LEMMA HandlerReplay ==
  ASSUME TypeInv, TypeInv', ChainInv, DevicesInv, BatchesInv, ReplayInv, NEW p \in Handlers, HandlerStep(p)
  PROVE  ReplayInv'
<1>1. CASE LockDevice(p) \/ PullPage(p)
  BY <1>1, LockDeviceShape, PullPageShape, ReplayDevice, ReplayIdle
<1>2. CASE FindProcessed(p)
  BY <1>2, QuietShapes, ReplayQuiet
<1>3. CASE RetryOp(p) \/ FlushBatch(p) \/ RejectBatch(p)
  BY <1>3, RetryDocs, FlushDocs, RejectBatchDocs
<1>4. CASE RejectMalformed(p) \/ RejectExisting(p) \/ DeleteNoteLookup(p) \/ RejectCategory(p)
  <2>1. pc[p] \in {"apply", "lookup"} /\ \E reason, version : RejectOp(p, reason, version)
    BY <1>4 DEF RejectMalformed, RejectExisting, DeleteNoteLookup, RejectCategory, Applying
  <2> QED
    BY <2>1, ReplayReject
<1>5. CASE CreateNote(p) \/ DeleteNote(p) \/ ModifyNoteProperty(p) \/ ModifyNoteTitle(p)
  BY <1>5, CreateNoteDocs, DeleteNoteDocs, ModifyNoteDocs
<1>6. CASE CreateBlock(p) \/ DeleteBlock(p) \/ ModifyBlock(p)
  BY <1>6, CreateBlockDocs, DeleteBlockDocs, ModifyBlockDocs
<1>7. CASE CreateCategory(p) \/ DeleteCategory(p) \/ ModifyCategory(p)
  BY <1>7, CategoryDocs
<1>8. CASE Commit(p) \/ Publish(p) \/ Respond(p)
  BY <1>8, EndShapes, CommitDocs, ReplayIdle
<1> QED
  BY <1>1, <1>2, <1>3, <1>4, <1>5, <1>6, <1>7, <1>8 DEF HandlerStep

LEMMA NextReplay ==
  ASSUME TypeInv, TypeInv', ChainInv, DevicesInv, BatchesInv, ReplayInv, [Next]_vars
  PROVE  ReplayInv'
<1>1. CASE \E p \in Handlers : \E r \in Requests : Receive(p, r)
  BY <1>1, ReceiveShapes, ReplayIdle
<1>2. CASE \E p \in Handlers : HandlerStep(p)
  BY <1>2, HandlerReplay
<1>3. CASE \E p \in Handlers : Abort(p) \/ CommitUnknown(p)
  BY <1>3, FailingShape, EndShapes, ReplayIdle DEF Abort, Failing
<1>4. CASE \E d \in Devices : DeviceShape(d)
  BY <1>4, DeviceDocs
<1>5. CASE CheckStep \/ UNCHANGED vars
  BY <1>5, CheckStepLeaves DEF vars, ReplayInv, KeysExclusive
<1>6. ASSUME NEW d \in Devices, RegisterDevice(d) \/ RevokeDevice(d) PROVE DeviceShape(d)
  BY <1>6 DEF RegisterDevice, RevokeDevice, DeviceShape, handler, world
<1> QED
  BY <1>1, <1>2, <1>3, <1>4, <1>5, <1>6, OwnerAssumption DEF Next, CheckStep

\* Only finitely many notes have been asked for.
BoundedInv == \E B \in Nat : \A p \in Handlers : NoteRank(batch[p].id) <= B

LEMMA NextBounded ==
  ASSUME TypeInv, TypeInv', BoundedInv, StepShape
  PROVE  BoundedInv'
<1>1. PICK B \in Nat : \A p \in Handlers : NoteRank(batch[p].id) <= B
  BY DEF BoundedInv
<1>2. ASSUME NEW p \in Handlers, Alone(p) PROVE BoundedInv'
  <2> DEFINE r == NoteRank(batch'[p].id)
             D == IF r <= B THEN B ELSE r
  <2>1. batch'[p] \in BatchState
    BY DEF TypeInv, HandlerFunctions
  <2>2. r \in Int
    BY <2>1, NoteRankTyped DEF BatchState
  <2>3. D \in Nat /\ r <= D /\ B <= D
    BY <2>2
  <2>4. \A q \in Handlers : NoteRank(batch[q].id) \in Int
    BY ShapeTypes, NoteRankTyped DEF BatchState
  <2>5. \A q \in Handlers : NoteRank(batch'[q].id) <= D
    <3>1. TAKE q \in Handlers
    <3>2. CASE q = p
      BY <2>3, <3>2
    <3>3. CASE q # p
      <4>1. batch'[q] = batch[q]
        BY <1>2, <3>3 DEF Alone
      <4> HIDE DEF D, r
      <4> QED
        BY <1>1, <2>3, <2>4, <4>1
    <3> QED
      BY <3>2, <3>3
  <2> HIDE DEF D
  <2> QED
    BY <2>3, <2>5 DEF BoundedInv
<1>3. CASE batch' = batch
  BY <1>1, <1>3 DEF BoundedInv
<1> QED
  BY <1>2, <1>3 DEF StepShape, DeviceShape, Still

LEMMA InitBounded == Init => BoundedInv
<1>1. SUFFICES ASSUME Init PROVE BoundedInv
  OBVIOUS
<1>2. \A p \in Handlers : NoteRank(batch[p].id) <= 0
  BY <1>1 DEF Init, NewBatch, NoteRank
<1> QED
  BY <1>2 DEF BoundedInv

LEMMA ReplayIsInvariant ==
  Spec => [](TypeInv /\ ChainInv /\ SyncInv /\ LogInv /\ ReplayInv /\ BoundedInv)
<1>1. Init => ReplayInv /\ BoundedInv
  BY InitReplay, InitBounded
<1>2. TypeInv /\ ChainInv /\ SyncInv /\ LogInv /\ ReplayInv /\ BoundedInv /\ [Next]_vars /\ TypeInv'
        => ReplayInv' /\ BoundedInv'
  <2>1. SUFFICES ASSUME TypeInv, ChainInv, SyncInv, LogInv, ReplayInv, BoundedInv, [Next]_vars, TypeInv'
                 PROVE  ReplayInv' /\ BoundedInv'
    OBVIOUS
  <2>2. StepShape /\ DevicesInv /\ BatchesInv
    BY <2>1, SyncShape DEF SyncInv, LogInv
  <2> QED
    BY <2>1, <2>2, NextReplay, NextBounded
<1> QED
  BY <1>1, <1>2, LogIsInvariant, PTL DEF Spec

\* Replaying a note's change rows by sequence gives the note and block rows the
\* server stores: what applyOperationBatch caches, writes at once and flushes at the
\* end of a batch is what it logs, whatever other handlers do in between.
THEOREM ReplayMatchesStateCorrect == Spec => []ReplayMatchesState
<1>1. ASSUME ReplayInv PROVE ReplayMatchesState
  <2>1. SUFFICES ASSUME NEW n \in Notes
                 PROVE  LET doc == Replay({c \in changes : c.note = n}, EmptyDocument) IN
                          /\ doc.note = rows[n]
                          /\ \A b \in Blocks :
                               doc.blocks[b] = IF rows[b] # Absent /\ rows[b].note = n THEN rows[b] ELSE Absent
    BY DEF ReplayMatchesState
  <2> DEFINE H == {c \in changes : c.note = n}
  <2>2. TxReplays(rows, changes, EmptyTx, n)
    BY <1>1 DEF ReplayInv, Documents
  <2>3. History(changes, EmptyTx, n) = H
    BY EmptyTxFacts DEF History, Concerns
  <2>4. Determined(H, EmptyDocument, Content(rows, EmptyTx, n))
    BY <2>2, <2>3 DEF TxReplays, Start
  <2> HIDE DEF H
  <2>5. Replay(H, EmptyDocument) = Content(rows, EmptyTx, n)
    BY <2>4, ReplayIs
  <2>6. \A k \in Keys : NoteView(rows, EmptyTx, k) = rows[k]
    BY EmptyTxFacts DEF NoteView
  <2>7. /\ Content(rows, EmptyTx, n).note = rows[n]
        /\ \A b \in Blocks : Content(rows, EmptyTx, n).blocks[b] = BlockOf(rows[b], n)
    BY <2>6, DocumentKeys DEF Content, BlocksOf, Documents
  <2> QED
    BY <2>5, <2>7 DEF H, BlockOf
<1> QED
  BY <1>1, ReplayIsInvariant, PTL

\* Replaying a category's change rows gives the row the server stores, although
\* categories have no version: LockCategoryForOwner and the unique index order them.
THEOREM CategoriesMatchLogCorrect == Spec => []CategoriesMatchLog
<1>1. ASSUME ReplayInv PROVE CategoriesMatchLog
  <2>1. SUFFICES ASSUME NEW k \in Categories
                 PROVE  rows[k] = Replay({c \in changes : c.note = NilNote /\ c.op.key = k}, Absent)
    BY DEF CategoriesMatchLog
  <2> DEFINE H == {c \in changes : c.note = NilNote /\ c.op.key = k}
  <2>2. TxReplays(rows, changes, EmptyTx, k) /\ k \notin Notes
    BY <1>1, DocumentKeys DEF ReplayInv, Documents
  <2>3. History(changes, EmptyTx, k) = H
    BY <2>2, EmptyTxFacts DEF History, Concerns
  <2>4. Content(rows, EmptyTx, k) = rows[k]
    BY <2>2, EmptyTxFacts, DocumentKeys DEF Content, NoteView, Documents
  <2>5. Determined(H, Absent, rows[k])
    BY <2>2, <2>3, <2>4 DEF TxReplays, Start
  <2> HIDE DEF H
  <2>6. Replay(H, Absent) = rows[k]
    BY <2>5, ReplayIs
  <2> QED
    BY <2>6 DEF H
<1> QED
  BY <1>1, ReplayIsInvariant, PTL

-----------------------------------------------------------------------------
(* Who waits for whom. *)

\* Whoever holds a block holds its note, which is p's before p asks for the block.
LEMMA NoBlockWait ==
  ASSUME TypeInv, ChainInv, ReplayInv, NEW p \in Handlers, NEW q \in Handlers, p # q, NEW b \in Blocks,
         AwaitsBlock(p, b), b \in tx[q].held
  PROVE  BlockIdClash(p)
<1> DEFINE n == batch[p].id
           m == NoteView(rows, tx[q], b).note
<1>1. /\ TxRows(rows, tx[p]) /\ TxRows(rows, tx[q]) /\ b \in Keys
      /\ \A k \in Keys : k \notin tx[p].held \/ k \notin tx[q].held
  BY DocumentKeys DEF ReplayInv, DocumentsOK, KeysExclusive
<1>2. b \notin tx[p].held /\ tx[p].ws[b] = Absent /\ Visible(p, b) = rows[b]
  BY <1>1 DEF TxRows, Visible
<1>3. /\ NoteView(rows, tx[q], b) # Absent /\ m \in tx[q].held
      /\ rows[b] # Absent => rows[b].note = m
  BY <1>1 DEF TxRows
<1>4. ASSUME NEW type \in {"create_block", "delete_block", "modify_block"}, Editing(p, type)
      PROVE  n \notin tx[q].held /\ pc[p] = "apply"
  <2>1. type \in EditTypes
    BY DEF EditTypes
  <2>2. pc[p] = "apply" /\ Op(p).note = n /\ n \in Notes /\ (n \in tx[p].held \/ Free(p, n))
    BY <1>4, <2>1, EditStart
  <2> QED
    BY <1>1, <2>2, DocumentKeys DEF Free, Documents
<1>5. CASE (Editing(p, "delete_block") \/ Editing(p, "modify_block")) /\ BatchBlock(p, b, n) # Absent
  <2>1. n \notin tx[q].held /\ pc[p] \in InBatch
    BY <1>4, <1>5 DEF InBatch
  <2>2. BlocksCached(rows, tx[p], batch[p])
    BY <2>1 DEF ReplayInv, DocumentsOK
  <2>3. batch[p].blocks[b] = Absent
    BY <1>2, <2>2 DEF BlocksCached
  <2>4. rows[b] # Absent /\ rows[b].note = n
    BY <1>2, <1>5, <2>3 DEF BatchBlock, BlockForNote
  <2> QED
    BY <1>3, <2>1, <2>4
<1>6. CASE rows[b] = Absent /\ n \notin tx[q].held
  <2>1. tx[q].ws[b] # Absent /\ tx[q].ws[b].note = m
    BY <1>3, <1>6 DEF NoteView
  <2>2. m # n
    BY <1>3, <1>6
  <2> QED
    BY <1>6, <2>1, <2>2 DEF BlockIdClash
<1>7. CASE Editing(p, "create_block") /\ Visible(p, b) = Absent
  BY <1>2, <1>4, <1>6, <1>7
<1>8. CASE Free(p, n) /\ Visible(p, b) = Absent
  BY <1>2, <1>6, <1>8 DEF Free
<1> QED
  BY <1>5, <1>7, <1>8 DEF AwaitsBlock

\* The holder of a note that p waits for, when it waits itself, waits for a note
\* after that one.
LEMMA NoteHolder ==
  ASSUME TypeInv, ChainInv, DevicesInv, ReplayInv, NEW p \in Handlers, NEW q \in Handlers, NEW r \in Handlers,
         AwaitsNote(p), batch[p].id \in tx[q].held, WaitsFor(q, r), ~BlockIdClash(q)
  PROVE  /\ AwaitsNote(q) /\ batch[q].id \in tx[r].held /\ batch[q].id \in Notes
         /\ batch[p].id < batch[q].id
<1> DEFINE n == batch[p].id
<1>1. n \in Notes /\ n \in Keys /\ n \in Nat /\ q # r
  BY KeysAssumption DEF AwaitsNote, WaitsFor, Keys
<1>2. RanksOK(tx[q], save[q], pc[q], batch[q]) /\ DeviceOK(q, rows, tx[q], save[q], pc[q], req[q], reply[q])
  BY DeviceHandler DEF ReplayInv, DocumentsOK
<1>3. ~\E b \in Blocks : AwaitsBlock(q, b) /\ b \in tx[r].held
  BY <1>1, NoBlockWait
<1>4. pc[q] # "lock"
  BY <1>2, EmptyTxFacts DEF DeviceOK, Working
<1>5. ~Applying(q, CategoryTypes)
  <2>1. SUFFICES ASSUME Applying(q, CategoryTypes) PROVE FALSE
    OBVIOUS
  <2>2. batch[q].id = NilNote /\ pc[q] \in PushWork
    BY <2>1, ApplyingTyped DEF PushWork
  <2>3. n <= -1
    BY <1>1, <1>2, <2>2 DEF RanksOK, NoteRank
  <2> QED
    BY <1>1, <2>3
<1>6. AwaitsNote(q) /\ batch[q].id \in tx[r].held
  BY <1>3, <1>4, <1>5 DEF WaitsFor
<1>7. batch[q].id \in Notes /\ batch[q].id \in Nat /\ pc[q] \in PushWork
  <2>1. batch[q].id \in Notes
    BY <1>6 DEF AwaitsNote
  <2>2. pc[q] \in PushWork
    BY <1>6 DEF AwaitsNote, Applying, PushWork
  <2> QED
    BY <2>1, <2>2, KeysAssumption
<1>8. n <= batch[q].id
  BY <1>1, <1>2, <1>7, NoteRankTyped DEF RanksOK
<1>9. n # batch[q].id
  BY <1>1, <1>6 DEF ReplayInv, KeysExclusive
<1> QED
  BY <1>1, <1>6, <1>7, <1>8, <1>9

\* A handler that waits for its device holds nothing yet.
LEMMA DeviceWaiterHoldsNothing ==
  ASSUME TypeInv, DevicesInv, NEW p \in Handlers, pc[p] = "lock"
  PROVE  tx[p].held = {} /\ \A k \in Keys : tx[p].ws[k] = Absent
  BY DeviceHandler, EmptyTxFacts DEF DeviceOK, Working

\* Handlers wait for each other in a circle only over categories, or over a block id
\* that a client uses in two notes: sortedOperations puts the notes of a request in
\* order, and a block is touched under the lock of its note.
THEOREM NoWaitCircleCorrect == Spec => []NoWaitCircle
<1>1. ASSUME TypeInv, ChainInv, DevicesInv, ReplayInv, BoundedInv PROVE NoWaitCircle
  <2>1. SUFFICES ASSUME NEW S \in SUBSET Handlers, S # {}, \A p \in S : \E q \in S : WaitsFor(p, q),
                        \A p \in S : ~BlockIdClash(p)
                 PROVE  \E p, q \in S : p # q /\ \A h \in {p, q} : Applying(h, CategoryTypes)
    BY DEF NoWaitCircle
  <2> DEFINE N(p, q) == AwaitsNote(p) /\ batch[p].id \in tx[q].held
             A == {p \in S : \E q \in S : N(p, q)}
             W == {batch[p].id : p \in A}
  <2>2. ASSUME NEW p \in S, NEW q \in S, N(p, q)
        PROVE  \E r \in S : N(q, r) /\ batch[p].id < batch[q].id
    <3>1. PICK r \in S : WaitsFor(q, r)
      BY <2>1
    <3>2. AwaitsNote(q) /\ batch[q].id \in tx[r].held /\ batch[p].id < batch[q].id
      BY <1>1, <2>1, <2>2, <3>1, NoteHolder
    <3> QED
      BY <3>2
  <2>3. \A p \in S, q \in S : ~N(p, q)
    <3>1. SUFFICES ASSUME A # {} PROVE FALSE
      OBVIOUS
    <3>2. \A p \in A : batch[p].id \in Notes /\ NoteRank(batch[p].id) = batch[p].id
      BY NoteRankTyped DEF AwaitsNote
    <3>3. PICK B \in Nat : \A p \in Handlers : NoteRank(batch[p].id) <= B
      BY <1>1 DEF BoundedInv
    <3>4. W \subseteq Nat /\ W # {}
      <4> HIDE DEF N, A
      <4> QED
        BY <3>1, <3>2, KeysAssumption
    <3>5. \A i \in W : i <= B
      BY <3>2, <3>3
    <3> HIDE DEF N, A
    <3>6. Max(W) \in W /\ \A i \in W : i <= Max(W)
      BY <3>4, <3>5, MaxOfBounded
    <3>7. PICK p \in A : Max(W) = batch[p].id
      BY <3>6
    <3>8. PICK q \in S : p \in S /\ N(p, q)
      BY <3>7 DEF A
    <3>9. q \in A /\ batch[p].id < batch[q].id
      BY <2>2, <3>8 DEF A
    <3>10. batch[q].id \in W /\ batch[q].id <= batch[p].id /\ batch[q].id \in Nat /\ batch[p].id \in Nat
      BY <3>4, <3>6, <3>7, <3>9
    <3> QED
      BY <3>9, <3>10
  <2>4. ASSUME NEW p \in S, NEW q \in S, WaitsFor(p, q)
        PROVE  \/ pc[p] = "lock" /\ req[p].device \in tx[q].held
               \/ /\ Applying(p, CategoryTypes)
                  /\ Op(p).key \in tx[q].held \/ NamePending(q, User(p), Op(p).name)
    BY <1>1, <2>1, <2>3, <2>4, NoBlockWait DEF WaitsFor
  <2>5. ASSUME NEW p \in S, NEW q \in S, WaitsFor(p, q) PROVE Applying(q, CategoryTypes)
    <3>1. pc[q] # "lock"
      <4>1. SUFFICES ASSUME pc[q] = "lock" PROVE FALSE
        OBVIOUS
      <4>2. tx[q].held = {} /\ \A k \in Categories : tx[q].ws[k] = Absent
        BY <1>1, <4>1, DeviceWaiterHoldsNothing DEF Keys
      <4>3. ~NamePending(q, User(p), Op(p).name)
        BY <4>2 DEF NamePending
      <4> QED
        BY <2>4, <2>5, <4>2, <4>3
    <3>2. PICK r \in S : WaitsFor(q, r)
      BY <2>1
    <3> QED
      BY <2>4, <3>1, <3>2
  <2>6. PICK p \in S, q \in S : WaitsFor(p, q)
    BY <2>1
  <2>7. PICK r \in S : WaitsFor(q, r)
    BY <2>1
  <2>8. Applying(q, CategoryTypes) /\ Applying(r, CategoryTypes) /\ q # r
    BY <2>5, <2>6, <2>7 DEF WaitsFor
  <2> QED
    BY <2>8
<1> QED
  BY <1>1, ReplayIsInvariant, PTL DEF SyncInv
=============================================================================
