----------------------------- MODULE UploadsProofs -----------------------------
(***************************************************************************)
(* Proofs about Uploads, for any number of uploads, calls, cleaners and    *)
(* devices.                                                                *)
(*                                                                         *)
(* The argument: whatever a call or a cleaner read of a row before its     *)
(* next statement, it relies only on what can no longer change.  A row's   *)
(* status moves one way (Lifecycle); a row that is being deleted is never  *)
(* completed; and where an object that did not match was stored, a match   *)
(* is found again only if a second one is stored (Doomed).                 *)
(***************************************************************************)
EXTENDS Uploads, TLAPS, FiniteSetTheorems, WellFoundedInduction

\* Where an Initiate has an id and no row, and where a call works on a row.
Pre == {"i_device", "i_target", "i_count", "i_insert", "i_commit"}
Post == {"i_sign", "i_fail", "c_target", "c_info", "c_reject", "c_update", "c_reread",
         "d_target", "d_sign", "l_sign", "x_cancel", "x_object", "x_mark", "x_reread"}
Listing == {"l_list", "l_next", "l_sign"}
Served == {"COMPLETED", "CANCELLED", "DELETED"}

\* The rows of table R.
RowsOf(R) == {u \in Ids : R[u] # NoRow}

\* What holds of a call k over table R, whatever the object store does.
CallOK(R, k) ==
  /\ k.pc \in Pre => /\ k.id \in Ids /\ R[k.id] = NoRow
                     /\ k.block \in Blocks /\ k.device \in Devices /\ k.meta \in Metadata
  /\ k.pc \in Post => k.id \in RowsOf(R)
  /\ k.pc \in Listing =>
       /\ k.device \in Devices /\ k.left \subseteq RowsOf(R)
       /\ \A v \in k.ready \cup k.links :
            v \in RowsOf(R) /\ R[v].status \in Served /\ R[v].device # k.device
  /\ k.pc = "l_sign" => k.id \in k.ready
  /\ k.pc \in {"x_object", "x_mark"} => R[k.id].status \in {"CANCELLED", "DELETED"}
  /\ k.pc = "x_reread" => R[k.id].status = "DELETED"
  /\ k.pc = "c_reread" => R[k.id].status # "PENDING"
  /\ k.pc = "idle" /\ k.id # NoId =>
       /\ k.id \in RowsOf(R)
       /\ k.answer = "completed" => R[k.id].status \in Served
       /\ k.answer \in {"deleted", "ErrNotFound"} => R[k.id].status = "DELETED"
       /\ k.answer = "conflict" => R[k.id].status \notin {"PENDING", "COMPLETED"}

\* No two Initiates work with one id.
DistinctIds ==
  \A c, d \in Calls : c # d /\ call[c].pc \in Pre /\ call[d].pc \in Pre => call[c].id # call[d].id

CleanerOK(R, k) == k.left \subseteq RowsOf(R) /\ (k.pc # "idle" => k.left # {})

StatusInv ==
  /\ TypeOK
  /\ DistinctIds
  /\ \A c \in Calls : CallOK(row, call[c])
  /\ \A w \in Cleaners : CleanerOK(row, cleaner[w])
  /\ signed \subseteq Rows
  /\ LinksOnlyVerified

-----------------------------------------------------------------------------
\* A nonempty listing has a first upload.
LEMMA FirstOfListing ==
  ASSUME TypeOK, NEW S, S \subseteq Rows, S # {}
  PROVE  First(S) \in S
<1> DEFINE T == {row[u].cursor : u \in S}
<1>1. \A u \in S : u \in Ids /\ row[u].cursor \in Nat
  BY DEF TypeOK, Rows, Row
<1>2. T \subseteq Nat /\ T # {}
  BY <1>1
<1>3. PICK t \in T : \A s \in T : ~(<<s, t>> \in OpToRel(<, Nat))
  BY <1>2, NatLessThanWellFounded, WFMin, Zenon
<1>4. \A s \in T : ~(s < t)
  BY <1>2, <1>3 DEF OpToRel
<1>5. PICK u \in S : t = row[u].cursor
  OBVIOUS
<1>6. \A v \in S : row[u].cursor <= row[v].cursor
  <2> TAKE v \in S
  <2>1. ~(row[v].cursor < row[u].cursor)
    BY <1>4, <1>5
  <2> QED
    BY <1>1, <2>1
<1> QED
  BY <1>6 DEF First

\* So has a nonempty page of the cleaner.
LEMMA FirstOfPage ==
  ASSUME TypeOK, NEW S, S \subseteq Rows, S # {}
  PROVE  FirstDue(S) \in S
<1> DEFINE T == {row[u].expires : u \in S}
<1>1. \A u \in S : u \in Ids /\ row[u].expires \in Nat
  BY DEF TypeOK, Rows, Row
<1>2. T \subseteq Nat /\ T # {}
  BY <1>1
<1>3. PICK t \in T : \A s \in T : ~(<<s, t>> \in OpToRel(<, Nat))
  BY <1>2, NatLessThanWellFounded, WFMin, Zenon
<1>4. \A s \in T : ~(s < t)
  BY <1>2, <1>3 DEF OpToRel
<1>5. PICK u \in S : t = row[u].expires
  OBVIOUS
<1>6. \A v \in S : row[u].expires <= row[v].expires
  <2> TAKE v \in S
  <2>1. ~(row[v].expires < row[u].expires)
    BY <1>4, <1>5
  <2> QED
    BY <1>1, <2>1
<1> QED
  BY <1>6 DEF FirstDue

-----------------------------------------------------------------------------
(* Steps of the table: a row keeps all it was created with, and its status  *)
(* moves one way.                                                          *)

StatusMoves(s, t) ==
  \/ s = t
  \/ s = "PENDING"
  \/ t = "CANCELLED" /\ s # "DELETED"
  \/ t = "DELETED" /\ s = "CANCELLED"

RowsEvolve ==
  /\ row' \in [Ids -> Row \cup {NoRow}]
  /\ \A u \in Rows :
       /\ row'[u] # NoRow /\ row'[u].block = row[u].block /\ row'[u].device = row[u].device
       /\ row'[u].meta = row[u].meta /\ row'[u].cursor = row[u].cursor
       /\ row'[u].expires = row[u].expires
       /\ StatusMoves(row[u].status, row'[u].status)

\* No row is added, or one by call c.
AddedBy(c) == \A u \in Ids \ Rows : row'[u] # NoRow => call[c].pc = "i_commit" /\ call[c].id = u
NoneAdded == \A u \in Ids \ Rows : row'[u] = NoRow

LEMMA RowTypes ==
  ASSUME TypeOK
  PROVE  /\ NoRow \notin Row
         /\ \A u \in Ids : u \in Rows <=> row[u] \in Row
         /\ \A u \in Rows : /\ u \in Ids /\ Status(u) = row[u].status /\ row[u].status \in Statuses
                            /\ row[u].meta \in Metadata /\ row[u].block \in Blocks
                            /\ row[u].device \in Devices /\ row[u].cursor \in Nat
                            /\ row[u].expires \in Nat
         /\ \A u \in Ids : Status(u) = "NONE" <=> u \notin Rows
BY SentinelsAssumption DEF TypeOK, Rows, Row, Status, Statuses

LEMMA SameRows ==
  ASSUME TypeOK, row' = row
  PROVE  RowsEvolve /\ NoneAdded /\ Rows' = Rows
BY DEF TypeOK, RowsEvolve, NoneAdded, Rows, StatusMoves

\* The conditional UPDATE of one row.
LEMMA UpdateEvolves ==
  ASSUME TypeOK, NEW u \in Ids, NEW from \in SUBSET Statuses, NEW new \in Statuses,
         Status(u) \in from => StatusMoves(Status(u), new), Update(u, from, new)
  PROVE  /\ RowsEvolve /\ NoneAdded /\ Rows' = Rows
         /\ \A v \in Ids : v # u => row'[v] = row[v]
         /\ u \in Rows => row'[u].status = IF row[u].status \in from THEN new ELSE row[u].status
<1>1. CASE Status(u) \in from
  <2>1. u \in Rows /\ row[u] \in Row /\ Status(u) = row[u].status
    BY <1>1, RowTypes DEF Statuses
  <2>2. row' = [row EXCEPT ![u].status = new]
    BY <1>1 DEF Update
  <2>3. /\ row'[u] = [row[u] EXCEPT !.status = new] /\ row'[u] \in Row
        /\ \A v \in Ids : v # u => row'[v] = row[v]
        /\ row' \in [Ids -> Row \cup {NoRow}]
    BY <2>1, <2>2 DEF TypeOK, Row
  <2>4. Rows' = Rows
    BY <2>1, <2>3, RowTypes DEF Rows
  <2>5. /\ row'[u].block = row[u].block /\ row'[u].device = row[u].device
        /\ row'[u].meta = row[u].meta /\ row'[u].cursor = row[u].cursor
        /\ row'[u].expires = row[u].expires /\ row'[u].status = new
    BY <2>1, <2>3 DEF Row
  <2>6. StatusMoves(row[u].status, row'[u].status) /\ row'[u] # NoRow
    BY <1>1, <2>1, <2>3, <2>5, RowTypes
  <2>7. \A v \in Rows : v # u => row'[v] # NoRow /\ StatusMoves(row[v].status, row'[v].status)
    BY <2>3 DEF Rows, StatusMoves
  <2>8. RowsEvolve
    BY <2>3, <2>5, <2>6, <2>7 DEF RowsEvolve, Rows
  <2> QED
    BY <1>1, <2>1, <2>3, <2>4, <2>5, <2>8 DEF NoneAdded, Rows
<1>2. CASE Status(u) \notin from
  <2>1. row' = row
    BY <1>2 DEF Update
  <2> QED
    BY <1>2, <2>1, SameRows, RowTypes
<1> QED
  BY <1>1, <1>2

\* What a call relies on stays true while others write the table.
LEMMA CallOKStays ==
  ASSUME TypeOK, RowsEvolve, NEW k, CallOK(row, k), k.pc \in Pre => row'[k.id] = NoRow
  PROVE  CallOK(row', k)
<1> DEFINE R == RowsOf(row)
           S == RowsOf(row')
<1>1. R \subseteq S
  BY DEF RowsEvolve, Rows, RowsOf
<1>2. \A u \in R : /\ row'[u].device = row[u].device
                   /\ StatusMoves(row[u].status, row'[u].status)
  BY DEF RowsEvolve, Rows, RowsOf
<1> HIDE DEF R, S
<1>3. k.pc \in Listing =>
       /\ k.device \in Devices /\ k.left \subseteq S
       /\ \A v \in k.ready \cup k.links :
            v \in S /\ row'[v].status \in Served /\ row'[v].device # k.device
  BY <1>1, <1>2 DEF CallOK, StatusMoves, Served, R
<1>4. k.pc \in Post => k.id \in S
  BY <1>1 DEF CallOK, R
<1>5. /\ k.pc \in {"x_object", "x_mark"} => row'[k.id].status \in {"CANCELLED", "DELETED"}
      /\ k.pc = "x_reread" => row'[k.id].status = "DELETED"
      /\ k.pc = "c_reread" => row'[k.id].status # "PENDING"
  BY <1>2 DEF CallOK, Post, StatusMoves, R
<1>6. k.pc = "idle" /\ k.id # NoId =>
       /\ k.id \in S
       /\ k.answer = "completed" => row'[k.id].status \in Served
       /\ k.answer \in {"deleted", "ErrNotFound"} => row'[k.id].status = "DELETED"
       /\ k.answer = "conflict" => row'[k.id].status \notin {"PENDING", "COMPLETED"}
  BY <1>1, <1>2 DEF CallOK, StatusMoves, Served, R
<1>7. /\ k.pc \in Pre => /\ k.id \in Ids /\ row'[k.id] = NoRow
                         /\ k.block \in Blocks /\ k.device \in Devices /\ k.meta \in Metadata
      /\ k.pc = "l_sign" => k.id \in k.ready
  BY DEF CallOK
<1> QED
  BY <1>3, <1>4, <1>5, <1>6, <1>7 DEF CallOK, S

LEMMA CleanerOKStays ==
  ASSUME RowsEvolve, NEW k, CleanerOK(row, k)
  PROVE  CleanerOK(row', k)
BY DEF RowsEvolve, CleanerOK, Rows, RowsOf

\* Links that were served, and the ones a step adds.
LinksFrom ==
  /\ feed' \in [Devices -> [cursor : Nat, links : SUBSET Ids]]
  /\ \A d \in Devices : \A u \in feed'[d].links :
       u \in feed[d].links \/ (u \in Rows /\ row[u].status \in Served /\ row[u].device # d)

LEMMA LinksStay ==
  ASSUME TypeOK, LinksOnlyVerified, RowsEvolve, LinksFrom
  PROVE  LinksOnlyVerified'
<1> SUFFICES ASSUME NEW d \in Devices, NEW u \in feed'[d].links
             PROVE  Status(u)' \in Served /\ row'[u].device # d
  BY DEF LinksOnlyVerified, Served
<1>1. u \in Ids
  BY DEF LinksFrom
<1>2. u \in Rows /\ row[u].status \in Served /\ row[u].device # d
  BY <1>1, RowTypes DEF LinksFrom, LinksOnlyVerified, Served
<1>3. row'[u] # NoRow /\ row'[u].status \in Served /\ row'[u].device # d
  BY <1>2 DEF RowsEvolve, StatusMoves, Served
<1> QED
  BY <1>3 DEF Status

\* A step of call c that makes it k.
LEMMA CallStep ==
  ASSUME StatusInv, NEW c \in Calls, NEW k \in Call, call' = [call EXCEPT ![c] = k],
         RowsEvolve, AddedBy(c), CallOK(row', k),
         k.pc \in Pre => \/ call[c].pc \in Pre /\ call[c].id = k.id
                         \/ \A d \in Calls : call[d].pc \in Pre => call[d].id # k.id,
         lastCursor' \in Nat, object' \in [Ids -> Metadata \cup {Absent, Unreadable}],
         UNCHANGED <<clock, age>> \/ (clock' \in Nat /\ age' \in [Ids -> Ages]),
         UNCHANGED <<cleaner, stores, live, revoked>>, signed' \subseteq Rows', LinksFrom
  PROVE  StatusInv'
<1>1. call \in [Calls -> Call] /\ \A d \in Calls : call'[d] = IF d = c THEN k ELSE call[d]
  BY DEF StatusInv, TypeOK
<1>2. TypeOK'
  <2>1. call' \in [Calls -> Call]
    BY <1>1
  <2>2. signed' \subseteq Ids
    BY DEF Rows
  <2> QED
    BY <2>1, <2>2 DEF StatusInv, TypeOK, RowsEvolve, LinksFrom
<1>3. DistinctIds'
  BY <1>1 DEF StatusInv, DistinctIds
<1>4. ASSUME NEW d \in Calls PROVE CallOK(row', call'[d])
  <2>1. CASE d = c
    BY <1>1, <2>1
  <2>2. CASE d # c
    <3>1. CallOK(row, call[d]) /\ call[d] \in Call
      BY <1>1 DEF StatusInv
    <3>2. call[d].pc \in Pre => row'[call[d].id] = NoRow
      <4>1. SUFFICES ASSUME call[d].pc \in Pre, row'[call[d].id] # NoRow PROVE FALSE
        OBVIOUS
      <4>2. call[d].id \in Ids \ Rows
        BY <3>1, <4>1 DEF CallOK, Rows
      <4>3. call[c].pc = "i_commit" /\ call[c].id = call[d].id
        BY <4>1, <4>2 DEF AddedBy
      <4> QED
        BY <2>2, <4>1, <4>3 DEF StatusInv, DistinctIds, Pre
    <3>3. CallOK(row', call[d])
      BY <3>1, <3>2, CallOKStays DEF StatusInv
    <3> QED
      BY <1>1, <2>2, <3>3
  <2> QED
    BY <2>1, <2>2
<1>5. \A w \in Cleaners : CleanerOK(row', cleaner'[w])
  BY CleanerOKStays DEF StatusInv
<1>6. LinksOnlyVerified'
  BY LinksStay DEF StatusInv
<1> QED
  BY <1>2, <1>3, <1>4, <1>5, <1>6 DEF StatusInv

\* A step of call c that writes no row and gives no link.
LEMMA QuietCallStep ==
  ASSUME StatusInv, NEW c \in Calls, NEW k \in Call, call' = [call EXCEPT ![c] = k],
         CallOK(row, k),
         k.pc \in Pre => \/ call[c].pc \in Pre /\ call[c].id = k.id
                         \/ \A d \in Calls : call[d].pc \in Pre => call[d].id # k.id,
         lastCursor' \in Nat, object' \in [Ids -> Metadata \cup {Absent, Unreadable}],
         UNCHANGED <<clock, age>> \/ (clock' \in Nat /\ age' \in [Ids -> Ages]),
         UNCHANGED <<row, cleaner, stores, live, revoked, feed>>, signed' \subseteq Rows
  PROVE  StatusInv'
<1>1. RowsEvolve /\ NoneAdded /\ Rows' = Rows
  BY SameRows DEF StatusInv
<1>2. AddedBy(c)
  BY <1>1 DEF NoneAdded, AddedBy
<1>3. LinksFrom
  BY DEF StatusInv, TypeOK, LinksFrom
<1>4. CallOK(row', k)
  BY <1>1
<1> QED
  BY <1>1, <1>2, <1>3, <1>4, CallStep

\* A step of cleaner w that makes it k.
LEMMA CleanerStep ==
  ASSUME StatusInv, NEW w \in Cleaners, NEW k \in [pc : CleanerPCs, left : SUBSET Ids],
         cleaner' = [cleaner EXCEPT ![w] = k], CleanerOK(row, k), RowsEvolve, NoneAdded,
         object' \in [Ids -> Metadata \cup {Absent, Unreadable}],
         UNCHANGED <<lastCursor, clock, stores, age, live, revoked, signed, call, feed>>
  PROVE  StatusInv'
<1>1. TypeOK'
  BY DEF StatusInv, TypeOK, RowsEvolve
<1>2. DistinctIds'
  BY DEF StatusInv, DistinctIds
<1>3. ASSUME NEW d \in Calls PROVE CallOK(row', call'[d])
  <2>1. CallOK(row, call[d])
    BY DEF StatusInv
  <2>2. call[d].pc \in Pre => row'[call[d].id] = NoRow
    BY <2>1 DEF CallOK, NoneAdded, Rows
  <2> QED
    BY <2>1, <2>2, CallOKStays DEF StatusInv
<1>4. ASSUME NEW v \in Cleaners PROVE CleanerOK(row', cleaner'[v])
  <2>1. CleanerOK(row, cleaner'[v])
    BY DEF StatusInv, TypeOK
  <2> QED
    BY <2>1, CleanerOKStays
<1>5. signed' \subseteq Rows'
  BY DEF StatusInv, RowsEvolve, Rows
<1>6. LinksFrom
  BY DEF StatusInv, TypeOK, LinksFrom
<1>7. LinksOnlyVerified'
  BY <1>6, LinksStay DEF StatusInv
<1> QED
  BY <1>1, <1>2, <1>3, <1>4, <1>5, <1>7 DEF StatusInv

\* A step of the environment.
LEMMA WorldStep ==
  ASSUME StatusInv, age' \in [Ids -> Ages], live' \subseteq Blocks, revoked' \subseteq Devices,
         object' \in [Ids -> Metadata \cup {Absent, Unreadable}],
         stores' \in [Ids -> 0..2],
         UNCHANGED <<row, lastCursor, clock, signed, call, cleaner, feed>>
  PROVE  StatusInv'
<1>1. TypeOK' /\ Rows' = Rows
  BY DEF StatusInv, TypeOK, Rows
<1>2. DistinctIds' /\ LinksOnlyVerified'
  BY DEF StatusInv, DistinctIds, LinksOnlyVerified, Status
<1> QED
  BY <1>1, <1>2 DEF StatusInv

\* The records a call goes through.
LEMMA GotoRecord ==
  ASSUME TypeOK, NEW c \in Calls, NEW p \in PCs, NEW k, k = [call[c] EXCEPT !.pc = p]
  PROVE  /\ k \in Call /\ k.pc = p /\ k.id = call[c].id /\ k.block = call[c].block
         /\ k.device = call[c].device /\ k.meta = call[c].meta /\ k.left = call[c].left
         /\ k.ready = call[c].ready /\ k.links = call[c].links
         /\ k.answer = call[c].answer /\ k.cursor = call[c].cursor
BY DEF TypeOK, Call

LEMMA StartRecord ==
  ASSUME NEW p \in PCs, NEW u \in Ids, NEW k, k = [Idle("none") EXCEPT !.pc = p, !.id = u]
  PROVE  k \in Call /\ k.pc = p /\ k.id = u /\ k.left = {} /\ k.ready = {} /\ k.links = {}
BY DEF Call, Idle, Answers

\* A call that ends without an answer, or moves on, keeps the invariant.
LEMMA EndKeeps ==
  ASSUME StatusInv, NEW c \in Calls, End(c), UNCHANGED <<row, cleaner, clock, stores, age, live, revoked, feed>>,
         lastCursor' \in Nat, object' \in [Ids -> Metadata \cup {Absent, Unreadable}],
         signed' \subseteq Rows
  PROVE  StatusInv'
<1> DEFINE k == Idle("none")
<1>1. k \in Call /\ k.pc = "idle" /\ k.id = NoId
  BY DEF Call, Idle, PCs, Answers
<1>2. CallOK(row, k)
  BY <1>1 DEF CallOK, Pre, Post, Listing
<1> QED
  BY <1>1, <1>2, QuietCallStep DEF End, Pre

LEMMA GotoKeeps ==
  ASSUME StatusInv, NEW c \in Calls, NEW p \in PCs, Goto(c, p),
         CallOK(row, [call[c] EXCEPT !.pc = p]), p \in Pre => call[c].pc \in Pre,
         UNCHANGED <<row, cleaner, clock, stores, age, live, revoked, feed>>,
         lastCursor' \in Nat, object' \in [Ids -> Metadata \cup {Absent, Unreadable}],
         signed' \subseteq Rows
  PROVE  StatusInv'
<1> DEFINE k == [call[c] EXCEPT !.pc = p]
<1>0. TypeOK
  BY DEF StatusInv
<1>1. k \in Call /\ k.pc = p /\ k.id = call[c].id
  BY <1>0, GotoRecord
<1>2. call' = [call EXCEPT ![c] = k]
  BY DEF Goto
<1> HIDE DEF k
<1>3. CallOK(row, k)
  BY DEF k
<1> QED
  BY <1>1, <1>2, <1>3, QuietCallStep

-----------------------------------------------------------------------------
(* The actions keep StatusInv.                                             *)

LEMMA StatusTypes ==
  ASSUME StatusInv
  PROVE  /\ TypeOK /\ lastCursor \in Nat /\ object \in [Ids -> Metadata \cup {Absent, Unreadable}]
         /\ signed \subseteq Rows /\ Rows = RowsOf(row)
         /\ \A c \in Calls : CallOK(row, call[c]) /\ call[c] \in Call
BY DEF StatusInv, TypeOK, Rows, RowsOf

LEMMA InitiateStartStatus ==
  ASSUME StatusInv, NEW c \in Calls, NEW u \in Unused, NEW r \in Request, InitiateStart(c, u, r)
  PROVE  StatusInv'
<1> USE StatusTypes
<1>1. UNCHANGED <<row, lastCursor, object, cleaner, feed, clock, stores, age, live, revoked, signed>>
  BY DEF InitiateStart, world
<1>2. CASE ~validateRequest(r)
  BY <1>1, <1>2, EndKeeps DEF InitiateStart, End
<1>3. CASE validateRequest(r)
  <2> DEFINE k == [Idle("none") EXCEPT !.pc = "i_device", !.id = u, !.block = r.block,
                                       !.device = r.device, !.meta = r.meta]
  <2>1. call' = [call EXCEPT ![c] = k]
    BY <1>3 DEF InitiateStart
  <2>2. /\ k \in Call /\ k.pc = "i_device" /\ k.id = u /\ k.block = r.block /\ k.device = r.device
        /\ k.meta = r.meta
    BY DEF Call, Idle, PCs, Answers, Unused, Request
  <2> HIDE DEF k
  <2>3. CallOK(row, k)
    BY <2>2 DEF CallOK, Pre, Post, Listing, Unused, Request
  <2>4. \A d \in Calls : call[d].pc \in Pre => call[d].id # k.id
    BY <2>2 DEF Unused, Pre
  <2> QED
    BY <1>1, <2>1, <2>2, <2>3, <2>4, QuietCallStep
<1> QED
  BY <1>2, <1>3

\* Moving on within an Initiate.
LEMMA PreStep ==
  ASSUME StatusInv, NEW c \in Calls, call[c].pc \in Pre, NEW p \in Pre, Goto(c, p),
         UNCHANGED <<row, cleaner, clock, stores, age, live, revoked, feed, lastCursor, object, signed>>
  PROVE  StatusInv'
<1> USE StatusTypes
<1> DEFINE k == [call[c] EXCEPT !.pc = p]
<1>1. p \in PCs
  BY DEF Pre, PCs
<1>2. /\ k.pc = p /\ k.id = call[c].id /\ k.block = call[c].block
      /\ k.device = call[c].device /\ k.meta = call[c].meta
  BY <1>1, GotoRecord
<1> HIDE DEF k
<1>3. CallOK(row, k)
  BY <1>2 DEF CallOK, Pre, Post, Listing
<1> QED
  BY <1>1, <1>3, GotoKeeps DEF k

LEMMA InitiateCheckStatus ==
  ASSUME StatusInv, NEW c \in Calls, InitiateDevice(c) \/ InitiateTarget(c)
  PROVE  StatusInv'
<1> USE StatusTypes
<1>1. UNCHANGED <<row, lastCursor, object, cleaner, feed, clock, stores, age, live, revoked, signed>>
  BY DEF InitiateDevice, InitiateTarget, world
<1>2. CASE End(c)
  BY <1>1, <1>2, EndKeeps
<1>3. CASE ~End(c)
  <2>1. call[c].pc \in Pre /\ \E p \in Pre : Goto(c, p)
    BY <1>3 DEF InitiateDevice, InitiateTarget, Pre
  <2> QED
    BY <1>1, <2>1, PreStep
<1> QED
  BY <1>2, <1>3

LEMMA InitiateCountStatus ==
  ASSUME StatusInv, NEW c \in Calls, InitiateCount(c)
  PROVE  StatusInv'
<1> USE StatusTypes
<1>1. UNCHANGED <<row, lastCursor, object, cleaner, feed, live, revoked, signed, stores>>
  BY DEF InitiateCount
<1>2. CASE End(c) /\ UNCHANGED <<clock, age>>
  BY <1>1, <1>2, EndKeeps
<1>3. CASE SetExpiry(c)
  <2> DEFINE k == [call[c] EXCEPT !.pc = "i_insert", !.expires = clock + 1]
  <2>1. call[c].pc = "i_count" /\ clock' = clock + 1 /\ call' = [call EXCEPT ![c] = k]
    BY <1>3 DEF InitiateCount, SetExpiry
  <2>2. age' \in [Ids -> Ages]
    BY <1>3 DEF SetExpiry, TypeOK, Ages
  <2>3. clock + 1 \in Nat /\ call[c] \in Call
    BY DEF TypeOK
  <2>4. /\ k \in Call /\ k.pc = "i_insert" /\ k.id = call[c].id /\ k.block = call[c].block
        /\ k.device = call[c].device /\ k.meta = call[c].meta
    BY <2>3 DEF Call, PCs
  <2> HIDE DEF k
  <2>5. CallOK(row, k)
    BY <2>1, <2>4 DEF CallOK, Pre, Post, Listing
  <2> QED
    BY <1>1, <2>1, <2>2, <2>3, <2>4, <2>5, QuietCallStep DEF Pre
<1> QED
  BY <1>2, <1>3 DEF InitiateCount

LEMMA InitiateInsertStatus ==
  ASSUME StatusInv, NEW c \in Calls, InitiateInsert(c)
  PROVE  StatusInv'
<1> USE StatusTypes
<1> DEFINE k == [call[c] EXCEPT !.pc = "i_commit", !.cursor = lastCursor + 1]
<1>1. /\ UNCHANGED <<row, object, cleaner, feed, clock, stores, age, live, revoked, signed>>
      /\ call[c].pc = "i_insert" /\ lastCursor' = lastCursor + 1 /\ call' = [call EXCEPT ![c] = k]
  BY DEF InitiateInsert, world
<1>2. /\ k \in Call /\ k.pc = "i_commit" /\ k.id = call[c].id /\ k.block = call[c].block
      /\ k.device = call[c].device /\ k.meta = call[c].meta /\ lastCursor + 1 \in Nat
  <2>1. lastCursor + 1 \in Nat /\ call[c] \in Call
    OBVIOUS
  <2> QED
    BY <2>1 DEF Call, PCs
<1> HIDE DEF k
<1>3. CallOK(row, k)
  BY <1>1, <1>2 DEF CallOK, Pre, Post, Listing
<1> QED
  BY <1>1, <1>2, <1>3, QuietCallStep DEF Pre

LEMMA InitiateCommitStatus ==
  ASSUME StatusInv, NEW c \in Calls, InitiateCommit(c)
  PROVE  StatusInv' /\ RowsEvolve
<1> USE StatusTypes
<1> DEFINE u == call[c].id
           r == [status |-> "PENDING", block |-> call[c].block, device |-> call[c].device,
                 meta |-> call[c].meta, cursor |-> call[c].cursor, expires |-> call[c].expires]
           k == [call[c] EXCEPT !.pc = "i_sign"]
<1>1. /\ UNCHANGED <<lastCursor, object, cleaner, feed, clock, stores, age, live, revoked, signed>>
      /\ call[c].pc = "i_commit" /\ row' = [row EXCEPT ![u] = r] /\ call' = [call EXCEPT ![c] = k]
  BY DEF InitiateCommit, Goto, world
<1>2. u \in Ids /\ row[u] = NoRow /\ r \in Row /\ u \notin Rows
  BY <1>1 DEF CallOK, Pre, Row, Statuses, Call, Rows
<1> HIDE DEF r
<1>3. /\ row' \in [Ids -> Row \cup {NoRow}] /\ row'[u] = r /\ r # NoRow
      /\ \A v \in Ids : v # u => row'[v] = row[v]
  BY <1>1, <1>2, RowTypes DEF TypeOK
<1>4. RowsEvolve /\ AddedBy(c)
  BY <1>1, <1>2, <1>3 DEF RowsEvolve, AddedBy, Rows, StatusMoves
<1>5. k \in Call /\ k.pc = "i_sign" /\ k.id = u
  BY GotoRecord DEF PCs
<1> HIDE DEF k
<1>6. u \in RowsOf(row')
  BY <1>2, <1>3 DEF RowsOf
<1>7. CallOK(row', k)
  BY <1>5, <1>6 DEF CallOK, Pre, Post, Listing
<1>8. LinksFrom /\ signed' \subseteq Rows'
  BY <1>1, <1>4 DEF TypeOK, LinksFrom, RowsEvolve, Rows
<1> QED
  BY <1>1, <1>4, <1>5, <1>7, <1>8, CallStep DEF Pre

LEMMA InitiateSignStatus ==
  ASSUME StatusInv, NEW c \in Calls, InitiateSign(c)
  PROVE  StatusInv'
<1> USE StatusTypes
<1>1. /\ UNCHANGED <<row, lastCursor, clock, stores, age, live, revoked, object, cleaner, feed>>
      /\ call[c].pc = "i_sign" /\ call[c].id \in Rows
  BY DEF InitiateSign, CallOK, Post
<1>2. CASE signed' = signed \cup {call[c].id} /\ End(c)
  BY <1>1, <1>2, EndKeeps
<1>3. CASE signed' = signed /\ Goto(c, "i_fail")
  <2> DEFINE k == [call[c] EXCEPT !.pc = "i_fail"]
  <2>1. k.pc = "i_fail" /\ k.id = call[c].id
    BY GotoRecord DEF PCs
  <2> HIDE DEF k
  <2>2. CallOK(row, k)
    BY <1>1, <2>1 DEF CallOK, Pre, Post, Listing
  <2> QED
    BY <1>1, <1>3, <2>2, GotoKeeps DEF k, PCs, Pre
<1> QED
  BY <1>2, <1>3 DEF InitiateSign

\* A call that updates a row and ends, with or without an answer.
LEMMA UpdateAndEnd ==
  ASSUME StatusInv, NEW c \in Calls, NEW a \in Answers, NEW u \in Rows \cup {NoId}, AnswerAt(c, u, a),
         RowsEvolve, NoneAdded, Rows' = Rows,
         u # NoId => /\ a = "completed" => row'[u].status \in Served
                     /\ a \in {"deleted", "ErrNotFound"} => row'[u].status = "DELETED"
                     /\ a = "conflict" => row'[u].status \notin {"PENDING", "COMPLETED"},
         UNCHANGED <<lastCursor, object, cleaner, feed, clock, stores, age, live, revoked, signed>>
  PROVE  StatusInv'
<1> USE StatusTypes
<1> DEFINE k == [Idle(a) EXCEPT !.id = u]
<1>0. u \in Ids \cup {NoId}
  BY DEF Rows
<1>1. k \in Call /\ k.pc = "idle" /\ k.id = u /\ k.answer = a
  BY <1>0 DEF Call, Idle, PCs
<1>2. call' = [call EXCEPT ![c] = k]
  BY DEF AnswerAt
<1> HIDE DEF k
<1>3. RowsOf(row') = Rows
  BY DEF Rows, RowsOf
<1>4. CallOK(row', k)
  BY <1>1, <1>3 DEF CallOK, Pre, Post, Listing
<1>5. LinksFrom /\ AddedBy(c)
  BY DEF TypeOK, LinksFrom, NoneAdded, AddedBy
<1> QED
  BY <1>1, <1>2, <1>4, <1>5, CallStep DEF Pre

\* A call that updates a row and moves on.
LEMMA UpdateAndGoto ==
  ASSUME StatusInv, NEW c \in Calls, NEW p \in Post \ {"l_sign"}, call[c].pc \in Post, Goto(c, p),
         RowsEvolve, NoneAdded, Rows' = Rows,
         p \in {"x_object", "x_mark"} => row'[call[c].id].status \in {"CANCELLED", "DELETED"},
         p = "x_reread" => row'[call[c].id].status = "DELETED",
         p = "c_reread" => row'[call[c].id].status # "PENDING",
         UNCHANGED <<lastCursor, cleaner, feed, clock, stores, age, live, revoked, signed>>,
         object' \in [Ids -> Metadata \cup {Absent, Unreadable}]
  PROVE  StatusInv'
<1> USE StatusTypes
<1> DEFINE k == [call[c] EXCEPT !.pc = p]
<1>1. p \in PCs
  BY DEF Post, PCs
<1>2. k \in Call /\ k.pc = p /\ k.id = call[c].id /\ call' = [call EXCEPT ![c] = k]
  BY <1>1, GotoRecord DEF Goto
<1> HIDE DEF k
<1>3. call[c].id \in RowsOf(row')
  BY DEF CallOK, Rows, RowsOf
<1>4. CallOK(row', k)
  BY <1>2, <1>3 DEF CallOK, Pre, Post, Listing
<1>5. LinksFrom /\ AddedBy(c)
  BY DEF TypeOK, LinksFrom, NoneAdded, AddedBy
<1>6. k.pc \notin Pre
  BY <1>2 DEF Pre, Post
<1> QED
  BY <1>2, <1>4, <1>5, <1>6, CallStep

\* End is an answer without an upload.
LEMMA EndIsAnswer ==
  ASSUME NEW c \in Calls, End(c)
  PROVE  AnswerAt(c, NoId, "none")
BY DEF End, AnswerAt, Idle

\* MarkFileUploadFailed with its error ignored, in Initiate and in Complete.
LEMMA MarkFailedEvolves ==
  ASSUME StatusInv, NEW u \in Rows, MarkFileUploadFailed(u) \/ row' = row
  PROVE  /\ RowsEvolve /\ NoneAdded /\ Rows' = Rows
         /\ \A v \in Rows : row'[v].status = "COMPLETED" => row[v].status = "COMPLETED"
<1> USE StatusTypes
<1>1. CASE row' = row
  BY <1>1, SameRows
<1>2. CASE MarkFileUploadFailed(u)
  <2>1. Update(u, {"PENDING"}, "FAILED") /\ u \in Ids
    BY <1>2 DEF MarkFileUploadFailed, Rows
  <2>2. Status(u) \in {"PENDING"} => StatusMoves(Status(u), "FAILED")
    BY DEF StatusMoves
  <2>3. {"PENDING"} \in SUBSET Statuses /\ "FAILED" \in Statuses
    BY DEF Statuses
  <2>4. /\ RowsEvolve /\ NoneAdded /\ Rows' = Rows
        /\ \A v \in Ids : v # u => row'[v] = row[v]
        /\ u \in Rows => row'[u].status = IF row[u].status \in {"PENDING"} THEN "FAILED" ELSE row[u].status
    BY <2>1, <2>2, <2>3, UpdateEvolves
  <2> QED
    BY <2>4 DEF Rows
<1> QED
  BY <1>1, <1>2

LEMMA CompleteEvolves ==
  ASSUME StatusInv, NEW u \in Rows, CompleteFileUpload(u)
  PROVE  /\ RowsEvolve /\ NoneAdded /\ Rows' = Rows
         /\ \A v \in Ids : v # u => row'[v] = row[v]
         /\ row'[u].status = IF row[u].status = "PENDING" THEN "COMPLETED" ELSE row[u].status
<1> USE StatusTypes
<1>1. Update(u, {"PENDING"}, "COMPLETED") /\ u \in Ids
  BY DEF CompleteFileUpload, Rows
<1>2. Status(u) \in {"PENDING"} => StatusMoves(Status(u), "COMPLETED")
  BY DEF StatusMoves
<1>3. {"PENDING"} \in SUBSET Statuses /\ "COMPLETED" \in Statuses
  BY DEF Statuses
<1> QED
  BY <1>1, <1>2, <1>3, UpdateEvolves

LEMMA InitiateFailStatus ==
  ASSUME StatusInv, NEW c \in Calls, InitiateFail(c)
  PROVE  StatusInv' /\ RowsEvolve
<1> USE StatusTypes
<1>1. /\ UNCHANGED <<lastCursor, object, cleaner, feed, clock, stores, age, live, revoked, signed>>
      /\ call[c].id \in Rows /\ End(c) /\ (MarkFileUploadFailed(call[c].id) \/ row' = row)
  BY DEF InitiateFail, world, CallOK, Post
<1>2. RowsEvolve /\ NoneAdded /\ Rows' = Rows
  BY <1>1, MarkFailedEvolves
<1> QED
  BY <1>1, <1>2, EndIsAnswer, UpdateAndEnd DEF Answers

LEMMA CompleteGetStatus ==
  ASSUME StatusInv, NEW c \in Calls, NEW u \in Ids, CompleteGet(c, u)
  PROVE  StatusInv'
<1> USE StatusTypes
<1>1. UNCHANGED <<row, lastCursor, object, cleaner, feed, clock, stores, age, live, revoked, signed>>
  BY DEF CompleteGet, world
<1>2. RowsEvolve /\ NoneAdded /\ Rows' = Rows
  BY <1>1, SameRows
<1>3. CASE End(c)
  BY <1>1, <1>3, EndKeeps
<1>4. CASE Status(u) = "COMPLETED" /\ AnswerAt(c, u, "completed")
  <2>1. u \in Rows /\ row'[u].status \in Served
    BY <1>1, <1>4, RowTypes DEF Served
  <2> QED
    BY <1>1, <1>2, <1>4, <2>1, UpdateAndEnd DEF Answers
<1>5. CASE Status(u) \in Statuses \ {"PENDING", "COMPLETED"} /\ AnswerAt(c, u, "conflict")
  <2>1. u \in Rows /\ row'[u].status \notin {"PENDING", "COMPLETED"}
    BY <1>1, <1>5, RowTypes DEF Statuses
  <2> QED
    BY <1>1, <1>2, <1>5, <2>1, UpdateAndEnd DEF Answers
<1>6. CASE /\ Status(u) = "PENDING"
           /\ call' = [call EXCEPT ![c] = [Idle("none") EXCEPT !.pc = "c_target", !.id = u]]
  <2> DEFINE k == [Idle("none") EXCEPT !.pc = "c_target", !.id = u]
  <2>1. u \in Rows
    BY <1>6, RowTypes
  <2>2. k \in Call /\ k.pc = "c_target" /\ k.id = u
    BY DEF Call, Idle, PCs, Answers
  <2> HIDE DEF k
  <2>3. CallOK(row, k)
    BY <2>1, <2>2 DEF CallOK, Pre, Post, Listing
  <2> QED
    BY <1>1, <1>6, <2>2, <2>3, QuietCallStep DEF Pre, k
<1> QED
  BY <1>3, <1>4, <1>5, <1>6 DEF CompleteGet

LEMMA CompleteStatus ==
  ASSUME StatusInv, NEW c \in Calls, CompleteTarget(c) \/ CompleteInfo(c) \/ CompleteReread(c)
  PROVE  StatusInv'
<1> USE StatusTypes
<1>1. /\ UNCHANGED <<row, lastCursor, object, cleaner, feed, clock, stores, age, live, revoked, signed>>
      /\ call[c].pc \in Post /\ call[c].id \in Rows
  BY DEF CompleteTarget, CompleteInfo, CompleteReread, world, CallOK, Post
<1>2. RowsEvolve /\ NoneAdded /\ Rows' = Rows
  BY <1>1, SameRows
<1>3. CASE End(c)
  BY <1>1, <1>3, EndKeeps
<1>4. CASE \E p \in {"c_info", "c_update", "c_reject"} : Goto(c, p)
  BY <1>1, <1>2, <1>4, UpdateAndGoto DEF Post
<1>5. CASE CompleteReread(c)
  <2>1. call[c].pc = "c_reread" /\ row[call[c].id].status # "PENDING"
    BY <1>5 DEF CompleteReread, CallOK
  <2>2. CASE Status(call[c].id) = "COMPLETED"
    <3>1. AnswerAt(c, call[c].id, "completed") /\ row'[call[c].id].status \in Served
      BY <1>1, <1>5, <2>2, RowTypes DEF CompleteReread, Answer, Served
    <3> QED
      BY <1>1, <1>2, <3>1, UpdateAndEnd DEF Answers
  <2>3. CASE Status(call[c].id) # "COMPLETED"
    <3>1. /\ AnswerAt(c, call[c].id, "conflict")
          /\ row'[call[c].id].status \notin {"PENDING", "COMPLETED"}
      BY <1>1, <1>5, <2>1, <2>3, RowTypes DEF CompleteReread, Answer
    <3> QED
      BY <1>1, <1>2, <3>1, UpdateAndEnd DEF Answers
  <2> QED
    BY <2>2, <2>3
<1> QED
  BY <1>3, <1>4, <1>5 DEF CompleteTarget, CompleteInfo

LEMMA CompleteRejectStatus ==
  ASSUME StatusInv, NEW c \in Calls, CompleteReject(c)
  PROVE  StatusInv' /\ RowsEvolve
<1> USE StatusTypes
<1>1. /\ UNCHANGED <<lastCursor, object, cleaner, feed, clock, stores, age, live, revoked, signed>>
      /\ call[c].id \in Rows /\ AnswerAt(c, call[c].id, "unprocessable")
      /\ (MarkFileUploadFailed(call[c].id) \/ row' = row)
  BY DEF CompleteReject, world, CallOK, Post, Answer
<1>2. RowsEvolve /\ NoneAdded /\ Rows' = Rows
  BY <1>1, MarkFailedEvolves
<1> QED
  BY <1>1, <1>2, UpdateAndEnd DEF Answers

LEMMA CompleteUpdateStatus ==
  ASSUME StatusInv, NEW c \in Calls, CompleteUpdate(c)
  PROVE  StatusInv' /\ RowsEvolve
<1> USE StatusTypes
<1>1. /\ UNCHANGED <<lastCursor, object, cleaner, feed, clock, stores, age, live, revoked, signed>>
      /\ call[c].id \in Rows /\ call[c].pc = "c_update" /\ CompleteFileUpload(call[c].id)
      /\ Status(call[c].id) = row[call[c].id].status
  BY RowTypes DEF CompleteUpdate, world, CallOK, Post
<1>2. /\ RowsEvolve /\ NoneAdded /\ Rows' = Rows
      /\ row'[call[c].id].status = IF row[call[c].id].status = "PENDING" THEN "COMPLETED"
                                   ELSE row[call[c].id].status
  BY <1>1, CompleteEvolves
<1>3. CASE row[call[c].id].status = "PENDING"
  <2>1. AnswerAt(c, call[c].id, "completed") /\ row'[call[c].id].status \in Served
    BY <1>1, <1>2, <1>3 DEF CompleteUpdate, Answer, Served
  <2> QED
    BY <1>1, <1>2, <2>1, UpdateAndEnd DEF Answers
<1>4. CASE row[call[c].id].status # "PENDING"
  <2>1. Goto(c, "c_reread") /\ row'[call[c].id].status # "PENDING"
    BY <1>1, <1>2, <1>4 DEF CompleteUpdate
  <2> QED
    BY <1>1, <1>2, <2>1, UpdateAndGoto DEF Post
<1> QED
  BY <1>2, <1>3, <1>4

LEMMA DownloadStatus ==
  ASSUME StatusInv, NEW c \in Calls,
         (\E b \in Blocks : DownloadGet(c, b)) \/ DownloadTarget(c) \/ DownloadSign(c)
  PROVE  StatusInv'
<1> USE StatusTypes
<1>1. UNCHANGED <<row, lastCursor, object, cleaner, feed, clock, stores, age, live, revoked, signed>>
  BY DEF DownloadGet, DownloadTarget, DownloadSign, world
<1>2. RowsEvolve /\ NoneAdded /\ Rows' = Rows
  BY <1>1, SameRows
<1>3. CASE End(c)
  BY <1>1, <1>3, EndKeeps
<1>4. CASE Goto(c, "d_sign") /\ call[c].pc = "d_target"
  BY <1>1, <1>2, <1>4, UpdateAndGoto DEF Post
<1>5. CASE \E u \in Rows : call' = [call EXCEPT ![c] = [Idle("none") EXCEPT !.pc = "d_target", !.id = u]]
  <2>1. PICK u \in Rows : call' = [call EXCEPT ![c] = [Idle("none") EXCEPT !.pc = "d_target", !.id = u]]
    BY <1>5
  <2> DEFINE k == [Idle("none") EXCEPT !.pc = "d_target", !.id = u]
  <2>2. u \in Ids
    BY DEF Rows
  <2>3. k \in Call /\ k.pc = "d_target" /\ k.id = u
    BY <2>2 DEF Call, Idle, PCs, Answers
  <2> HIDE DEF k
  <2>4. CallOK(row, k)
    BY <2>3 DEF CallOK, Pre, Post, Listing
  <2> QED
    BY <1>1, <2>1, <2>3, <2>4, QuietCallStep DEF Pre, k
<1>6. \A b \in Blocks : GetFileUploadForBlock(b) \subseteq Rows
  BY DEF GetFileUploadForBlock
<1> QED
  BY <1>3, <1>4, <1>5, <1>6 DEF DownloadGet, DownloadTarget, DownloadSign

\* A call of the feed that goes on as k, writing nothing.
LEMMA FeedStep ==
  ASSUME StatusInv, NEW c \in Calls, NEW k \in Call, call' = [call EXCEPT ![c] = k],
         k.pc \in {"l_list", "l_next", "l_sign"}, k.device \in Devices, k.left \subseteq Rows,
         \A v \in k.ready \cup k.links :
            v \in Rows /\ row[v].status \in Served /\ row[v].device # k.device,
         k.pc = "l_sign" => k.id \in k.ready,
         UNCHANGED <<row, lastCursor, object, cleaner, feed, clock, stores, age, live, revoked, signed>>
  PROVE  StatusInv'
<1> USE StatusTypes
<1>1. CallOK(row, k)
  BY DEF CallOK, Pre, Post, Listing
<1> QED
  BY <1>1, QuietCallStep DEF Pre

LEMMA FeedDeviceStatus ==
  ASSUME StatusInv, NEW c \in Calls, NEW d \in Devices, FeedDevice(c, d)
  PROVE  StatusInv'
<1> USE StatusTypes
<1>1. UNCHANGED <<row, lastCursor, object, cleaner, feed, clock, stores, age, live, revoked, signed>>
  BY DEF FeedDevice, world
<1>2. CASE End(c)
  BY <1>1, <1>2, EndKeeps
<1>3. CASE ~End(c)
  <2> DEFINE k == [Idle("none") EXCEPT !.pc = "l_list", !.device = d, !.cursor = feed[d].cursor]
  <2>1. call' = [call EXCEPT ![c] = k]
    BY <1>3 DEF FeedDevice
  <2>2. feed[d].cursor \in Nat
    BY DEF TypeOK
  <2>3. k \in Call /\ k.pc = "l_list" /\ k.device = d /\ k.left = {} /\ k.ready = {} /\ k.links = {}
    BY <2>2 DEF Call, Idle, PCs, Answers
  <2> HIDE DEF k
  <2> QED
    BY <1>1, <2>1, <2>3, FeedStep
<1> QED
  BY <1>2, <1>3

LEMMA FeedListStatus ==
  ASSUME StatusInv, NEW c \in Calls, FeedList(c)
  PROVE  StatusInv'
<1> USE StatusTypes
<1> DEFINE listed == ListFileUploadsAfterCursor(call[c].cursor)
           ready == {u \in listed : row[u].status = "COMPLETED" /\ row[u].device # call[c].device}
           k == [call[c] EXCEPT !.pc = "l_next", !.left = listed, !.ready = ready]
<1>1. /\ UNCHANGED <<row, lastCursor, object, cleaner, feed, clock, stores, age, live, revoked, signed>>
      /\ call[c].pc = "l_list" /\ call' = [call EXCEPT ![c] = k]
  BY DEF FeedList, world
<1>2. listed \subseteq Rows /\ ready \subseteq Rows /\ Rows \subseteq Ids
  BY DEF ListFileUploadsAfterCursor, Rows
<1>3. \A v \in ready : row[v].status \in Served /\ row[v].device # call[c].device
  BY DEF Served
<1> HIDE DEF listed, ready
<1>4. /\ k \in Call /\ k.pc = "l_next" /\ k.left = listed /\ k.ready = ready
      /\ k.links = call[c].links /\ k.device = call[c].device
  BY <1>2 DEF Call, PCs
<1> HIDE DEF k
<1>5. /\ call[c].device \in Devices
      /\ \A v \in call[c].links : v \in Rows /\ row[v].status \in Served /\ row[v].device # call[c].device
  BY <1>1 DEF CallOK, Listing
<1> QED
  BY <1>1, <1>2, <1>3, <1>4, <1>5, FeedStep

LEMMA FeedNextStatus ==
  ASSUME StatusInv, NEW c \in Calls, FeedNext(c)
  PROVE  StatusInv'
<1> USE StatusTypes
<1> DEFINE u == First(call[c].left)
           p == IF u \in call[c].ready /\ row[u].block \in live THEN "l_sign" ELSE "l_next"
           k == [call[c] EXCEPT !.id = u, !.cursor = row[u].cursor, !.left = @ \ {u}, !.pc = p]
<1>1. /\ UNCHANGED <<row, lastCursor, object, cleaner, feed, clock, stores, age, live, revoked, signed>>
      /\ call[c].pc = "l_next" /\ call[c].left # {} /\ call' = [call EXCEPT ![c] = k]
  BY DEF FeedNext, world
<1>2. /\ call[c].left \subseteq Rows /\ call[c].device \in Devices
      /\ \A v \in call[c].ready \cup call[c].links :
            v \in Rows /\ row[v].status \in Served /\ row[v].device # call[c].device
  BY <1>1 DEF CallOK, Listing
<1>3. u \in Rows /\ u \in Ids /\ row[u].cursor \in Nat
  BY <1>1, <1>2, FirstOfListing, RowTypes
<1>4. p \in {"l_sign", "l_next"} /\ (p = "l_sign" => u \in call[c].ready)
  OBVIOUS
<1> HIDE DEF u, p
<1>5. /\ k \in Call /\ k.pc = p /\ k.id = u /\ k.left = call[c].left \ {u} /\ k.ready = call[c].ready
      /\ k.links = call[c].links /\ k.device = call[c].device
  BY <1>3, <1>4 DEF Call, PCs
<1> HIDE DEF k
<1> QED
  BY <1>1, <1>2, <1>3, <1>4, <1>5, FeedStep

LEMMA FeedSignStatus ==
  ASSUME StatusInv, NEW c \in Calls, FeedSign(c)
  PROVE  StatusInv'
<1> USE StatusTypes
<1> DEFINE u == call[c].id
           With(L) == [call[c] EXCEPT !.pc = "l_next", !.links = L]
<1>1. /\ UNCHANGED <<row, lastCursor, object, cleaner, feed, clock, stores, age, live, revoked, signed>>
      /\ call[c].pc = "l_sign"
  BY DEF FeedSign, world
<1>2. /\ call[c].left \subseteq Rows /\ call[c].device \in Devices /\ u \in call[c].ready
      /\ \A v \in call[c].ready \cup call[c].links :
            v \in Rows /\ row[v].status \in Served /\ row[v].device # call[c].device
  BY <1>1 DEF CallOK, Listing
<1>3. PICK L \in {call[c].links, call[c].links \cup {u}} : call' = [call EXCEPT ![c] = With(L)]
  <2>1. CASE Goto(c, "l_next")
    <3>1. [call[c] EXCEPT !.pc = "l_next"] = With(call[c].links)
      BY DEF Call
    <3> QED
      BY <2>1, <3>1 DEF Goto
  <2>2. CASE call' = [call EXCEPT ![c].pc = "l_next", ![c].links = @ \cup {call[c].id}]
    BY <2>2
  <2> QED
    BY <2>1, <2>2 DEF FeedSign
<1> DEFINE k == With(L)
<1>4. L \subseteq Ids /\ \A v \in L : v \in call[c].ready \cup call[c].links
  BY <1>2 DEF Rows
<1>5. /\ k \in Call /\ k.pc = "l_next" /\ k.left = call[c].left /\ k.ready = call[c].ready
      /\ k.links = L /\ k.device = call[c].device
  BY <1>4 DEF Call, PCs
<1>6. call' = [call EXCEPT ![c] = k]
  BY <1>3
<1> HIDE DEF k
<1> QED
  BY <1>1, <1>2, <1>4, <1>5, <1>6, FeedStep

LEMMA FeedAnswerStatus ==
  ASSUME StatusInv, NEW c \in Calls, FeedAnswer(c)
  PROVE  StatusInv'
<1> USE StatusTypes
<1> DEFINE d == call[c].device
           k == Idle("none")
           f == [cursor |-> call[c].cursor, links |-> feed[d].links \cup call[c].links]
<1>1. /\ UNCHANGED <<row, lastCursor, object, cleaner, clock, stores, age, live, revoked, signed>>
      /\ call[c].pc = "l_next" /\ feed' = [feed EXCEPT ![d] = f] /\ call' = [call EXCEPT ![c] = k]
  BY DEF FeedAnswer, world, End
<1>2. /\ d \in Devices
      /\ \A v \in call[c].links : v \in Rows /\ row[v].status \in Served /\ row[v].device # d
  BY <1>1 DEF CallOK, Listing
<1>3. RowsEvolve /\ NoneAdded /\ Rows' = Rows
  BY <1>1, SameRows
<1>4. f \in [cursor : Nat, links : SUBSET Ids] /\ f.links = feed[d].links \cup call[c].links
  BY <1>2 DEF TypeOK, Call
<1> HIDE DEF f
<1>5. LinksFrom
  BY <1>1, <1>2, <1>4 DEF TypeOK, LinksFrom
<1>6. k \in Call /\ k.pc = "idle" /\ k.id = NoId
  BY DEF Call, Idle, PCs, Answers
<1> HIDE DEF k
<1>7. CallOK(row', k) /\ AddedBy(c)
  BY <1>3, <1>6 DEF CallOK, Pre, Post, Listing, AddedBy, NoneAdded
<1> QED
  BY <1>1, <1>3, <1>5, <1>6, <1>7, CallStep DEF Pre

LEMMA DeleteGetStatus ==
  ASSUME StatusInv, NEW c \in Calls, NEW u \in Ids, DeleteGet(c, u)
  PROVE  StatusInv'
<1> USE StatusTypes
<1>1. UNCHANGED <<row, lastCursor, object, cleaner, feed, clock, stores, age, live, revoked, signed>>
  BY DEF DeleteGet, world
<1>2. RowsEvolve /\ NoneAdded /\ Rows' = Rows
  BY <1>1, SameRows
<1>3. CASE End(c)
  BY <1>1, <1>3, EndKeeps
<1>4. CASE Status(u) = "DELETED" /\ AnswerAt(c, u, "deleted")
  <2>1. u \in Rows /\ row'[u].status = "DELETED"
    BY <1>1, <1>4, RowTypes
  <2> QED
    BY <1>1, <1>2, <1>4, <2>1, UpdateAndEnd DEF Answers
<1>5. CASE /\ Status(u) \in Statuses \ {"DELETED"}
           /\ call' = [call EXCEPT ![c] = [Idle("none") EXCEPT !.pc = "x_cancel", !.id = u]]
  <2> DEFINE k == [Idle("none") EXCEPT !.pc = "x_cancel", !.id = u]
  <2>1. u \in Rows
    BY <1>5, RowTypes DEF Statuses
  <2>2. k \in Call /\ k.pc = "x_cancel" /\ k.id = u
    BY DEF Call, Idle, PCs, Answers
  <2> HIDE DEF k
  <2>3. CallOK(row, k)
    BY <2>1, <2>2 DEF CallOK, Pre, Post, Listing
  <2> QED
    BY <1>1, <1>5, <2>2, <2>3, QuietCallStep DEF Pre, k
<1> QED
  BY <1>3, <1>4, <1>5 DEF DeleteGet

LEMMA DeleteCancelStatus ==
  ASSUME StatusInv, NEW c \in Calls, DeleteCancel(c)
  PROVE  StatusInv' /\ RowsEvolve
<1> USE StatusTypes
<1> DEFINE u == call[c].id
<1>1. /\ UNCHANGED <<lastCursor, object, cleaner, feed, clock, stores, age, live, revoked, signed>>
      /\ u \in Rows /\ u \in Ids /\ call[c].pc = "x_cancel" /\ MarkFileUploadCancelled(u)
      /\ Status(u) = row[u].status /\ row[u].status \in Statuses
  BY RowTypes DEF DeleteCancel, world, CallOK, Post
<1>2. /\ RowsEvolve /\ NoneAdded /\ Rows' = Rows
      /\ row'[u].status = IF row[u].status \in Statuses \ {"DELETED"} THEN "CANCELLED" ELSE row[u].status
  <2>1. Update(u, Statuses \ {"DELETED"}, "CANCELLED")
    BY <1>1 DEF MarkFileUploadCancelled
  <2>2. Status(u) \in Statuses \ {"DELETED"} => StatusMoves(Status(u), "CANCELLED")
    BY DEF StatusMoves
  <2>3. Statuses \ {"DELETED"} \in SUBSET Statuses /\ "CANCELLED" \in Statuses
    BY DEF Statuses
  <2> QED
    BY <1>1, <2>1, <2>2, <2>3, UpdateEvolves
<1>3. CASE row[u].status = "DELETED"
  <2>1. AnswerAt(c, u, "ErrNotFound") /\ row'[u].status = "DELETED"
    BY <1>1, <1>2, <1>3 DEF DeleteCancel, Answer
  <2> QED
    BY <1>1, <1>2, <2>1, UpdateAndEnd DEF Answers
<1>4. CASE row[u].status # "DELETED"
  <2>1. Goto(c, "x_object") /\ row'[u].status = "CANCELLED"
    BY <1>1, <1>2, <1>4 DEF DeleteCancel
  <2> QED
    BY <1>1, <1>2, <2>1, UpdateAndGoto DEF Post
<1> QED
  BY <1>2, <1>3, <1>4

\* An object that is deleted, or perhaps not, leaves the object store well typed.
LEMMA ObjectRemovedTypes ==
  ASSUME TypeOK, NEW u, object' = [object EXCEPT ![u] = Absent] \/ DeleteObjectFails(u)
  PROVE  object' \in [Ids -> Metadata \cup {Absent, Unreadable}]
BY DEF TypeOK, DeleteObjectFails

LEMMA DeleteObjectStatus ==
  ASSUME StatusInv, NEW c \in Calls, DeleteObject(c)
  PROVE  StatusInv'
<1> USE StatusTypes
<1>1. /\ UNCHANGED <<row, lastCursor, cleaner, feed, clock, stores, age, live, revoked, signed>>
      /\ call[c].pc = "x_object" /\ row[call[c].id].status \in {"CANCELLED", "DELETED"}
      /\ (object' = [object EXCEPT ![call[c].id] = Absent] \/ DeleteObjectFails(call[c].id))
  BY DEF DeleteObject, world, CallOK
<1>2. RowsEvolve /\ NoneAdded /\ Rows' = Rows
  BY <1>1, SameRows
<1>3. object' \in [Ids -> Metadata \cup {Absent, Unreadable}]
  BY <1>1, ObjectRemovedTypes
<1>4. CASE End(c)
  BY <1>1, <1>3, <1>4, EndKeeps
<1>5. CASE Goto(c, "x_mark")
  BY <1>1, <1>2, <1>3, <1>5, UpdateAndGoto DEF Post
<1> QED
  BY <1>4, <1>5 DEF DeleteObject

LEMMA DeleteMarkStatus ==
  ASSUME StatusInv, NEW c \in Calls, DeleteMark(c)
  PROVE  StatusInv' /\ RowsEvolve
<1> USE StatusTypes
<1> DEFINE u == call[c].id
<1>1. /\ UNCHANGED <<lastCursor, object, cleaner, feed, clock, stores, age, live, revoked, signed>>
      /\ u \in Rows /\ u \in Ids /\ call[c].pc = "x_mark" /\ MarkFileUploadDeleted(u)
      /\ Status(u) = row[u].status /\ row[u].status \in {"CANCELLED", "DELETED"}
  BY RowTypes DEF DeleteMark, world, CallOK, Post
<1>2. RowsEvolve /\ NoneAdded /\ Rows' = Rows /\ row'[u].status = "DELETED"
  <2>1. Update(u, Statuses \ {"DELETED"}, "DELETED")
    BY <1>1 DEF MarkFileUploadDeleted
  <2>2. Status(u) \in Statuses \ {"DELETED"} => StatusMoves(Status(u), "DELETED")
    BY <1>1 DEF StatusMoves
  <2>3. Statuses \ {"DELETED"} \in SUBSET Statuses /\ "DELETED" \in Statuses
    BY DEF Statuses
  <2>4. /\ RowsEvolve /\ NoneAdded /\ Rows' = Rows
        /\ row'[u].status = IF row[u].status \in Statuses \ {"DELETED"} THEN "DELETED" ELSE row[u].status
    BY <1>1, <2>1, <2>2, <2>3, UpdateEvolves
  <2> QED
    BY <1>1, <2>4 DEF Statuses
<1>3. CASE AnswerAt(c, u, "deleted")
  BY <1>1, <1>2, <1>3, UpdateAndEnd DEF Answers
<1>4. CASE Goto(c, "x_reread")
  BY <1>1, <1>2, <1>4, UpdateAndGoto DEF Post
<1> QED
  BY <1>2, <1>3, <1>4 DEF DeleteMark, Answer

LEMMA DeleteRereadStatus ==
  ASSUME StatusInv, NEW c \in Calls, DeleteReread(c)
  PROVE  StatusInv'
<1> USE StatusTypes
<1> DEFINE u == call[c].id
<1>1. /\ UNCHANGED <<row, lastCursor, object, cleaner, feed, clock, stores, age, live, revoked, signed>>
      /\ u \in Rows /\ row[u].status = "DELETED" /\ AnswerAt(c, u, "deleted")
  BY RowTypes DEF DeleteReread, world, CallOK, Post, Answer
<1>2. RowsEvolve /\ NoneAdded /\ Rows' = Rows
  BY <1>1, SameRows
<1> QED
  BY <1>1, <1>2, UpdateAndEnd DEF Answers

LEMMA AbortStatus ==
  ASSUME StatusInv, NEW c \in Calls, Abort(c)
  PROVE  StatusInv'
BY StatusTypes, EndKeeps DEF Abort, world

-----------------------------------------------------------------------------
(* The cleaner.                                                            *)

\* The upload a cleaner works on is a row of its page.
LEMMA CleanerFirst ==
  ASSUME StatusInv, NEW w \in Cleaners, cleaner[w].pc # "idle"
  PROVE  /\ FirstDue(cleaner[w].left) \in cleaner[w].left /\ FirstDue(cleaner[w].left) \in Rows
         /\ FirstDue(cleaner[w].left) \in Ids /\ cleaner[w].left \subseteq Rows
<1>1. TypeOK /\ cleaner[w].left \subseteq Rows /\ cleaner[w].left # {}
  BY DEF StatusInv, CleanerOK, Rows, RowsOf
<1>2. FirstDue(cleaner[w].left) \in cleaner[w].left
  BY <1>1, FirstOfPage
<1> QED
  BY <1>1, <1>2 DEF Rows

\* A cleaner that stays on its upload.
LEMMA CleanerTo ==
  ASSUME StatusInv, NEW w \in Cleaners, cleaner[w].pc # "idle", NEW p \in CleanerPCs,
         cleaner' = [cleaner EXCEPT ![w].pc = p], row' = row,
         object' \in [Ids -> Metadata \cup {Absent, Unreadable}],
         UNCHANGED <<lastCursor, clock, stores, age, live, revoked, signed, call, feed>>
  PROVE  StatusInv'
<1> DEFINE k == [cleaner[w] EXCEPT !.pc = p]
<1>1. cleaner[w] \in [pc : CleanerPCs, left : SUBSET Ids] /\ CleanerOK(row, cleaner[w]) /\ TypeOK
  BY DEF StatusInv, TypeOK
<1>2. k \in [pc : CleanerPCs, left : SUBSET Ids] /\ k.left = cleaner[w].left
  BY <1>1
<1>3. cleaner' = [cleaner EXCEPT ![w] = k]
  OBVIOUS
<1> HIDE DEF k
<1>4. CleanerOK(row, k)
  BY <1>1, <1>2 DEF CleanerOK
<1>5. RowsEvolve /\ NoneAdded
  BY <1>1, SameRows
<1> QED
  BY <1>2, <1>3, <1>4, <1>5, CleanerStep

\* A cleaner that goes on to the next upload, and perhaps wrote the row or object.
LEMMA CleanerNext ==
  ASSUME StatusInv, NEW w \in Cleaners, cleaner[w].pc # "idle", NextUpload(w),
         RowsEvolve, NoneAdded, object' \in [Ids -> Metadata \cup {Absent, Unreadable}],
         UNCHANGED <<lastCursor, clock, stores, age, live, revoked, signed, call, feed>>
  PROVE  StatusInv'
<1> DEFINE rest == cleaner[w].left \ {FirstDue(cleaner[w].left)}
           k == [pc |-> IF rest = {} THEN "idle" ELSE "info", left |-> rest]
<1>1. cleaner[w].left \subseteq Ids /\ CleanerOK(row, cleaner[w])
  BY DEF StatusInv, TypeOK
<1>2. cleaner' = [cleaner EXCEPT ![w] = k]
  BY DEF NextUpload
<1>3. k \in [pc : CleanerPCs, left : SUBSET Ids]
  BY <1>1 DEF CleanerPCs
<1>4. CleanerOK(row, k)
  BY <1>1 DEF CleanerOK
<1> HIDE DEF k
<1> QED
  BY <1>2, <1>3, <1>4, CleanerStep

\* A pass that begins, or is cut short.
LEMMA CleanerPassStatus ==
  ASSUME StatusInv, NEW w \in Cleaners, CleanerList(w) \/ CleanerCrash(w)
  PROVE  StatusInv'
<1> USE StatusTypes
<1>0. UNCHANGED <<row, lastCursor, object, call, feed, clock, stores, age, live, revoked, signed>>
  BY DEF CleanerList, CleanerCrash, world
<1>1. RowsEvolve /\ NoneAdded
  BY <1>0, SameRows
<1>2. ListExpiredFileUploads \subseteq Rows
  BY DEF ListExpiredFileUploads
<1>3. PICK k \in [pc : CleanerPCs, left : SUBSET Ids] :
        cleaner' = [cleaner EXCEPT ![w] = k] /\ CleanerOK(row, k)
  <2>1. CASE CleanerList(w)
    <3> DEFINE k == [pc |-> "info", left |-> ListExpiredFileUploads]
    <3>1. cleaner' = [cleaner EXCEPT ![w] = k] /\ ListExpiredFileUploads # {}
      BY <2>1 DEF CleanerList
    <3>2. k \in [pc : CleanerPCs, left : SUBSET Ids]
      BY <1>2 DEF CleanerPCs, Rows
    <3>3. CleanerOK(row, k)
      BY <1>2, <3>1 DEF CleanerOK
    <3> QED
      BY <3>1, <3>2, <3>3
  <2>2. CASE CleanerCrash(w)
    <3> DEFINE k == [pc |-> "idle", left |-> {}]
    <3>1. cleaner' = [cleaner EXCEPT ![w] = k]
      BY <2>2 DEF CleanerCrash
    <3>2. k \in [pc : CleanerPCs, left : SUBSET Ids] /\ CleanerOK(row, k)
      BY DEF CleanerPCs, CleanerOK
    <3> QED
      BY <3>1, <3>2
  <2> QED
    BY <2>1, <2>2
<1> QED
  BY <1>0, <1>1, <1>3, CleanerStep

\* The steps of a pass that write no row.
LEMMA CleanerReadStatus ==
  ASSUME StatusInv, NEW w \in Cleaners,
         CleanerInfo(w) \/ CleanerFails(w) \/ CleanerDelete(w) \/ CleanerDeleteFails(w)
  PROVE  StatusInv'
<1> USE StatusTypes
<1>1. /\ UNCHANGED <<row, lastCursor, call, feed, clock, stores, age, live, revoked, signed>>
      /\ cleaner[w].pc # "idle"
  BY DEF CleanerInfo, CleanerFails, CleanerDelete, CleanerDeleteFails, world
<1>2. RowsEvolve /\ NoneAdded
  BY <1>1, SameRows
<1>3. object' \in [Ids -> Metadata \cup {Absent, Unreadable}]
  BY ObjectRemovedTypes DEF CleanerInfo, CleanerFails, CleanerDelete, CleanerDeleteFails
<1>4. CASE NextUpload(w)
  BY <1>1, <1>2, <1>3, <1>4, CleanerNext
<1>5. CASE \E p \in CleanerPCs : cleaner' = [cleaner EXCEPT ![w].pc = p]
  BY <1>1, <1>3, <1>5, CleanerTo
<1> QED
  BY <1>4, <1>5 DEF CleanerInfo, CleanerFails, CleanerDelete, CleanerDeleteFails, CleanerPCs

LEMMA ExpireEvolves ==
  ASSUME StatusInv, NEW u \in Rows, MarkFileUploadExpired(u)
  PROVE  /\ RowsEvolve /\ NoneAdded /\ Rows' = Rows
         /\ \A v \in Rows : row'[v].status = "COMPLETED" => row[v].status = "COMPLETED"
<1> USE StatusTypes
<1>1. Update(u, {"PENDING"}, "EXPIRED") /\ u \in Ids
  BY DEF MarkFileUploadExpired, Rows
<1>2. Status(u) \in {"PENDING"} => StatusMoves(Status(u), "EXPIRED")
  BY DEF StatusMoves
<1>3. {"PENDING"} \in SUBSET Statuses /\ "EXPIRED" \in Statuses
  BY DEF Statuses
<1>4. /\ RowsEvolve /\ NoneAdded /\ Rows' = Rows
      /\ \A v \in Ids : v # u => row'[v] = row[v]
      /\ u \in Rows => row'[u].status = IF row[u].status \in {"PENDING"} THEN "EXPIRED" ELSE row[u].status
  BY <1>1, <1>2, <1>3, UpdateEvolves
<1> QED
  BY <1>4 DEF Rows

LEMMA CleanerWriteStatus ==
  ASSUME StatusInv, NEW w \in Cleaners, CleanerComplete(w) \/ CleanerExpire(w)
  PROVE  StatusInv' /\ RowsEvolve
<1> USE StatusTypes
<1>1. /\ UNCHANGED <<lastCursor, object, call, feed, clock, stores, age, live, revoked, signed>>
      /\ cleaner[w].pc # "idle" /\ NextUpload(w)
  BY DEF CleanerComplete, CleanerExpire, world
<1>2. FirstDue(cleaner[w].left) \in Rows
  BY <1>1, CleanerFirst
<1>3. RowsEvolve /\ NoneAdded
  BY <1>2, CompleteEvolves, ExpireEvolves DEF CleanerComplete, CleanerExpire
<1> QED
  BY <1>1, <1>3, CleanerNext

-----------------------------------------------------------------------------
LEMMA EnvironmentStatus ==
  ASSUME StatusInv, Environment
  PROVE  StatusInv'
<1> USE StatusTypes
<1>1. CASE \E u \in Ids, o \in Storable : BrowserUpload(u, o)
  <2>1. PICK u \in Ids, o \in Storable : BrowserUpload(u, o)
    BY <1>1
  <2>2. object' \in [Ids -> Metadata \cup {Absent, Unreadable}]
    BY <2>1, SentinelsAssumption DEF BrowserUpload, TypeOK
  <2>3. stores' \in [Ids -> 0..2]
    BY <2>1 DEF BrowserUpload, TypeOK
  <2> QED
    BY <2>1, <2>2, <2>3, WorldStep DEF BrowserUpload, TypeOK
<1>2. CASE \E u \in Ids : Tick(u)
  <2>1. age' \in [Ids -> Ages]
    BY <1>2 DEF Tick, TypeOK, Ages
  <2> QED
    BY <1>2, <2>1, WorldStep DEF Tick, TypeOK
<1>3. CASE \E b \in Blocks : RemoveTarget(b)
  BY <1>3, WorldStep DEF RemoveTarget, TypeOK
<1>4. CASE \E d \in Devices : RevokeDevice(d)
  BY <1>4, WorldStep DEF RevokeDevice, TypeOK
<1> QED
  BY <1>1, <1>2, <1>3, <1>4 DEF Environment

LEMMA StatusInit ==
  ASSUME Init
  PROVE  StatusInv
<1>1. Idle("none") \in Call /\ Idle("none").pc = "idle" /\ Idle("none").id = NoId
  BY DEF Call, Idle, PCs, Answers
<1>2. TypeOK
  BY <1>1 DEF Init, TypeOK, Ages, CleanerPCs
<1>3. \A c \in Calls : CallOK(row, call[c])
  BY <1>1 DEF Init, CallOK, Pre, Post, Listing
<1>4. DistinctIds /\ LinksOnlyVerified /\ signed \subseteq Rows
  BY <1>1 DEF Init, DistinctIds, LinksOnlyVerified, Pre
<1>5. \A w \in Cleaners : CleanerOK(row, cleaner[w])
  BY DEF Init, CleanerOK
<1> QED
  BY <1>2, <1>3, <1>4, <1>5 DEF StatusInv

\* A step that adds a row is an InitiateCommit, and the row is PENDING.
Created == \A u \in Ids \ Rows : row'[u] # NoRow =>
             row'[u].status = "PENDING" /\ \E c \in Calls : InitiateCommit(c)

LEMMA StatusNext ==
  ASSUME StatusInv, Next
  PROVE  StatusInv' /\ RowsEvolve /\ Created
<1> USE StatusTypes
<1>1. CASE row' = row
  <2>1. RowsEvolve /\ Created
    BY <1>1, SameRows DEF NoneAdded, Created
  <2>2. CASE \E c \in Calls : Initiate(c)
    BY <2>2, InitiateStartStatus, InitiateCheckStatus, InitiateCountStatus, InitiateInsertStatus, InitiateCommitStatus,
       InitiateSignStatus, InitiateFailStatus, <2>1 DEF Initiate
  <2>3. CASE \E c \in Calls : Complete(c)
    BY <2>3, CompleteGetStatus, CompleteStatus, CompleteRejectStatus, CompleteUpdateStatus, <2>1
    DEF Complete
  <2>4. CASE \E c \in Calls : Download(c)
    BY <2>4, DownloadStatus, <2>1 DEF Download
  <2>5. CASE \E c \in Calls : Feed(c)
    BY <2>5, FeedDeviceStatus, FeedListStatus, FeedNextStatus, FeedSignStatus, FeedAnswerStatus, <2>1
    DEF Feed
  <2>6. CASE \E c \in Calls : Delete(c)
    BY <2>6, DeleteGetStatus, DeleteCancelStatus, DeleteObjectStatus, DeleteMarkStatus,
       DeleteRereadStatus, <2>1 DEF Delete
  <2>7. CASE \E c \in Calls : Abort(c)
    BY <2>7, AbortStatus, <2>1
  <2>8. CASE \E w \in Cleaners : RunOnce(w) \/ CleanerCrash(w)
    BY <2>8, CleanerPassStatus, CleanerReadStatus, CleanerWriteStatus, <2>1 DEF RunOnce
  <2>9. CASE Environment
    BY <2>9, EnvironmentStatus, <2>1
  <2> QED
    BY <2>2, <2>3, <2>4, <2>5, <2>6, <2>7, <2>8, <2>9 DEF Next
<1>2. CASE row' # row
  <2>1. CASE \E c \in Calls : InitiateCommit(c)
    <3>1. PICK c \in Calls : InitiateCommit(c)
      BY <2>1
    <3>2. StatusInv' /\ RowsEvolve
      BY <3>1, InitiateCommitStatus
    <3>3. Created
      BY <3>1 DEF InitiateCommit, Created, TypeOK, Rows
    <3> QED
      BY <3>2, <3>3
  <2>2. CASE \E c \in Calls : InitiateFail(c) \/ CompleteReject(c)
    <3>1. PICK c \in Calls : InitiateFail(c) \/ CompleteReject(c)
      BY <2>2
    <3>2. NoneAdded
      BY <3>1, MarkFailedEvolves DEF InitiateFail, CompleteReject, CallOK, Post
    <3> QED
      BY <3>1, <3>2, InitiateFailStatus, CompleteRejectStatus DEF NoneAdded, Created
  <2>3. CASE \E c \in Calls : CompleteUpdate(c)
    <3>1. PICK c \in Calls : CompleteUpdate(c)
      BY <2>3
    <3>2. NoneAdded
      BY <3>1, CompleteEvolves DEF CompleteUpdate, CallOK, Post
    <3> QED
      BY <3>1, <3>2, CompleteUpdateStatus DEF NoneAdded, Created
  <2>4. CASE \E c \in Calls : DeleteCancel(c) \/ DeleteMark(c)
    <3>1. PICK c \in Calls : DeleteCancel(c) \/ DeleteMark(c)
      BY <2>4
    <3>2. call[c].id \in Rows
      BY <3>1 DEF DeleteCancel, DeleteMark, CallOK, Post
    <3>3. \A u \in Ids \ Rows : row'[u] = row[u]
      BY <3>1, <3>2 DEF DeleteCancel, DeleteMark, MarkFileUploadCancelled, MarkFileUploadDeleted,
                        Update, TypeOK
    <3> QED
      BY <3>1, <3>3, DeleteCancelStatus, DeleteMarkStatus DEF Created, Rows
  <2>5. CASE \E w \in Cleaners : CleanerComplete(w) \/ CleanerExpire(w)
    <3>1. PICK w \in Cleaners : CleanerComplete(w) \/ CleanerExpire(w)
      BY <2>5
    <3>2. NoneAdded
      BY <3>1, CleanerFirst, CompleteEvolves, ExpireEvolves DEF CleanerComplete, CleanerExpire
    <3> QED
      BY <3>1, <3>2, CleanerWriteStatus DEF NoneAdded, Created
  <2>6. ~Environment
    BY <1>2 DEF Environment, BrowserUpload, Tick, RemoveTarget, RevokeDevice
  <2>7. \A w \in Cleaners : RunOnce(w) \/ CleanerCrash(w) => CleanerComplete(w) \/ CleanerExpire(w)
    BY <1>2 DEF RunOnce, CleanerList, CleanerInfo, CleanerFails, CleanerDelete,
                CleanerDeleteFails, CleanerCrash
  <2>8. \A c \in Calls : /\ Initiate(c) => InitiateCommit(c) \/ InitiateFail(c)
                         /\ Complete(c) => CompleteReject(c) \/ CompleteUpdate(c)
                         /\ ~Download(c) /\ ~Feed(c) /\ ~Abort(c)
                         /\ Delete(c) => DeleteCancel(c) \/ DeleteMark(c)
    <3> TAKE c \in Calls
    <3>1. Initiate(c) => InitiateCommit(c) \/ InitiateFail(c)
      BY <1>2 DEF Initiate, InitiateStart, InitiateDevice, InitiateTarget, InitiateCount,
                  InitiateInsert, InitiateSign
    <3>2. Complete(c) => CompleteReject(c) \/ CompleteUpdate(c)
      BY <1>2 DEF Complete, CompleteGet, CompleteTarget, CompleteInfo, CompleteReread
    <3>3. ~Download(c) /\ ~Abort(c)
      BY <1>2 DEF Download, DownloadGet, DownloadTarget, DownloadSign, Abort
    <3>4. ~Feed(c)
      BY <1>2 DEF Feed, FeedDevice, FeedList, FeedNext, FeedSign, FeedAnswer
    <3>5. Delete(c) => DeleteCancel(c) \/ DeleteMark(c)
      BY <1>2 DEF Delete, DeleteGet, DeleteObject, DeleteReread
    <3> QED
      BY <3>1, <3>2, <3>3, <3>4, <3>5
  <2> QED
    BY <2>1, <2>2, <2>3, <2>4, <2>5, <2>6, <2>7, <2>8 DEF Next
<1> QED
  BY <1>1, <1>2

LEMMA StatusStutter ==
  ASSUME StatusInv, UNCHANGED vars
  PROVE  StatusInv' /\ RowsEvolve /\ Created
<1>1. TypeOK /\ RowsEvolve /\ NoneAdded
  BY SameRows DEF StatusInv, vars
<1>2. StatusInv'
  BY WorldStep DEF StatusInv, TypeOK, vars
<1> QED
  BY <1>1, <1>2 DEF NoneAdded, Created

LEMMA StatusInvariance == Spec => []StatusInv
BY StatusInit, StatusNext, StatusStutter, PTL DEF Spec

\* The table, the calls and the cleaners keep their types.
THEOREM UploadsTypeCorrect == Spec => []TypeOK
BY StatusInvariance, PTL DEF StatusInv

\* A device is only ever given links to uploads that another device made and that
\* passed verification.
THEOREM UploadsLinksOnlyVerified == Spec => []LinksOnlyVerified
BY StatusInvariance, PTL DEF StatusInv

\* The status of an upload never moves backwards, whoever writes the row.
THEOREM UploadsLifecycle == Spec => Lifecycle
<1> DEFINE Step == \A u \in Ids : Status(u)' # Status(u) =>
       \/ Status(u) = "NONE" /\ Status(u)' = "PENDING"
       \/ Status(u) = "PENDING"
       \/ Status(u)' = "CANCELLED" /\ Status(u) # "DELETED"
       \/ Status(u)' = "DELETED" /\ Status(u) = "CANCELLED"
<1>1. StatusInv /\ [Next]_vars => [Step]_vars
  <2> SUFFICES ASSUME StatusInv, Next PROVE Step
    OBVIOUS
  <2>1. RowsEvolve /\ Created
    BY StatusNext
  <2> TAKE u \in Ids
  <2>2. CASE u \in Rows
    BY <2>1, <2>2 DEF RowsEvolve, StatusMoves, Status, Rows
  <2>3. CASE u \notin Rows
    BY <2>1, <2>3 DEF Created, Status, Rows
  <2> QED
    BY <2>2, <2>3
<1> QED
  BY <1>1, StatusInvariance, PTL DEF Spec, Lifecycle

-----------------------------------------------------------------------------
(* Objects.  What follows is about paths at which the browser stored at    *)
(* most one object: stores[u] < 2.                                         *)

\* The first upload of a page over table R.
FirstIn(R, S) == CHOOSE u \in S : \A v \in S : R[u].expires <= R[v].expires

\* Upload u is not COMPLETED and never will be: its row has left PENDING, or what
\* was stored does not match, whether it is still there or was removed.
Doomed(R, O, N, u) ==
  N[u] < 2 => /\ R[u].status # "COMPLETED"
              /\ R[u].status = "PENDING" => O[u] # R[u].meta /\ N[u] = 1

\* Upload u may be completed, should its row still be PENDING.
Matching(R, O, N, u) == N[u] < 2 /\ R[u].status = "PENDING" => O[u] = R[u].meta

ObjectCallOK(R, O, N, k) ==
  /\ k.pc = "c_update" => Matching(R, O, N, k.id)
  /\ k.pc = "c_reject" => Doomed(R, O, N, k.id)
  /\ k.pc = "idle" /\ k.id # NoId /\ k.answer = "unprocessable" => Doomed(R, O, N, k.id)

ObjectCleanerOK(R, O, N, k) ==
  /\ k.pc = "complete" => Matching(R, O, N, FirstIn(R, k.left))
  /\ k.pc = "delete" => Doomed(R, O, N, FirstIn(R, k.left))

ObjectInv ==
  /\ CompletedHasObject
  /\ \A u \in Ids : object[u] # Absent => stores[u] # 0
  /\ \A c \in Calls : ObjectCallOK(row, object, stores, call[c])
  /\ \A w \in Cleaners : ObjectCleanerOK(row, object, stores, cleaner[w])

\* What a step may do to the objects, where no second one is stored: remove one of
\* an upload that is being deleted, or one that the cleaner found not to match;
\* store the first one; complete a row whose object matches.
ObjectEvolve ==
  /\ stores' \in [Ids -> 0..2] /\ \A u \in Ids : stores[u] <= stores'[u]
  /\ \A u \in Ids : object'[u] # Absent => stores'[u] # 0
  /\ \A u \in Ids : stores'[u] < 2 =>
       \/ object'[u] = object[u]
       \/ /\ object'[u] = Absent /\ u \in Rows
          /\ row[u].status \in {"CANCELLED", "DELETED"} \/ Doomed(row, object, stores, u)
       \/ object[u] = Absent /\ stores[u] = 0
  /\ \A u \in Rows :
       stores'[u] < 2 /\ row[u].status = "PENDING" /\ row'[u].status = "COMPLETED" =>
         object[u] = row[u].meta /\ object'[u] = object[u]

\* A step in which no object is stored.
LEMMA NothingStored ==
  ASSUME StatusInv, ObjectInv, UNCHANGED stores,
         \A u \in Ids : \/ object'[u] = object[u]
                        \/ /\ object'[u] = Absent /\ u \in Rows
                           /\ \/ row[u].status \in {"CANCELLED", "DELETED"}
                              \/ Doomed(row, object, stores, u),
         \A u \in Rows : stores[u] < 2 /\ row[u].status = "PENDING" /\ row'[u].status = "COMPLETED" =>
           object[u] = row[u].meta /\ object'[u] = object[u]
  PROVE  ObjectEvolve
BY DEF ObjectEvolve, ObjectInv, StatusInv, TypeOK

LEMMA DoomedStays ==
  ASSUME TypeOK, RowsEvolve, ObjectEvolve, NEW u \in Rows, Doomed(row, object, stores, u)
  PROVE  Doomed(row', object', stores', u)
<1> SUFFICES ASSUME stores'[u] < 2
             PROVE  /\ row'[u].status # "COMPLETED"
                    /\ row'[u].status = "PENDING" => object'[u] # row'[u].meta /\ stores'[u] = 1
  BY DEF Doomed
<1>1. /\ u \in Ids /\ row'[u].meta = row[u].meta /\ row[u].meta # Absent
      /\ StatusMoves(row[u].status, row'[u].status)
  BY RowTypes, SentinelsAssumption DEF RowsEvolve
<1>2. /\ stores[u] \in 0..2 /\ stores'[u] \in 0..2 /\ stores[u] <= stores'[u] /\ stores[u] < 2
  BY <1>1 DEF ObjectEvolve, TypeOK
<1>3. CASE row[u].status # "PENDING"
  BY <1>1, <1>2, <1>3 DEF Doomed, StatusMoves
<1>4. CASE row[u].status = "PENDING"
  <2>1. object[u] # row[u].meta /\ stores[u] = 1
    BY <1>2, <1>4 DEF Doomed
  <2>2. row'[u].status # "COMPLETED"
    BY <1>4, <2>1 DEF ObjectEvolve
  <2>3. object'[u] = object[u] \/ object'[u] = Absent
    BY <1>1, <2>1 DEF ObjectEvolve
  <2> QED
    BY <1>1, <1>2, <2>1, <2>2, <2>3
<1> QED
  BY <1>3, <1>4

LEMMA MatchingStays ==
  ASSUME TypeOK, RowsEvolve, ObjectEvolve, NEW u \in Rows, Matching(row, object, stores, u)
  PROVE  Matching(row', object', stores', u)
<1>1. /\ u \in Ids /\ row'[u].meta = row[u].meta /\ row[u].meta # Absent
      /\ StatusMoves(row[u].status, row'[u].status)
  BY RowTypes, SentinelsAssumption DEF RowsEvolve
<1> SUFFICES ASSUME stores'[u] < 2, row'[u].status = "PENDING" PROVE object'[u] = row'[u].meta
  BY DEF Matching
<1>2. stores[u] \in 0..2 /\ stores'[u] \in 0..2 /\ stores[u] <= stores'[u] /\ stores[u] < 2
  BY <1>1 DEF ObjectEvolve, TypeOK
<1>3. row[u].status = "PENDING" /\ object[u] = row[u].meta
  BY <1>1, <1>2 DEF StatusMoves, Matching
<1>4. object'[u] = object[u]
  BY <1>1, <1>2, <1>3 DEF ObjectEvolve, Doomed
<1> QED
  BY <1>1, <1>3, <1>4

LEMMA CompletedStays ==
  ASSUME TypeOK, RowsEvolve, Created, ObjectEvolve, CompletedHasObject
  PROVE  CompletedHasObject'
<1> SUFFICES ASSUME NEW u \in Ids, Status(u)' = "COMPLETED", stores'[u] < 2
             PROVE  object'[u] = row'[u].meta
  BY DEF CompletedHasObject, Verified
<1>1. row'[u] # NoRow /\ row'[u].status = "COMPLETED"
  BY DEF Status
<1>2. u \in Rows
  BY <1>1 DEF Created
<1>3. /\ row'[u].meta = row[u].meta /\ row[u].meta # Absent
      /\ StatusMoves(row[u].status, "COMPLETED") /\ Status(u) = row[u].status
  BY <1>1, <1>2, RowTypes, SentinelsAssumption DEF RowsEvolve
<1>4. stores[u] \in 0..2 /\ stores'[u] \in 0..2 /\ stores[u] <= stores'[u] /\ stores[u] < 2
  BY DEF ObjectEvolve, TypeOK
<1>5. CASE row[u].status = "COMPLETED"
  <2>1. object[u] = row[u].meta
    BY <1>3, <1>4, <1>5 DEF CompletedHasObject, Verified
  <2>2. object'[u] = object[u]
    BY <1>3, <1>4, <1>5, <2>1 DEF ObjectEvolve, Doomed
  <2> QED
    BY <1>3, <2>1, <2>2
<1>6. CASE row[u].status # "COMPLETED"
  <2>1. row[u].status = "PENDING"
    BY <1>3, <1>6 DEF StatusMoves
  <2> QED
    BY <1>1, <1>2, <1>3, <2>1 DEF ObjectEvolve
<1> QED
  BY <1>5, <1>6

\* What a call or a cleaner relies on stays true while others act.
LEMMA ObjectCallStays ==
  ASSUME StatusInv, RowsEvolve, ObjectEvolve, NEW k, CallOK(row, k), ObjectCallOK(row, object, stores, k)
  PROVE  ObjectCallOK(row', object', stores', k)
<1> USE StatusTypes
<1>1. k.pc \in {"c_update", "c_reject"} \/ (k.pc = "idle" /\ k.id # NoId) => k.id \in Rows
  BY DEF CallOK, Post
<1> QED
  BY <1>1, DoomedStays, MatchingStays DEF ObjectCallOK

LEMMA FirstInStays ==
  ASSUME RowsEvolve, NEW S, S \subseteq Rows
  PROVE  FirstIn(row', S) = FirstIn(row, S)
<1>1. \A u \in S : (\A v \in S : row'[u].expires <= row'[v].expires)
                     <=> (\A v \in S : row[u].expires <= row[v].expires)
  BY DEF RowsEvolve
<1> QED
  BY <1>1 DEF FirstIn

LEMMA ObjectCleanerStays ==
  ASSUME StatusInv, RowsEvolve, ObjectEvolve, NEW w \in Cleaners,
         ObjectCleanerOK(row, object, stores, cleaner[w])
  PROVE  ObjectCleanerOK(row', object', stores', cleaner[w])
<1> USE StatusTypes
<1> DEFINE k == cleaner[w]
<1>1. k.left \subseteq Rows /\ k.left \subseteq Ids
  BY DEF StatusInv, CleanerOK, TypeOK
<1>3. FirstIn(row', k.left) = FirstIn(row, k.left)
  BY <1>1, FirstInStays
<1>4. k.pc # "idle" => FirstIn(row, k.left) \in Rows
  BY CleanerFirst DEF FirstDue, FirstIn
<1> QED
  BY <1>3, <1>4, DoomedStays, MatchingStays DEF ObjectCleanerOK

LEMMA ObjectKeeps ==
  ASSUME StatusInv, ObjectInv, RowsEvolve, Created, ObjectEvolve,
         \A c \in Calls : call'[c] = call[c] \/ ObjectCallOK(row', object', stores', call'[c]),
         \A w \in Cleaners : \/ cleaner'[w] = cleaner[w]
                             \/ ObjectCleanerOK(row', object', stores', cleaner'[w])
  PROVE  ObjectInv'
<1> USE StatusTypes
<1>1. CompletedHasObject'
  BY CompletedStays DEF ObjectInv
<1>2. \A c \in Calls : ObjectCallOK(row', object', stores', call'[c])
  BY ObjectCallStays DEF ObjectInv
<1>3. \A w \in Cleaners : ObjectCleanerOK(row', object', stores', cleaner'[w])
  BY ObjectCleanerStays DEF ObjectInv
<1>4. \A u \in Ids : object'[u] # Absent => stores'[u] # 0
  BY DEF ObjectEvolve
<1> QED
  BY <1>1, <1>2, <1>3, <1>4 DEF ObjectInv

-----------------------------------------------------------------------------
\* A step of one call to a place where it relies on no object.
Harmless ==
  \A d \in Calls : call'[d] = call[d] \/ /\ call'[d].pc \notin {"c_update", "c_reject"}
                                         /\ call'[d].pc = "idle" => call'[d].answer # "unprocessable"

LEMMA HarmlessEnd ==
  ASSUME TypeOK, NEW c \in Calls, End(c)
  PROVE  Harmless
BY DEF TypeOK, End, Idle, Harmless

LEMMA HarmlessAnswer ==
  ASSUME TypeOK, NEW c \in Calls, NEW u, NEW a, a # "unprocessable", AnswerAt(c, u, a)
  PROVE  Harmless
BY DEF TypeOK, AnswerAt, Idle, Harmless

LEMMA HarmlessGoto ==
  ASSUME TypeOK, NEW c \in Calls, NEW p, p \notin {"c_update", "c_reject", "idle"}, Goto(c, p)
  PROVE  Harmless
BY DEF TypeOK, Call, Goto, Harmless

LEMMA HarmlessStep ==
  ASSUME TypeOK, NEW c \in Calls, NEW k, call' = [call EXCEPT ![c] = k],
         k.pc \notin {"c_update", "c_reject", "idle"}
  PROVE  Harmless
BY DEF TypeOK, Harmless

\* A step that completes no row and touches no object.
LEMMA QuietObjects ==
  ASSUME StatusInv, ObjectInv, RowsEvolve, Created, Harmless, UNCHANGED <<object, stores, cleaner>>,
         \A u \in Rows : row'[u].status = "COMPLETED" => row[u].status = "COMPLETED"
  PROVE  ObjectInv'
<1>1. ObjectEvolve
  BY NothingStored
<1>2. \A c \in Calls : call'[c] = call[c] \/ ObjectCallOK(row', object', stores', call'[c])
  BY DEF Harmless, ObjectCallOK
<1> QED
  BY <1>1, <1>2, ObjectKeeps

\* The steps that only read.
LEMMA ReadingObjects ==
  ASSUME StatusInv, ObjectInv, Harmless, UNCHANGED <<row, object, stores, cleaner>>
  PROVE  ObjectInv'
<1>1. RowsEvolve /\ NoneAdded
  BY SameRows DEF StatusInv
<1> QED
  BY <1>1, QuietObjects DEF NoneAdded, Created

LEMMA InitiateObjects ==
  ASSUME StatusInv, ObjectInv, RowsEvolve, Created, NEW c \in Calls, Initiate(c)
  PROVE  ObjectInv'
<1> USE StatusTypes
<1>1. CASE \E u \in Unused, r \in Request : InitiateStart(c, u, r)
  <2>1. PICK u \in Unused, r \in Request : InitiateStart(c, u, r)
    BY <1>1
  <2> DEFINE k == [Idle("none") EXCEPT !.pc = "i_device", !.id = u, !.block = r.block,
                                       !.device = r.device, !.meta = r.meta]
  <2>2. k.pc = "i_device"
    BY DEF Idle
  <2>3. End(c) \/ call' = [call EXCEPT ![c] = k]
    BY <2>1 DEF InitiateStart, End
  <2> HIDE DEF k
  <2>4. Harmless
    BY <2>2, <2>3, HarmlessEnd, HarmlessStep
  <2> QED
    BY <2>1, <2>4, ReadingObjects DEF InitiateStart, world
<1>2. CASE InitiateDevice(c) \/ InitiateTarget(c)
  <2>1. Harmless
    BY <1>2, HarmlessEnd, HarmlessGoto DEF InitiateDevice, InitiateTarget
  <2> QED
    BY <1>2, <2>1, ReadingObjects DEF InitiateDevice, InitiateTarget, world
<1>7. CASE InitiateCount(c)
  <2>1. CASE End(c)
    BY <1>7, <2>1, HarmlessEnd, ReadingObjects DEF InitiateCount
  <2>2. CASE SetExpiry(c)
    <3>1. Harmless
      BY <2>2 DEF SetExpiry, Harmless, TypeOK, Call
    <3> QED
      BY <1>7, <3>1, ReadingObjects DEF InitiateCount
  <2> QED
    BY <1>7, <2>1, <2>2 DEF InitiateCount
<1>3. CASE InitiateInsert(c)
  <2>1. Harmless
    BY <1>3 DEF InitiateInsert, Harmless, TypeOK, Call
  <2> QED
    BY <1>3, <2>1, ReadingObjects DEF InitiateInsert, world
<1>4. CASE InitiateCommit(c)
  <2>1. Harmless
    BY <1>4, HarmlessGoto DEF InitiateCommit
  <2>2. \A u \in Rows : row'[u] = row[u]
    BY <1>4 DEF InitiateCommit, CallOK, Pre, TypeOK, Rows
  <2> QED
    BY <1>4, <2>1, <2>2, QuietObjects DEF InitiateCommit, world
<1>5. CASE InitiateSign(c)
  <2>1. Harmless
    BY <1>5, HarmlessEnd, HarmlessGoto DEF InitiateSign
  <2> QED
    BY <1>5, <2>1, ReadingObjects DEF InitiateSign
<1>6. CASE InitiateFail(c)
  <2>1. Harmless
    BY <1>6, HarmlessEnd DEF InitiateFail
  <2>2. call[c].id \in Rows
    BY <1>6 DEF InitiateFail, CallOK, Post
  <2>3. \A u \in Rows : row'[u].status = "COMPLETED" => row[u].status = "COMPLETED"
    BY <1>6, <2>2, MarkFailedEvolves DEF InitiateFail
  <2> QED
    BY <1>6, <2>1, <2>3, QuietObjects DEF InitiateFail, world
<1> QED
  BY <1>1, <1>2, <1>3, <1>4, <1>5, <1>6, <1>7 DEF Initiate

LEMMA MismatchIsDoomed ==
  ASSUME TypeOK, ObjectInv, NEW u \in Rows, Mismatched(u)
  PROVE  Doomed(row, object, stores, u)
<1>1. u \in Ids /\ Status(u) = row[u].status /\ stores[u] \in 0..2
  BY RowTypes DEF TypeOK
<1>2. object[u] # Absent /\ object[u] # row[u].meta
  BY SentinelsAssumption DEF Mismatched
<1>3. stores[u] # 0 /\ (stores[u] < 2 => row[u].status # "COMPLETED")
  BY <1>1, <1>2 DEF ObjectInv, CompletedHasObject, Verified
<1> QED
  BY <1>1, <1>2, <1>3 DEF Doomed

\* GetObjectInfo decides: a row whose object matches may be completed, and one
\* whose object does not is doomed, for a COMPLETED one has its object.
LEMMA CompleteInfoObjects ==
  ASSUME StatusInv, ObjectInv, NEW c \in Calls, CompleteInfo(c)
  PROVE  ObjectInv'
<1> USE StatusTypes
<1> DEFINE u == call[c].id
           At(p) == [call[c] EXCEPT !.pc = p]
<1>1. /\ UNCHANGED <<row, object, stores, cleaner>> /\ u \in Rows /\ u \in Ids
      /\ Status(u) = row[u].status
  BY RowTypes DEF CompleteInfo, world, CallOK, Post
<1>2. RowsEvolve /\ Created /\ ObjectEvolve
  BY <1>1, SameRows, NothingStored DEF NoneAdded, Created
<1>3. CASE End(c)
  BY <1>1, <1>3, HarmlessEnd, ReadingObjects
<1>4. CASE Verified(u) /\ Goto(c, "c_update")
  <2>1. ObjectCallOK(row', object', stores', call'[c]) /\ \A d \in Calls : d # c => call'[d] = call[d]
    BY <1>1, <1>4 DEF Goto, TypeOK, Call, ObjectCallOK, Matching, Verified
  <2> QED
    BY <1>1, <1>2, <2>1, ObjectKeeps
<1>5. CASE Mismatched(u) /\ Goto(c, "c_reject")
  <2>1. Doomed(row, object, stores, u)
    BY <1>1, <1>5, MismatchIsDoomed
  <2>2. ObjectCallOK(row', object', stores', call'[c]) /\ \A d \in Calls : d # c => call'[d] = call[d]
    BY <1>1, <1>5, <2>1 DEF Goto, TypeOK, Call, ObjectCallOK
  <2> QED
    BY <1>1, <1>2, <2>2, ObjectKeeps
<1> QED
  BY <1>3, <1>4, <1>5 DEF CompleteInfo

LEMMA CompleteObjects ==
  ASSUME StatusInv, ObjectInv, RowsEvolve, Created, NEW c \in Calls, Complete(c)
  PROVE  ObjectInv'
<1> USE StatusTypes
<1>1. CASE \E u \in Ids : CompleteGet(c, u)
  <2>1. PICK u \in Ids : CompleteGet(c, u)
    BY <1>1
  <2> DEFINE k == [Idle("none") EXCEPT !.pc = "c_target", !.id = u]
  <2>2. k.pc = "c_target"
    BY DEF Idle
  <2>3. \/ End(c) \/ AnswerAt(c, u, "completed") \/ AnswerAt(c, u, "conflict")
        \/ call' = [call EXCEPT ![c] = k]
    BY <2>1 DEF CompleteGet
  <2> HIDE DEF k
  <2>4. Harmless
    BY <2>2, <2>3, HarmlessEnd, HarmlessAnswer, HarmlessStep
  <2> QED
    BY <2>1, <2>4, ReadingObjects DEF CompleteGet, world
<1>2. CASE CompleteTarget(c)
  <2>1. Harmless
    BY <1>2, HarmlessEnd, HarmlessGoto DEF CompleteTarget
  <2> QED
    BY <1>2, <2>1, ReadingObjects DEF CompleteTarget, world
<1>3. CASE CompleteInfo(c)
  BY <1>3, CompleteInfoObjects
<1>4. CASE CompleteReject(c)
  <2> DEFINE u == call[c].id
             k == [Idle("unprocessable") EXCEPT !.id = u]
  <2>1. /\ u \in Rows /\ Doomed(row, object, stores, u) /\ UNCHANGED <<object, stores, cleaner>>
        /\ call' = [call EXCEPT ![c] = k]
    BY <1>4 DEF CompleteReject, world, CallOK, Post, ObjectInv, ObjectCallOK, Answer, AnswerAt
  <2>2. \A v \in Rows : row'[v].status = "COMPLETED" => row[v].status = "COMPLETED"
    BY <1>4, <2>1, MarkFailedEvolves DEF CompleteReject
  <2>3. ObjectEvolve
    BY <2>1, <2>2, NothingStored
  <2>4. k.pc = "idle" /\ k.id = u
    BY DEF Idle
  <2> HIDE DEF k
  <2>5. Doomed(row', object', stores', u)
    BY <2>1, <2>3, DoomedStays
  <2>6. ObjectCallOK(row', object', stores', k)
    BY <2>4, <2>5 DEF ObjectCallOK
  <2>7. \A d \in Calls : call'[d] = IF d = c THEN k ELSE call[d]
    BY <2>1 DEF TypeOK
  <2> QED
    BY <2>1, <2>3, <2>6, <2>7, ObjectKeeps
<1>5. CASE CompleteUpdate(c)
  <2> DEFINE u == call[c].id
  <2>1. /\ u \in Rows /\ Matching(row, object, stores, u) /\ UNCHANGED <<object, stores, cleaner>>
        /\ CompleteFileUpload(u)
    BY <1>5 DEF CompleteUpdate, world, CallOK, Post, ObjectInv, ObjectCallOK
  <2>2. \A v \in Ids : v # u => row'[v] = row[v]
    BY <2>1, CompleteEvolves
  <2>3. ObjectEvolve
    BY <2>1, <2>2, NothingStored DEF Matching, Rows
  <2>4. Harmless
    BY <1>5, HarmlessAnswer, HarmlessGoto DEF CompleteUpdate, Answer
  <2>5. \A d \in Calls : call'[d] = call[d] \/ ObjectCallOK(row', object', stores', call'[d])
    BY <2>4 DEF Harmless, ObjectCallOK
  <2> QED
    BY <2>1, <2>3, <2>5, ObjectKeeps
<1>6. CASE CompleteReread(c)
  <2>1. Harmless
    BY <1>6, HarmlessAnswer DEF CompleteReread, Answer
  <2> QED
    BY <1>6, <2>1, ReadingObjects DEF CompleteReread, world
<1> QED
  BY <1>1, <1>2, <1>3, <1>4, <1>5, <1>6 DEF Complete

LEMMA DownloadObjects ==
  ASSUME StatusInv, ObjectInv, NEW c \in Calls, Download(c)
  PROVE  ObjectInv'
<1> USE StatusTypes
<1>1. CASE \E b \in Blocks : DownloadGet(c, b)
  <2>1. CASE End(c)
    BY <1>1, <2>1, HarmlessEnd, ReadingObjects DEF DownloadGet, world
  <2>2. CASE ~End(c)
    <3>1. PICK u : call' = [call EXCEPT ![c] = [Idle("none") EXCEPT !.pc = "d_target", !.id = u]]
      BY <1>1, <2>2 DEF DownloadGet
    <3> DEFINE k == [Idle("none") EXCEPT !.pc = "d_target", !.id = u]
    <3>2. k.pc = "d_target" /\ call' = [call EXCEPT ![c] = k]
      BY <3>1 DEF Idle
    <3> HIDE DEF k
    <3> QED
      BY <1>1, <3>2, HarmlessStep, ReadingObjects DEF DownloadGet, world
  <2> QED
    BY <2>1, <2>2
<1>2. CASE DownloadTarget(c) \/ DownloadSign(c)
  <2>1. Harmless
    BY <1>2, HarmlessEnd, HarmlessGoto DEF DownloadTarget, DownloadSign
  <2> QED
    BY <1>2, <2>1, ReadingObjects DEF DownloadTarget, DownloadSign, world
<1> QED
  BY <1>1, <1>2 DEF Download

LEMMA FeedObjects ==
  ASSUME StatusInv, ObjectInv, NEW c \in Calls, Feed(c)
  PROVE  ObjectInv'
<1> USE StatusTypes
<1>1. UNCHANGED <<row, object, stores, cleaner>>
  BY DEF Feed, FeedDevice, FeedList, FeedNext, FeedSign, FeedAnswer, world
<1>2. CASE \E d \in Devices : FeedDevice(c, d)
  <2>1. PICK d \in Devices : FeedDevice(c, d)
    BY <1>2
  <2> DEFINE k == [Idle("none") EXCEPT !.pc = "l_list", !.device = d, !.cursor = feed[d].cursor]
  <2>2. k.pc = "l_list" /\ (End(c) \/ call' = [call EXCEPT ![c] = k])
    BY <2>1 DEF FeedDevice, Idle
  <2> HIDE DEF k
  <2> QED
    BY <1>1, <2>2, HarmlessEnd, HarmlessStep, ReadingObjects
<1>3. CASE FeedList(c)
  <2>1. Harmless
    BY <1>3 DEF FeedList, Harmless, TypeOK, Call
  <2> QED
    BY <1>1, <2>1, ReadingObjects
<1>4. CASE FeedNext(c)
  <2>1. Harmless
    BY <1>4 DEF FeedNext, Harmless, TypeOK, Call
  <2> QED
    BY <1>1, <2>1, ReadingObjects
<1>5. CASE FeedSign(c)
  <2>1. Harmless
    BY <1>5 DEF FeedSign, Goto, Harmless, TypeOK, Call
  <2> QED
    BY <1>1, <2>1, ReadingObjects
<1>6. CASE FeedAnswer(c)
  BY <1>1, <1>6, HarmlessEnd, ReadingObjects DEF FeedAnswer
<1> QED
  BY <1>2, <1>3, <1>4, <1>5, <1>6 DEF Feed

LEMMA DeleteObjects ==
  ASSUME StatusInv, ObjectInv, RowsEvolve, Created, NEW c \in Calls, Delete(c)
  PROVE  ObjectInv'
<1> USE StatusTypes
<1>1. CASE \E u \in Ids : DeleteGet(c, u)
  <2>1. PICK u \in Ids : DeleteGet(c, u)
    BY <1>1
  <2> DEFINE k == [Idle("none") EXCEPT !.pc = "x_cancel", !.id = u]
  <2>2. /\ k.pc = "x_cancel"
        /\ End(c) \/ AnswerAt(c, u, "deleted") \/ call' = [call EXCEPT ![c] = k]
    BY <2>1 DEF DeleteGet, Idle
  <2> HIDE DEF k
  <2>3. Harmless
    BY <2>2, HarmlessEnd, HarmlessAnswer, HarmlessStep
  <2> QED
    BY <2>1, <2>3, ReadingObjects DEF DeleteGet, world
<1>2. CASE DeleteCancel(c) \/ DeleteMark(c)
  <2>1. Harmless
    BY <1>2, HarmlessAnswer, HarmlessGoto DEF DeleteCancel, DeleteMark, Answer
  <2>2. UNCHANGED <<object, stores, cleaner>>
    BY <1>2 DEF DeleteCancel, DeleteMark, world
  <2>3. \A u \in Rows : row'[u].status = "COMPLETED" => row[u].status = "COMPLETED"
    <3>1. call[c].id \in Rows /\ call[c].id \in Ids
      BY <1>2 DEF DeleteCancel, DeleteMark, CallOK, Post, Rows
    <3>2. PICK new \in {"CANCELLED", "DELETED"} :
            row' = row \/ row' = [row EXCEPT ![call[c].id].status = new]
      BY <1>2 DEF DeleteCancel, DeleteMark, MarkFileUploadCancelled, MarkFileUploadDeleted, Update
    <3> QED
      BY <3>1, <3>2, RowTypes DEF TypeOK, Row
  <2> QED
    BY <2>1, <2>2, <2>3, QuietObjects
<1>3. CASE DeleteObject(c)
  <2> DEFINE u == call[c].id
  <2>1. /\ u \in Rows /\ row[u].status \in {"CANCELLED", "DELETED"} /\ UNCHANGED <<row, stores, cleaner>>
    BY <1>3 DEF DeleteObject, world, CallOK, Post
  <2>2. \A v \in Ids : object'[v] = object[v] \/ (v = u /\ object'[v] = Absent)
    BY <1>3 DEF DeleteObject, DeleteObjectFails
  <2>3. ObjectEvolve
    BY <2>1, <2>2, NothingStored
  <2>4. Harmless
    BY <1>3, HarmlessEnd, HarmlessGoto DEF DeleteObject
  <2>5. \A d \in Calls : call'[d] = call[d] \/ ObjectCallOK(row', object', stores', call'[d])
    BY <2>4 DEF Harmless, ObjectCallOK
  <2> QED
    BY <2>1, <2>3, <2>5, ObjectKeeps
<1>4. CASE DeleteReread(c)
  <2>1. Harmless
    BY <1>4, HarmlessAnswer DEF DeleteReread, Answer
  <2> QED
    BY <1>4, <2>1, ReadingObjects DEF DeleteReread, world
<1> QED
  BY <1>1, <1>2, <1>3, <1>4 DEF Delete

-----------------------------------------------------------------------------
\* A step of cleaner w that leaves every object or removes the first of its page.
LEMMA CleanerObjectStep ==
  ASSUME StatusInv, ObjectInv, RowsEvolve, Created, NEW w \in Cleaners, NEW k,
         cleaner' = [cleaner EXCEPT ![w] = k], ObjectEvolve, UNCHANGED call,
         ObjectCleanerOK(row', object', stores', k)
  PROVE  ObjectInv'
<1>1. \A v \in Cleaners : cleaner'[v] = IF v = w THEN k ELSE cleaner[v]
  BY DEF StatusInv, TypeOK
<1> QED
  BY <1>1, ObjectKeeps

LEMMA CleanerNextObjects ==
  ASSUME StatusInv, ObjectInv, RowsEvolve, Created, NEW w \in Cleaners, NextUpload(w), ObjectEvolve,
         UNCHANGED <<call, stores>>
  PROVE  ObjectInv'
<1> DEFINE rest == cleaner[w].left \ {FirstDue(cleaner[w].left)}
           k == [pc |-> IF rest = {} THEN "idle" ELSE "info", left |-> rest]
<1>1. cleaner' = [cleaner EXCEPT ![w] = k]
  BY DEF NextUpload
<1>2. k.pc \in {"idle", "info"} /\ k.left \subseteq cleaner[w].left
  OBVIOUS
<1> HIDE DEF k
<1>3. ObjectCleanerOK(row', object', stores', k)
  BY <1>2 DEF ObjectInv, ObjectCleanerOK
<1> QED
  BY <1>1, <1>3, CleanerObjectStep

LEMMA CleanerObjects ==
  ASSUME StatusInv, ObjectInv, RowsEvolve, Created, NEW w \in Cleaners, RunOnce(w) \/ CleanerCrash(w)
  PROVE  ObjectInv'
<1> USE StatusTypes
<1> DEFINE f == FirstDue(cleaner[w].left)
<1>0. f = FirstIn(row, cleaner[w].left)
  BY DEF FirstDue, FirstIn
<1>1. UNCHANGED <<call, stores>>
  BY DEF RunOnce, CleanerList, CleanerInfo, CleanerFails, CleanerComplete, CleanerDelete,
         CleanerDeleteFails, CleanerExpire, CleanerCrash, world
<1>2. cleaner[w].pc # "idle" =>
        f \in cleaner[w].left /\ f \in Rows /\ f \in Ids /\ Status(f) = row[f].status
  BY CleanerFirst, RowTypes
<1>4. CASE CleanerList(w)
  <2> DEFINE k == [pc |-> "info", left |-> ListExpiredFileUploads]
  <2>1. cleaner' = [cleaner EXCEPT ![w] = k] /\ UNCHANGED <<row, object>>
    BY <1>4 DEF CleanerList
  <2>2. ObjectEvolve
    BY <1>1, <2>1, NothingStored
  <2>3. k.pc = "info"
    OBVIOUS
  <2> HIDE DEF k
  <2>4. ObjectCleanerOK(row', object', stores', k)
    BY <1>1, <2>3 DEF ObjectCleanerOK
  <2> QED
    BY <1>1, <2>1, <2>2, <2>4, CleanerObjectStep
<1>5. CASE CleanerCrash(w)
  <2> DEFINE k == [pc |-> "idle", left |-> {}]
  <2>1. cleaner' = [cleaner EXCEPT ![w] = k] /\ UNCHANGED <<row, object>>
    BY <1>5 DEF CleanerCrash
  <2>2. ObjectEvolve
    BY <1>1, <2>1, NothingStored
  <2>3. ObjectCleanerOK(row', object', stores', k)
    BY DEF ObjectCleanerOK
  <2> QED
    BY <1>1, <2>1, <2>2, <2>3, CleanerObjectStep
<1>6. CASE CleanerInfo(w)
  <2>1. cleaner[w].pc = "info" /\ UNCHANGED <<row, object>> /\ ObjectEvolve
    BY <1>1, <1>6, NothingStored DEF CleanerInfo
  <2>2. PICK p \in CleanerPCs :
          /\ cleaner' = [cleaner EXCEPT ![w].pc = p]
          /\ p = "complete" => Verified(f)
          /\ p = "delete" => Mismatched(f)
    BY <1>6 DEF CleanerInfo, CleanerPCs
  <2> DEFINE k == [cleaner[w] EXCEPT !.pc = p]
  <2>3. cleaner' = [cleaner EXCEPT ![w] = k] /\ k.pc = p /\ k.left = cleaner[w].left
    BY <2>2 DEF TypeOK
  <2> HIDE DEF k
  <2>4. p = "delete" => Doomed(row, object, stores, f)
    BY <1>2, <2>1, <2>2, MismatchIsDoomed
  <2>5. p = "complete" => Matching(row, object, stores, f)
    BY <2>2 DEF Verified, Matching
  <2>6. ObjectCleanerOK(row', object', stores', k)
    BY <1>0, <1>1, <2>1, <2>3, <2>4, <2>5 DEF ObjectCleanerOK
  <2> QED
    BY <1>1, <2>1, <2>3, <2>6, CleanerObjectStep
<1>7. CASE CleanerFails(w)
  <2>1. ObjectEvolve
    BY <1>1, <1>7, NothingStored DEF CleanerFails
  <2> QED
    BY <1>1, <1>7, <2>1, CleanerNextObjects DEF CleanerFails
<1>8. CASE CleanerComplete(w)
  <2>1. /\ cleaner[w].pc = "complete" /\ UNCHANGED object /\ CompleteFileUpload(f)
        /\ Matching(row, object, stores, f)
    BY <1>0, <1>8 DEF CleanerComplete, ObjectInv, ObjectCleanerOK
  <2>2. \A v \in Ids : v # f => row'[v] = row[v]
    BY <1>2, <2>1, CompleteEvolves
  <2>3. ObjectEvolve
    BY <1>1, <2>1, <2>2, NothingStored DEF Matching, Rows
  <2> QED
    BY <1>1, <1>8, <2>3, CleanerNextObjects DEF CleanerComplete
<1>9. CASE CleanerDelete(w) \/ CleanerDeleteFails(w)
  <2>1. cleaner[w].pc = "delete" /\ UNCHANGED row /\ Doomed(row, object, stores, f)
    BY <1>0, <1>9 DEF CleanerDelete, CleanerDeleteFails, ObjectInv, ObjectCleanerOK
  <2>2. \A v \in Ids : object'[v] = object[v] \/ (v = f /\ object'[v] = Absent)
    BY <1>9 DEF CleanerDelete, CleanerDeleteFails, DeleteObjectFails
  <2>3. ObjectEvolve
    BY <1>1, <1>2, <2>1, <2>2, NothingStored
  <2>4. CASE NextUpload(w)
    BY <1>1, <2>3, <2>4, CleanerNextObjects
  <2>5. CASE cleaner' = [cleaner EXCEPT ![w].pc = "expire"]
    <3> DEFINE k == [cleaner[w] EXCEPT !.pc = "expire"]
    <3>1. cleaner' = [cleaner EXCEPT ![w] = k] /\ k.pc = "expire" /\ k.left = cleaner[w].left
      BY <2>5 DEF TypeOK
    <3> HIDE DEF k
    <3>2. ObjectCleanerOK(row', object', stores', k)
      BY <1>1, <3>1 DEF ObjectCleanerOK
    <3> QED
      BY <1>1, <2>3, <3>1, <3>2, CleanerObjectStep
  <2> QED
    BY <1>9, <2>4, <2>5 DEF CleanerDelete, CleanerDeleteFails
<1>10. CASE CleanerExpire(w)
  <2>1. cleaner[w].pc # "idle" /\ UNCHANGED object /\ MarkFileUploadExpired(f)
    BY <1>10 DEF CleanerExpire
  <2>2. \A u \in Rows : row'[u].status = "COMPLETED" => row[u].status = "COMPLETED"
    BY <1>2, <2>1, ExpireEvolves
  <2>3. ObjectEvolve
    BY <1>1, <2>1, <2>2, NothingStored
  <2> QED
    BY <1>1, <1>10, <2>3, CleanerNextObjects DEF CleanerExpire
<1> QED
  BY <1>4, <1>5, <1>6, <1>7, <1>8, <1>9, <1>10 DEF RunOnce

\* The one step that stores an object: BrowserUpload.
LEMMA EnvironmentObjects ==
  ASSUME StatusInv, ObjectInv, Environment
  PROVE  ObjectInv'
<1> USE StatusTypes
<1>1. UNCHANGED <<row, call, cleaner>>
  BY DEF Environment, BrowserUpload, Tick, RemoveTarget, RevokeDevice
<1>2. RowsEvolve /\ Created
  BY <1>1, SameRows DEF NoneAdded, Created
<1>3. ObjectEvolve
  <2>1. CASE UNCHANGED <<object, stores>>
    BY <1>1, <2>1, NothingStored
  <2>2. CASE \E u \in Ids, o \in Storable : BrowserUpload(u, o)
    <3>1. PICK u \in Ids, o \in Storable : BrowserUpload(u, o)
      BY <2>2
    <3>2. /\ object[u] = Absent /\ stores[u] \in 0..2 /\ stores'[u] = IF stores[u] = 0 THEN 1 ELSE 2
          /\ \A v \in Ids : v # u => object'[v] = object[v] /\ stores'[v] = stores[v]
          /\ stores' \in [Ids -> 0..2]
      BY <3>1 DEF BrowserUpload, TypeOK
    <3>3. \A v \in Ids : stores[v] \in 0..2 /\ stores[v] <= stores'[v]
      BY <3>2 DEF TypeOK
    <3>4. \A v \in Ids : object'[v] # Absent => stores'[v] # 0
      BY <3>2 DEF ObjectInv
    <3> QED
      BY <1>1, <3>2, <3>3, <3>4 DEF ObjectEvolve
  <2> QED
    BY <2>1, <2>2 DEF Environment, Tick, RemoveTarget, RevokeDevice
<1> QED
  BY <1>1, <1>2, <1>3, ObjectKeeps

LEMMA ObjectInit ==
  ASSUME Init
  PROVE  ObjectInv
<1>1. Idle("none").pc = "idle" /\ Idle("none").id = NoId
  BY DEF Idle
<1>2. CompletedHasObject
  BY DEF Init, CompletedHasObject, Status
<1>3. \A c \in Calls : ObjectCallOK(row, object, stores, call[c])
  BY <1>1 DEF Init, ObjectCallOK
<1>4. \A w \in Cleaners : ObjectCleanerOK(row, object, stores, cleaner[w])
  BY DEF Init, ObjectCleanerOK
<1>5. \A u \in Ids : object[u] # Absent => stores[u] # 0
  BY DEF Init
<1> QED
  BY <1>2, <1>3, <1>4, <1>5 DEF ObjectInv

LEMMA ObjectNext ==
  ASSUME StatusInv, ObjectInv, [Next]_vars
  PROVE  ObjectInv'
<1>1. RowsEvolve /\ Created
  BY StatusNext, StatusStutter
<1>2. CASE \E c \in Calls : Abort(c)
  BY <1>2, StatusTypes, HarmlessEnd, ReadingObjects DEF Abort, world
<1>3. CASE UNCHANGED vars
  BY <1>3, ReadingObjects DEF vars, Harmless
<1> QED
  BY <1>1, <1>2, <1>3, InitiateObjects, CompleteObjects, DownloadObjects, FeedObjects, DeleteObjects,
     CleanerObjects, EnvironmentObjects DEF Next

\* A COMPLETED upload has the object that was declared, whatever calls, deletes,
\* retries and cleaners do and however late the browser stores it, unless a second
\* object was stored at its path after the cleaner had removed the first.
THEOREM UploadsCompletedHasObject == Spec => []CompletedHasObject
<1>1. StatusInv /\ ObjectInv /\ [Next]_vars => ObjectInv'
  BY ObjectNext
<1>2. ObjectInv => CompletedHasObject
  BY DEF ObjectInv
<1> QED
  BY <1>1, <1>2, ObjectInit, StatusInvariance, PTL DEF Spec

\* What a finished Complete or Delete was told stays true; only a second object
\* can make an upload COMPLETED that was refused because the first did not match.
THEOREM UploadsAnswersHold == Spec => []AnswersHold
<1>1. StatusInv /\ ObjectInv /\ [Next]_vars => ObjectInv'
  BY ObjectNext
<1>2. StatusInv /\ ObjectInv => AnswersHold
  <2> SUFFICES ASSUME StatusInv, ObjectInv, NEW c \in Calls,
                      call[c].pc = "idle", call[c].id # NoId
               PROVE  LET u == call[c].id IN
                      /\ call[c].answer = "completed" => Status(u) \in {"COMPLETED", "CANCELLED", "DELETED"}
                      /\ call[c].answer \in {"deleted", "ErrNotFound"} => Status(u) = "DELETED"
                      /\ call[c].answer = "conflict" => Status(u) # "COMPLETED"
                      /\ call[c].answer = "unprocessable" => Status(u) # "COMPLETED" \/ stores[u] = 2
    BY DEF AnswersHold
  <2>1. CallOK(row, call[c]) /\ ObjectCallOK(row, object, stores, call[c])
    BY DEF StatusInv, ObjectInv
  <2>2. /\ call[c].id \in Rows /\ Status(call[c].id) = row[call[c].id].status
        /\ stores[call[c].id] \in 0..2
    BY <2>1, StatusTypes, RowTypes DEF CallOK, TypeOK
  <2> QED
    BY <2>1, <2>2 DEF CallOK, ObjectCallOK, Doomed, Served
<1> QED
  BY <1>1, <1>2, ObjectInit, StatusInvariance, PTL DEF Spec

-----------------------------------------------------------------------------
(* The limit on pending uploads.                                           *)

PendingSet == {u \in Ids : Status(u) = "PENDING" /\ age[u] = "valid"}
Inserting == {"i_insert", "i_commit"}

\* The steps that admit no Initiate.
AdmitsNone == \A d \in Calls : call'[d] = call[d] \/ call'[d].pc \notin Inserting

LEMMA EndAdmitsNone ==
  ASSUME TypeOK, NEW c \in Calls, End(c)
  PROVE  AdmitsNone
BY DEF TypeOK, End, Idle, AdmitsNone, Inserting

LEMMA AnswerAdmitsNone ==
  ASSUME TypeOK, NEW c \in Calls, NEW u, NEW a, AnswerAt(c, u, a)
  PROVE  AdmitsNone
BY DEF TypeOK, AnswerAt, Idle, AdmitsNone, Inserting

LEMMA GotoAdmitsNone ==
  ASSUME TypeOK, NEW c \in Calls, NEW p, p \notin Inserting, Goto(c, p)
  PROVE  AdmitsNone
BY DEF TypeOK, Call, Goto, AdmitsNone, Inserting

LEMMA StepAdmitsNone ==
  ASSUME TypeOK, NEW c \in Calls, NEW k, call' = [call EXCEPT ![c] = k], k.pc \notin Inserting
  PROVE  AdmitsNone
BY DEF TypeOK, AdmitsNone

LEMMA OthersAdmitNone ==
  ASSUME StatusInv, Next,
         \A c \in Calls : ~InitiateCount(c) /\ ~InitiateInsert(c) /\ ~InitiateCommit(c)
  PROVE  AdmitsNone
<1> USE StatusTypes DEF Inserting
<1>1. ASSUME NEW c \in Calls, Initiate(c) PROVE AdmitsNone
  <2>1. CASE \E u \in Unused, r \in Request : InitiateStart(c, u, r)
    <3>1. PICK u \in Unused, r \in Request : InitiateStart(c, u, r)
      BY <2>1
    <3> DEFINE k == [Idle("none") EXCEPT !.pc = "i_device", !.id = u, !.block = r.block,
                                         !.device = r.device, !.meta = r.meta]
    <3>2. k.pc = "i_device" /\ (End(c) \/ call' = [call EXCEPT ![c] = k])
      BY <3>1 DEF InitiateStart, End, Idle
    <3> HIDE DEF k
    <3> QED
      BY <3>2, EndAdmitsNone, StepAdmitsNone
  <2>2. CASE InitiateDevice(c) \/ InitiateTarget(c) \/ InitiateSign(c) \/ InitiateFail(c)
    BY <2>2, EndAdmitsNone, GotoAdmitsNone DEF InitiateDevice, InitiateTarget, InitiateSign, InitiateFail
  <2> QED
    BY <1>1, <2>1, <2>2 DEF Initiate
<1>2. ASSUME NEW c \in Calls, Complete(c) PROVE AdmitsNone
  <2>1. CASE \E u \in Ids : CompleteGet(c, u)
    <3>1. PICK u \in Ids : CompleteGet(c, u)
      BY <2>1
    <3> DEFINE k == [Idle("none") EXCEPT !.pc = "c_target", !.id = u]
    <3>2. /\ k.pc = "c_target"
          /\ \/ End(c) \/ AnswerAt(c, u, "completed") \/ AnswerAt(c, u, "conflict")
             \/ call' = [call EXCEPT ![c] = k]
      BY <3>1 DEF CompleteGet, Idle
    <3> HIDE DEF k
    <3> QED
      BY <3>2, EndAdmitsNone, AnswerAdmitsNone, StepAdmitsNone
  <2>2. CASE CompleteTarget(c) \/ CompleteInfo(c) \/ CompleteReject(c) \/ CompleteUpdate(c)
             \/ CompleteReread(c)
    BY <2>2, EndAdmitsNone, AnswerAdmitsNone, GotoAdmitsNone
    DEF CompleteTarget, CompleteInfo, CompleteReject, CompleteUpdate, CompleteReread, Answer
  <2> QED
    BY <1>2, <2>1, <2>2 DEF Complete
<1>3. ASSUME NEW c \in Calls, Download(c) PROVE AdmitsNone
  <2>1. CASE \E b \in Blocks : DownloadGet(c, b)
    <3>1. End(c) \/ \E u : call' = [call EXCEPT ![c] = [Idle("none") EXCEPT !.pc = "d_target", !.id = u]]
      BY <2>1 DEF DownloadGet
    <3>2. \A u : [Idle("none") EXCEPT !.pc = "d_target", !.id = u].pc = "d_target"
      BY DEF Idle
    <3> QED
      BY <3>1, <3>2, EndAdmitsNone, StepAdmitsNone
  <2>2. CASE DownloadTarget(c) \/ DownloadSign(c)
    BY <2>2, EndAdmitsNone, GotoAdmitsNone DEF DownloadTarget, DownloadSign
  <2> QED
    BY <1>3, <2>1, <2>2 DEF Download
<1>4. ASSUME NEW c \in Calls, Feed(c) PROVE AdmitsNone
  <2>1. CASE \E d \in Devices : FeedDevice(c, d)
    <3>1. PICK d \in Devices : FeedDevice(c, d)
      BY <2>1
    <3> DEFINE k == [Idle("none") EXCEPT !.pc = "l_list", !.device = d, !.cursor = feed[d].cursor]
    <3>2. k.pc = "l_list" /\ (End(c) \/ call' = [call EXCEPT ![c] = k])
      BY <3>1 DEF FeedDevice, Idle
    <3> HIDE DEF k
    <3> QED
      BY <3>2, EndAdmitsNone, StepAdmitsNone
  <2>2. CASE FeedList(c)
    BY <2>2 DEF FeedList, AdmitsNone, TypeOK, Call
  <2>3. CASE FeedNext(c)
    BY <2>3 DEF FeedNext, AdmitsNone, TypeOK, Call
  <2>4. CASE FeedSign(c)
    BY <2>4 DEF FeedSign, Goto, AdmitsNone, TypeOK, Call
  <2>5. CASE FeedAnswer(c)
    BY <2>5, EndAdmitsNone DEF FeedAnswer
  <2> QED
    BY <1>4, <2>1, <2>2, <2>3, <2>4, <2>5 DEF Feed
<1>5. ASSUME NEW c \in Calls, Delete(c) PROVE AdmitsNone
  <2>1. CASE \E u \in Ids : DeleteGet(c, u)
    <3>1. PICK u \in Ids : DeleteGet(c, u)
      BY <2>1
    <3> DEFINE k == [Idle("none") EXCEPT !.pc = "x_cancel", !.id = u]
    <3>2. /\ k.pc = "x_cancel"
          /\ End(c) \/ AnswerAt(c, u, "deleted") \/ call' = [call EXCEPT ![c] = k]
      BY <3>1 DEF DeleteGet, Idle
    <3> HIDE DEF k
    <3> QED
      BY <3>2, EndAdmitsNone, AnswerAdmitsNone, StepAdmitsNone
  <2>2. CASE DeleteCancel(c) \/ DeleteObject(c) \/ DeleteMark(c) \/ DeleteReread(c)
    BY <2>2, EndAdmitsNone, AnswerAdmitsNone, GotoAdmitsNone
    DEF DeleteCancel, DeleteObject, DeleteMark, DeleteReread, Answer
  <2> QED
    BY <1>5, <2>1, <2>2 DEF Delete
<1>6. ASSUME NEW c \in Calls, Abort(c) PROVE AdmitsNone
  BY <1>6, EndAdmitsNone DEF Abort
<1>7. ASSUME NEW w \in Cleaners, RunOnce(w) \/ CleanerCrash(w) PROVE AdmitsNone
  BY <1>7 DEF RunOnce, CleanerList, CleanerInfo, CleanerFails, CleanerComplete, CleanerDelete,
              CleanerDeleteFails, CleanerExpire, CleanerCrash, AdmitsNone
<1>8. CASE Environment
  BY <1>8 DEF Environment, BrowserUpload, Tick, RemoveTarget, RevokeDevice, AdmitsNone
<1> QED
  BY <1>1, <1>2, <1>3, <1>4, <1>5, <1>6, <1>7, <1>8 DEF Next

\* An upload that has its row never becomes valid again.
LEMMA AgesAdvance ==
  ASSUME StatusInv, [Next]_vars
  PROVE  \A u \in Rows : age'[u] = "valid" => age[u] = "valid"
<1>0. CASE \E c \in Calls : InitiateCount(c)
  <2>1. PICK c \in Calls : InitiateCount(c)
    BY <1>0
  <2>2. call[c].id \notin Rows
    BY <2>1 DEF InitiateCount, StatusInv, CallOK, Pre, Rows
  <2> QED
    BY <2>1, <2>2 DEF InitiateCount, SetExpiry, StatusInv, TypeOK, Rows
<1>1. CASE \E u \in Ids : Tick(u)
  BY <1>1 DEF Tick, StatusInv, TypeOK, Rows
<1>2. CASE age' = age
  BY <1>2
<1>3. ASSUME NEW c \in Calls,
             Initiate(c) \/ Complete(c) \/ Download(c) \/ Feed(c) \/ Delete(c) \/ Abort(c)
      PROVE  age' = age \/ InitiateCount(c)
  <2>1. CASE Initiate(c)
    BY <2>1 DEF Initiate, InitiateStart, InitiateDevice, InitiateTarget,
                InitiateInsert, InitiateCommit, InitiateSign, InitiateFail, world
  <2>2. CASE Complete(c)
    BY <2>2 DEF Complete, CompleteGet, CompleteTarget, CompleteInfo, CompleteReject, CompleteUpdate,
                CompleteReread, world
  <2>3. CASE Download(c) \/ Abort(c)
    BY <2>3 DEF Download, DownloadGet, DownloadTarget, DownloadSign, Abort, world
  <2>4. CASE Feed(c)
    BY <2>4 DEF Feed, FeedDevice, FeedList, FeedNext, FeedSign, FeedAnswer, world
  <2>5. CASE Delete(c)
    BY <2>5 DEF Delete, DeleteGet, DeleteCancel, DeleteObject, DeleteMark, DeleteReread, world
  <2> QED
    BY <1>3, <2>1, <2>2, <2>3, <2>4, <2>5
<1>4. ASSUME NEW w \in Cleaners, RunOnce(w) \/ CleanerCrash(w)
      PROVE  age' = age
  BY <1>4 DEF RunOnce, CleanerList, CleanerInfo, CleanerFails, CleanerComplete, CleanerDelete,
              CleanerDeleteFails, CleanerExpire, CleanerCrash, world
<1>5. CASE Environment
  BY <1>1, <1>2, <1>5 DEF Environment, BrowserUpload, RemoveTarget, RevokeDevice
<1>6. UNCHANGED vars => age' = age
  BY DEF vars
<1> QED
  BY <1>0, <1>2, <1>3, <1>4, <1>5, <1>6 DEF Next

\* Only InitiateCommit adds a pending upload, and it adds the one it inserts.
LEMMA PendingShrinks ==
  ASSUME StatusInv, [Next]_vars
  PROVE  \/ PendingSet' \subseteq PendingSet
         \/ \E c \in Calls : InitiateCommit(c) /\ PendingSet' \subseteq PendingSet \cup {call[c].id}
<1> USE StatusTypes
<1>1. RowsEvolve /\ Created
  BY StatusNext, StatusStutter
<1>2. \A u \in Rows : u \in PendingSet' => u \in PendingSet
  BY <1>1, AgesAdvance DEF PendingSet, RowsEvolve, StatusMoves, Status, Rows
<1>3. \A u \in PendingSet' : u \in Ids /\ row'[u] # NoRow
  BY DEF PendingSet, Status
<1>4. CASE \E c \in Calls : InitiateCommit(c)
  <2>1. PICK c \in Calls : InitiateCommit(c)
    BY <1>4
  <2>2. \A u \in Ids \ Rows : row'[u] # NoRow => u = call[c].id
    BY <2>1 DEF InitiateCommit, TypeOK, Rows
  <2> QED
    BY <1>2, <1>3, <2>1, <2>2
<1>5. CASE ~\E c \in Calls : InitiateCommit(c)
  BY <1>1, <1>2, <1>3, <1>5 DEF Created
<1> QED
  BY <1>4, <1>5

LEMMA CountsAreFinite ==
  /\ IsFiniteSet(PendingSet) /\ IsFiniteSet(Admitted) /\ IsFiniteSet(PendingSet')
  /\ IsFiniteSet(Admitted')
  /\ Cardinality(PendingSet) \in Nat /\ Cardinality(Admitted) \in Nat
  /\ Cardinality(PendingSet') \in Nat /\ Cardinality(Admitted') \in Nat /\ Cardinality(Calls) \in Nat
  /\ Cardinality(Admitted') <= Cardinality(Calls)
<1>1. PendingSet \subseteq Ids /\ PendingSet' \subseteq Ids /\ Admitted \subseteq Calls /\ Admitted' \subseteq Calls
  BY DEF PendingSet, Admitted
<1> QED
  BY <1>1, CallsAssumption, FS_Subset, FS_CardinalityType

LEMMA OvershootInit ==
  ASSUME Init
  PROVE  PendingOvershootBounded
<1>1. PendingSet = {} /\ Admitted = {}
  BY DEF Init, PendingSet, Admitted, Status, Idle
<1>2. Cardinality({}) = 0
  BY FS_EmptySet
<1> QED
  BY <1>1, <1>2, CountsAreFinite, LimitsAssumption
  DEF PendingOvershootBounded, CountPendingFileUploads, PendingSet

LEMMA OvershootNext ==
  ASSUME StatusInv, PendingOvershootBounded, [Next]_vars
  PROVE  PendingOvershootBounded'
<1> USE StatusTypes, CountsAreFinite, LimitsAssumption
<1> DEFINE P == Cardinality(PendingSet)
           A == Cardinality(Admitted)
           M == MaxPending + Cardinality(Calls) - 1
<1>1. P + A <= M
  BY DEF PendingOvershootBounded, CountPendingFileUploads, PendingSet
<1>2. SUFFICES Cardinality(PendingSet') + Cardinality(Admitted') <= M
  BY DEF PendingOvershootBounded, CountPendingFileUploads, PendingSet
<1>3. CASE \E c \in Calls : InitiateCommit(c) /\ PendingSet' \subseteq PendingSet \cup {call[c].id}
  <2>1. PICK c \in Calls : InitiateCommit(c) /\ PendingSet' \subseteq PendingSet \cup {call[c].id}
    BY <1>3
  <2>2. c \in Admitted /\ Admitted' = Admitted \ {c}
    BY <2>1 DEF InitiateCommit, Goto, Admitted, TypeOK, Call
  <2>3. Cardinality(PendingSet') <= P + 1
    <3> DEFINE u == call[c].id
    <3> HIDE DEF u
    <3>1. IsFiniteSet(PendingSet \cup {u}) /\ Cardinality(PendingSet \cup {u}) \in {P, P + 1}
      BY FS_AddElement
    <3>2. PendingSet' \subseteq PendingSet \cup {u}
      BY <2>1 DEF u
    <3>3. Cardinality(PendingSet') <= Cardinality(PendingSet \cup {u})
      BY <3>1, <3>2, FS_Subset
    <3> QED
      BY <3>1, <3>3
  <2>4. Cardinality(Admitted') = A - 1
    BY <2>2, FS_RemoveElement
  <2> QED
    BY <1>1, <2>3, <2>4
<1>4. CASE PendingSet' \subseteq PendingSet
  <2>2. Cardinality(PendingSet') <= P
    BY <1>4, FS_Subset
  <2>3. CASE \E c \in Calls : InitiateCount(c)
    <3>1. PICK c \in Calls : InitiateCount(c)
      BY <2>3
    <3>2. CASE P >= MaxPending
      <4>1. Admitted' \subseteq Admitted
        BY <3>1, <3>2, EndAdmitsNone
        DEF InitiateCount, CountPendingFileUploads, PendingSet, AdmitsNone, Admitted, Inserting
      <4>2. Cardinality(Admitted') <= A
        BY <4>1, FS_Subset
      <4> QED
        BY <1>1, <2>2, <4>2
    <3>3. CASE ~(P >= MaxPending)
      BY <2>2, <3>3
    <3> QED
      BY <3>2, <3>3
  <2>4. CASE \E c \in Calls : InitiateInsert(c) \/ InitiateCommit(c)
    <3>1. Admitted' \subseteq Admitted
      BY <2>4 DEF InitiateInsert, InitiateCommit, Goto, Admitted, TypeOK, Call
    <3>2. Cardinality(Admitted') <= A
      BY <3>1, FS_Subset
    <3> QED
      BY <1>1, <2>2, <3>2
  <2>5. CASE ~\E c \in Calls : InitiateCount(c) \/ InitiateInsert(c) \/ InitiateCommit(c)
    <3>1. AdmitsNone
      BY <2>5, OthersAdmitNone DEF vars, AdmitsNone
    <3>2. Admitted' \subseteq Admitted
      BY <3>1 DEF AdmitsNone, Admitted, Inserting
    <3>3. Cardinality(Admitted') <= A
      BY <3>2, FS_Subset
    <3> QED
      BY <1>1, <2>2, <3>3
  <2> QED
    BY <2>3, <2>4, <2>5
<1> QED
  BY <1>3, <1>4, PendingShrinks

\* The limit on pending uploads is checked and used in two statements, and is
\* exceeded by fewer uploads than there are concurrent calls.
THEOREM UploadsPendingOvershootBounded == Spec => []PendingOvershootBounded
BY OvershootInit, OvershootNext, StatusInvariance, PTL DEF Spec
=============================================================================
