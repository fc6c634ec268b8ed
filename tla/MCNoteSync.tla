------------------------------ MODULE MCNoteSync ------------------------------
(***************************************************************************)
(* Small instances of NoteSync: request sets that bring about the cases    *)
(* each run is about.                                                      *)
(***************************************************************************)
EXTENDS NoteReplay, TLC

CONSTANTS alice, bob, phone, laptop, tablet, desk, spare, b1, b2, c1, c2, work, home, x, y, plain, bold

HandlerSymmetry == Permutations(Handlers)

OneOwner == [d \in Devices |-> alice]
TwoOwners == [d \in Devices |-> IF d = desk THEN bob ELSE alice]

\* A client operation with the fields most types leave out.
Blank(id, type, n, base) ==
  [id |-> id, note |-> n, seq |-> 1, base |-> base, type |-> type, known |-> TRUE,
   key |-> None, blocks |-> {}, name |-> None, text |-> <<x>>, props |-> plain,
   delta |-> None, size |-> 1]

Insert(i, rune) == [index |-> i, del |-> 0, ins |-> <<rune>>]

Push(user, d, ops) ==
  [kind |-> "push", valid |-> TRUE, user |-> user, device |-> d, ops |-> ops, cursor |-> 0]
Pull(user, d) ==
  [kind |-> "pull", valid |-> TRUE, user |-> user, device |-> d, ops |-> <<>>, cursor |-> 0]

\* create_note 1 with block b1.
Create1 == [Blank(1, "create_note", 1, 0) EXCEPT !.blocks = {b1} \cap Blocks]
Create2 == Blank(2, "create_note", 2, 0)
Title(id, n, base, i) == [Blank(id, "modify_note_title", n, base) EXCEPT !.delta = Insert(i, y)]

-----------------------------------------------------------------------------
(* Two devices edit one note: creation, retried creation, competing edits,  *)
(* an edit and a deletion of the same version, a deletion with a stale base,*)
(* a batch whose second operation is out of range, a request over the limit.*)
ConflictRequests ==
  {Push(alice, phone, <<Create1>>),
   Push(alice, phone, <<Title(3, 1, 1, 1), [Blank(4, "modify_note_property", 1, 1) EXCEPT !.seq = 2, !.props = bold]>>),
   Push(alice, laptop, <<Title(5, 1, 1, 0)>>),
   Push(alice, laptop, <<Blank(6, "delete_note", 1, 1)>>),
   Push(alice, laptop, <<Title(7, 1, 1, 0), [Title(8, 1, 1, 9) EXCEPT !.seq = 2]>>),
   Push(alice, laptop, [i \in 1 .. MaxOperations + 1 |-> Title(5, 1, 1, 0)])}

-----------------------------------------------------------------------------
(* Three devices take one note through versions 1, 2 and 3 and race for the *)
(* second.                                                                  *)
ChainRequests ==
  {Push(alice, phone, <<Blank(1, "create_note", 1, 0)>>),
   Push(alice, phone, <<Title(2, 1, 1, 1), [Title(3, 1, 1, 0) EXCEPT !.seq = 2]>>),
   Push(alice, laptop, <<Title(4, 1, 1, 0)>>),
   Push(alice, tablet, <<Title(5, 1, 2, 0)>>)}

-----------------------------------------------------------------------------
(* Block edits: batches that create, edit and delete blocks and the note in *)
(* one go, a block id that is taken, a block that is missing, a delta out of*)
(* range, malformed operations, and a user who names another user's note.   *)
AddBlock(id, b, base) == [Blank(id, "create_block", 1, base) EXCEPT !.key = b, !.seq = 2]
DropBlock(id, b, base) == [Blank(id, "delete_block", 1, base) EXCEPT !.key = b, !.seq = 4]
EditBlock(id, b, base, i) ==
  [Blank(id, "modify_block", 1, base) EXCEPT !.key = b, !.seq = 3, !.props = None, !.delta = Insert(i, y)]

BlockRequests ==
  {Push(alice, phone, <<EditBlock(2, b1, 0, 1), Create1>>),
   Push(alice, phone, <<DropBlock(6, b2, 1), EditBlock(5, b2, 1, 0), AddBlock(4, b2, 1), EditBlock(3, b1, 1, 0)>>),
   Push(alice, laptop, <<DropBlock(7, b1, 1), [Blank(8, "delete_note", 1, 1) EXCEPT !.seq = 5],
                         [Blank(9, "modify_block", 1, 1) EXCEPT !.key = b1, !.seq = 6, !.props = bold],
                         Title(10, 1, 1, 1)>>),
   Push(alice, laptop, <<AddBlock(11, b1, 1)>>),
   Push(alice, laptop, <<DropBlock(12, b2, 1)>>),
   Push(alice, laptop, <<EditBlock(13, b2, 1, 0)>>),
   Push(alice, laptop, <<EditBlock(14, b1, 1, 9)>>),
   Push(alice, laptop, <<[Blank(15, "modify_block", 1, 1) EXCEPT !.key = b1, !.props = None]>>)}

-----------------------------------------------------------------------------
(* Two users: bob's desk names alice's note and block ids, and pulls; a     *)
(* device is used that is not registered, and a request is not valid.       *)
UserRequests ==
  {Push(alice, phone, <<Create1>>),
   Push(bob, desk, <<Create1>>),
   Push(bob, desk, <<Blank(2, "create_note", 2, 0), Title(3, 1, 1, 0)>>),
   Push(bob, desk, <<[Blank(4, "create_note", 2, 0) EXCEPT !.blocks = {b1}]>>),
   Push(bob, desk, <<Blank(5, "delete_note", 1, 1)>>),
   Push(bob, phone, <<Blank(6, "create_note", 2, 1)>>),
   Push(alice, spare, <<Blank(7, "create_note", 2, 1), Blank(8, "create_note", 2, 0)>>),
   [Push(alice, phone, <<Create2>>) EXCEPT !.valid = FALSE],
   Pull(bob, desk), Pull(alice, spare)}

-----------------------------------------------------------------------------
(* Two devices write two notes while a third party of the same user pulls   *)
(* with one-change pages; one of the writers registers on the way and may be*)
(* revoked again.                                                           *)
PullRequests ==
  {Push(alice, phone, <<Create2, Create1>>),
   Push(alice, tablet, <<Blank(3, "create_note", 3, 0)>>),
   Pull(alice, laptop)}

\* UpdatesAvailable is asked while at most three of the requests have come.
Arrived == {p \in Handlers : pc[p] # "idle"}
Asked == \E d \in Checking : check[d] # None

PullNext ==
  \/ /\ Asked => Cardinality(Arrived) < 3
     /\ \E p \in Handlers : \E r \in Requests : Receive(p, r)
  \/ \E p \in Handlers : HandlerStep(p)
  \/ \E p \in Handlers : Abort(p) \/ CommitUnknown(p)
  \/ \E d \in Devices : RegisterDevice(d)
  \/ \E d \in Revocable : RevokeDevice(d)
  \/ Cardinality(Arrived) <= 3 /\ \E d \in Checking : UpdatesAvailableDevice(d)
  \/ \E d \in Checking : UpdatesAvailableChanges(d)
  \/ Finished /\ UNCHANGED vars

PullSpec == Init /\ [][PullNext]_vars

-----------------------------------------------------------------------------
(* Requests over two notes, in opposite order, that lock both.              *)
OrderRequests ==
  {Push(alice, phone, <<Create1, Create2>>),
   Push(alice, laptop, <<Title(3, 2, 1, 0), Title(4, 1, 1, 0)>>),
   Push(alice, tablet, <<Blank(7, "delete_note", 2, 1)>>)}

-----------------------------------------------------------------------------
(* Categories: creation, renaming and deletion with names that collide, also*)
(* with a tombstone, and a request that has a note batch as well.           *)
Category(id, type, c, name) == [Blank(id, type, NilNote, 0) EXCEPT !.key = c, !.name = name]

CategoryRequests ==
  {Push(alice, phone, <<Category(1, "create_category", c1, work)>>),
   Push(alice, phone, <<Category(2, "delete_category", c1, None)>>),
   Push(alice, laptop, <<Category(3, "create_category", c2, work), Blank(4, "create_note", 1, 0)>>),
   Push(alice, laptop, <<Category(5, "create_category", c2, home)>>),
   Push(alice, laptop, <<Category(6, "modify_category", c1, home)>>),
   Push(alice, laptop, <<Category(7, "create_category", c1, home)>>),
   Push(alice, laptop, <<[Category(8, "modify_category", c1, home) EXCEPT !.name = None]>>)}

\* A note and a category in one request.
MixedRequests ==
  {Push(alice, phone, <<Category(1, "create_category", c1, work)>>),
   Push(alice, laptop, <<Blank(4, "create_note", 1, 0), Category(3, "create_category", c2, work)>>)}

\* Two requests over two notes and two categories, in opposite orders; the second
\* edits what a third has created.
CircleRequests ==
  {Push(alice, tablet, <<Create1, Create2>>),
   Push(alice, phone, <<Title(3, 1, 1, 0), Title(4, 2, 1, 0), Category(5, "create_category", c1, work),
                        [Category(6, "create_category", c2, home) EXCEPT !.seq = 2]>>),
   Push(alice, laptop, <<Title(7, 2, 1, 0), Title(8, 1, 1, 0), Category(9, "create_category", c2, home),
                         [Category(10, "create_category", c1, work) EXCEPT !.seq = 2]>>)}

\* Two notes are created with the same block, and in both orders.
ClashRequests ==
  {Push(alice, phone, <<Create1, Create2>>),
   Push(alice, laptop, <<Blank(3, "create_note", 2, 0),
                         [Blank(4, "create_block", 2, 0) EXCEPT !.key = b1, !.seq = 2]>>)}

-----------------------------------------------------------------------------
(* One run over several request sets: a behaviour stays within one of them, *)
(* and no device registers on the way (the pull run has that).              *)
Scenarios == {UserRequests, ConflictRequests, ChainRequests, BlockRequests, CategoryRequests,
              CircleRequests, ClashRequests}
AllRequests == UNION Scenarios

\* The scenarios the behaviour may still be in.
Open == {s \in Scenarios : \A p \in Handlers : pc[p] # "idle" => [req[p] EXCEPT !.cursor = 0] \in s}

PushNext ==
  \/ \E p \in Handlers : \E r \in UNION Open : Receive(p, r)
  \/ \E p \in Handlers : HandlerStep(p)
  \/ \E p \in Handlers : Abort(p) \/ CommitUnknown(p)
  \/ Finished /\ UNCHANGED vars

PushSpec == Init /\ [][PushNext]_vars
=============================================================================
