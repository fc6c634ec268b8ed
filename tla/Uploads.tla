------------------------------- MODULE Uploads --------------------------------
(***************************************************************************)
(* Direct file uploads: the file_uploads table, the uploads service that   *)
(* runs in every API process, and the cleaner that runs in every worker.   *)
(*                                                                         *)
(* The service never holds a transaction: every statement and every call   *)
(* to the object store is a step of its own, and other calls, cleaners and *)
(* the browser may act between any two.  A call's program counter is the   *)
(* next statement; "idle" is a caller that has had its answer.  One owner  *)
(* is modelled: every query is scoped by owner_id, and owners share nothing*)
(* but the cleaner.                                                        *)
(*                                                                         *)
(* Time is the position of "now" in the life of each upload: "valid" up to *)
(* expires_at, "expired" until the cleanup grace has passed, then "graced".*)
(* The token of a signed URL has a life of its own (two hours), which the  *)
(* configuration does not tie to either: a browser may store an object at  *)
(* any age.                                                                *)
(***************************************************************************)
EXTENDS Integers, FiniteSets

CONSTANTS
  Ids,             \* upload ids: uuid.New() never repeats one
  Calls,           \* concurrent API requests
  Cleaners,        \* worker processes
  Devices, Blocks,
  Metadata,        \* the [size, type] pairs a client declares or an object has
  Storable,        \* what a browser may store with a signed URL
  MaxFileSize,     \* cfg.SupabaseStorageMaxFileSize
  AllowedTypes,    \* cfg.SupabaseStorageAllowedMimeTypes, as <<major, minor>>
  MaxPending,      \* cfg.SupabaseStorageMaxPendingUploads
  PageLimit,       \* the cleaner's page: 100
  MaxCursor,       \* bound: how often the model reads the clock or the sequence
  NoRow, NoId, Absent, Unreadable

VARIABLES
  row,       \* file_uploads
  lastCursor,\* the identity sequence of file_uploads.cursor
  clock,     \* how often a call has computed an expires_at
  age,       \* each upload's position in its life
  live,      \* blocks whose note and row are the owner's and not deleted
  revoked,   \* devices with revoked_at set
  object,    \* the object stored at each upload's path
  signed,    \* uploads whose signed URL the client holds
  call,      \* the API calls
  cleaner,   \* Cleaner.RunOnce of each worker
  feed,      \* per device: the saved cursor and the links it was given
  stores     \* observed only: objects the browser stored at each path, 2 for more

vars == <<row, lastCursor, clock, age, live, revoked, object, signed, call, cleaner, feed, stores>>
world == <<clock, age, live, revoked, signed, stores>>

Statuses == {"PENDING", "COMPLETED", "FAILED", "EXPIRED", "CANCELLED", "DELETED"}
Ages == {"valid", "expired", "graced"}
Row == [status : Statuses, block : Blocks, device : Devices, meta : Metadata, cursor : Nat,
        expires : Nat]

PCs == {"idle", "i_device", "i_target", "i_count", "i_insert", "i_commit", "i_sign", "i_fail",
        "c_target", "c_info", "c_reject", "c_update", "c_reread",
        "d_target", "d_sign", "l_list", "l_next", "l_sign",
        "x_cancel", "x_object", "x_mark", "x_reread"}
Answers == {"none", "completed", "deleted", "conflict", "unprocessable", "ErrNotFound"}

\* InitiateRequest: shape is FALSE when a field the store never sees (ids, file
\* name) is malformed.
Request == [device : Devices, block : Blocks, meta : Metadata, shape : BOOLEAN]

Call == [pc : PCs, id : Ids \cup {NoId}, block : Blocks \cup {NoId},
         device : Devices \cup {NoId}, meta : Metadata \cup {Absent},
         cursor : Nat, expires : Nat, left : SUBSET Ids, ready : SUBSET Ids,
         links : SUBSET Ids, answer : Answers]
Idle(answer) == [pc |-> "idle", id |-> NoId, block |-> NoId, device |-> NoId, meta |-> Absent,
                 cursor |-> 0, expires |-> 0, left |-> {}, ready |-> {}, links |-> {},
                 answer |-> answer]

CleanerPCs == {"idle", "info", "complete", "delete", "expire"}

ASSUME LimitsAssumption == MaxPending \in Nat \ {0} /\ PageLimit \in Nat \ {0} /\ MaxFileSize \in Nat
                        /\ MaxCursor \in Nat
ASSUME CallsAssumption == IsFiniteSet(Calls) /\ IsFiniteSet(Ids)
ASSUME MetadataAssumption == \A m \in Metadata : m.size \in Int
ASSUME SentinelsAssumption ==
  /\ Absent \notin Metadata /\ Unreadable \notin Metadata /\ Absent # Unreadable
  /\ NoRow \notin Row /\ NoId \notin Ids \cup Blocks \cup Devices
  /\ Storable \subseteq Metadata \cup {Unreadable}

-----------------------------------------------------------------------------
Status(u) == IF row[u] = NoRow THEN "NONE" ELSE row[u].status
Rows == {u \in Ids : row[u] # NoRow}

\* Initiates that have been counted and whose row is not there yet.
Admitted == {c \in Calls : call[c].pc \in {"i_insert", "i_commit"}}

Goto(c, pc) == call' = [call EXCEPT ![c].pc = pc]
\* An answer of Complete or Delete keeps the id it is about.
AnswerAt(c, u, a) == call' = [call EXCEPT ![c] = [Idle(a) EXCEPT !.id = u]]
Answer(c, a) == AnswerAt(c, call[c].id, a)
\* The other answers (forbidden, not found, not ready, too many pending, storage
\* error, a link, an aborted request) are not told apart: nothing is claimed of them.
End(c) == call' = [call EXCEPT ![c] = Idle("none")]

\* UPDATE file_uploads SET status = new WHERE id = u AND status IN from: no row
\* changes, and none is returned, when the status is another one.
Update(u, from, new) ==
  row' = IF Status(u) \in from THEN [row EXCEPT ![u].status = new] ELSE row
\* Mutant: the status is not part of the WHERE clause.
CompleteAnyStatus(u) == Update(u, Statuses, "COMPLETED")
CompleteFileUpload(u) == Update(u, {"PENDING"}, "COMPLETED")
MarkFileUploadFailed(u) == Update(u, {"PENDING"}, "FAILED")
\* Mutant: a late cleanup pass overwrites a completion.
ExpireAnyStatus(u) == Update(u, Statuses, "EXPIRED")
MarkFileUploadExpired(u) == Update(u, {"PENDING"}, "EXPIRED")
MarkFileUploadCancelled(u) == Update(u, Statuses \ {"DELETED"}, "CANCELLED")
MarkFileUploadDeleted(u) == Update(u, Statuses \ {"DELETED"}, "DELETED")

CountPendingFileUploads == Cardinality({u \in Ids : Status(u) = "PENDING" /\ age[u] = "valid"})

\* The row with the highest cursor: the latest attempt for the block.
GetFileUploadForBlock(b) ==
  LET mine == {u \in Rows : row[u].block = b}
  IN  {u \in mine : \A v \in mine : row[v].cursor <= row[u].cursor}

ListFileUploadsAfterCursor(n) == {u \in Rows : row[u].cursor > n}

\* PENDING rows past the grace, the PageLimit first to expire.
ListExpiredFileUploads ==
  LET due == {u \in Rows : row[u].status = "PENDING" /\ age[u] = "graced"}
  IN  {u \in due : Cardinality({v \in due : row[v].expires < row[u].expires}) < PageLimit}

\* The first upload of a device's listing, and of a cleaner's page.
First(S) == CHOOSE u \in S : \A v \in S : row[u].cursor <= row[v].cursor
FirstDue(S) == CHOOSE u \in S : \A v \in S : row[u].expires <= row[v].expires

\* GetObjectInfo answers with the metadata of the object, or fails.
Verified(u) == object[u] = row[u].meta
Mismatched(u) == object[u] \in Metadata /\ object[u] # row[u].meta

\* A DeleteObject that timed out may or may not have removed the object.
DeleteObjectFails(u) == object' \in {object, [object EXCEPT ![u] = Absent]}

-----------------------------------------------------------------------------
(* Initiate.                                                               *)

mimeAllowed(type) == \E a \in AllowedTypes : a = type \/ (a[2] = "*" /\ a[1] = type[1])

validateRequest(r) ==
  r.shape /\ r.meta.size > 0 /\ r.meta.size <= MaxFileSize /\ mimeAllowed(r.meta.type)

Unused == {u \in Ids : row[u] = NoRow /\ \A c \in Calls : call[c].pc = "idle" \/ call[c].id # u}

InitiateStart(c, u, r) ==
  /\ call[c].pc = "idle" /\ u \in Unused
  /\ call' = [call EXCEPT ![c] =
       IF validateRequest(r)
       THEN [Idle("none") EXCEPT !.pc = "i_device", !.id = u, !.block = r.block,
                                 !.device = r.device, !.meta = r.meta]
       ELSE Idle("none")]
  /\ UNCHANGED <<row, lastCursor, object, cleaner, feed, world>>

InitiateDevice(c) ==
  /\ call[c].pc = "i_device"
  /\ IF call[c].device \in revoked THEN End(c) ELSE Goto(c, "i_target")
  /\ UNCHANGED <<row, lastCursor, object, cleaner, feed, world>>

\* ValidateUploadTarget asks for the note and then for the block.  A deletion is
\* for good, so what the two answer together is what one of them finds: a target
\* that passes was live at the first, one that is refused is gone at the second.
InitiateTarget(c) ==
  /\ call[c].pc = "i_target"
  /\ IF call[c].block \in live THEN Goto(c, "i_count") ELSE End(c)
  /\ UNCHANGED <<row, lastCursor, object, cleaner, feed, world>>

\* expires_at is computed before the row is inserted: rows may be inserted in
\* another order than they expire in.
SetExpiry(c) ==
  /\ clock < MaxCursor /\ clock' = clock + 1
  /\ age' = [age EXCEPT ![call[c].id] = "valid"]
  /\ call' = [call EXCEPT ![c].pc = "i_insert", ![c].expires = clock + 1]

\* Mutant: one upload too many is admitted.
InitiateCountOffByOne(c) ==
  /\ call[c].pc = "i_count"
  /\ \/ CountPendingFileUploads > MaxPending /\ End(c) /\ UNCHANGED <<clock, age>>
     \/ CountPendingFileUploads <= MaxPending /\ SetExpiry(c)
  /\ UNCHANGED <<row, lastCursor, live, revoked, object, signed, cleaner, feed, stores>>

InitiateCount(c) ==
  /\ call[c].pc = "i_count"
  /\ \/ CountPendingFileUploads >= MaxPending /\ End(c) /\ UNCHANGED <<clock, age>>
     \/ CountPendingFileUploads < MaxPending /\ SetExpiry(c)
  /\ UNCHANGED <<row, lastCursor, live, revoked, object, signed, cleaner, feed, stores>>

\* CreateFileUpload takes its cursor from the sequence when it inserts and its
\* row is visible once the statement has committed: cursors may commit out of
\* order.
InitiateInsert(c) ==
  /\ call[c].pc = "i_insert" /\ lastCursor < MaxCursor
  /\ lastCursor' = lastCursor + 1
  /\ call' = [call EXCEPT ![c].pc = "i_commit", ![c].cursor = lastCursor + 1]
  /\ UNCHANGED <<row, object, cleaner, feed, world>>

InitiateCommit(c) ==
  /\ call[c].pc = "i_commit"
  /\ row' = [row EXCEPT ![call[c].id] =
       [status |-> "PENDING", block |-> call[c].block, device |-> call[c].device,
        meta |-> call[c].meta, cursor |-> call[c].cursor, expires |-> call[c].expires]]
  /\ Goto(c, "i_sign")
  /\ UNCHANGED <<lastCursor, object, cleaner, feed, world>>

InitiateSign(c) ==
  /\ call[c].pc = "i_sign"
  /\ \/ signed' = signed \cup {call[c].id} /\ End(c)
     \/ signed' = signed /\ Goto(c, "i_fail")
  /\ UNCHANGED <<row, lastCursor, clock, age, live, revoked, object, cleaner, feed, stores>>

\* The error of the update is ignored: the row may stay PENDING.
InitiateFail(c) ==
  /\ call[c].pc = "i_fail"
  /\ MarkFileUploadFailed(call[c].id) \/ row' = row
  /\ End(c)
  /\ UNCHANGED <<lastCursor, object, cleaner, feed, world>>

-----------------------------------------------------------------------------
(* Complete.  (Get only reads the row.)                                    *)

CompleteGet(c, u) ==
  /\ call[c].pc = "idle"
  /\ \/ Status(u) = "NONE" /\ End(c)
     \/ Status(u) = "COMPLETED" /\ AnswerAt(c, u, "completed")
     \/ Status(u) \in Statuses \ {"PENDING", "COMPLETED"} /\ AnswerAt(c, u, "conflict")
     \/ Status(u) = "PENDING" /\ age[u] # "valid" /\ End(c)
     \/ /\ Status(u) = "PENDING" /\ age[u] = "valid"
        /\ call' = [call EXCEPT ![c] = [Idle("none") EXCEPT !.pc = "c_target", !.id = u]]
  /\ UNCHANGED <<row, lastCursor, object, cleaner, feed, world>>

CompleteTarget(c) ==
  /\ call[c].pc = "c_target"
  /\ IF row[call[c].id].block \in live THEN Goto(c, "c_info") ELSE End(c)
  /\ UNCHANGED <<row, lastCursor, object, cleaner, feed, world>>

\* GetObjectInfo finds no object, or fails: the row is left as it is.
CompleteInfo(c) ==
  /\ call[c].pc = "c_info"
  /\ LET u == call[c].id
     IN  \/ Verified(u) /\ Goto(c, "c_update")
         \/ Mismatched(u) /\ Goto(c, "c_reject")
         \/ End(c)
  /\ UNCHANGED <<row, lastCursor, object, cleaner, feed, world>>

CompleteReject(c) ==
  /\ call[c].pc = "c_reject"
  /\ MarkFileUploadFailed(call[c].id) \/ row' = row
  /\ Answer(c, "unprocessable")
  /\ UNCHANGED <<lastCursor, object, cleaner, feed, world>>

CompleteUpdate(c) ==
  /\ call[c].pc = "c_update"
  /\ CompleteFileUpload(call[c].id)
  /\ IF Status(call[c].id) = "PENDING" THEN Answer(c, "completed") ELSE Goto(c, "c_reread")
  /\ UNCHANGED <<lastCursor, object, cleaner, feed, world>>

CompleteReread(c) ==
  /\ call[c].pc = "c_reread"
  /\ Answer(c, IF Status(call[c].id) = "COMPLETED" THEN "completed" ELSE "conflict")
  /\ UNCHANGED <<row, lastCursor, object, cleaner, feed, world>>

-----------------------------------------------------------------------------
(* DownloadURL and DownloadURLs.                                           *)

DownloadGet(c, b) ==
  /\ call[c].pc = "idle"
  /\ \/ GetFileUploadForBlock(b) = {} /\ End(c)
     \/ \E u \in GetFileUploadForBlock(b) :
          IF row[u].status = "COMPLETED"
          THEN call' = [call EXCEPT ![c] = [Idle("none") EXCEPT !.pc = "d_target", !.id = u]]
          ELSE End(c)
  /\ UNCHANGED <<row, lastCursor, object, cleaner, feed, world>>

DownloadTarget(c) ==
  /\ call[c].pc = "d_target"
  /\ IF row[call[c].id].block \in live THEN Goto(c, "d_sign") ELSE End(c)
  /\ UNCHANGED <<row, lastCursor, object, cleaner, feed, world>>

\* The object store signs a URL for an object it has, and may always fail.
DownloadSign(c) ==
  /\ call[c].pc = "d_sign"
  /\ \/ object[call[c].id] # Absent /\ End(c)
     \/ End(c)
  /\ UNCHANGED <<row, lastCursor, object, cleaner, feed, world>>

\* The client sends the cursor it saved, and one feed request at a time.
FeedDevice(c, d) ==
  /\ call[c].pc = "idle"
  /\ \A b \in Calls : call[b].pc \in {"l_list", "l_next", "l_sign"} => call[b].device # d
  /\ IF d \in revoked THEN End(c)
     ELSE call' = [call EXCEPT ![c] = [Idle("none") EXCEPT !.pc = "l_list", !.device = d,
                                                          !.cursor = feed[d].cursor]]
  /\ UNCHANGED <<row, lastCursor, object, cleaner, feed, world>>

\* Mutant: rows of every status are turned into links.
FeedListAnyStatus(c) ==
  /\ call[c].pc = "l_list"
  /\ LET listed == ListFileUploadsAfterCursor(call[c].cursor)
     IN  call' = [call EXCEPT ![c].pc = "l_next", ![c].left = listed,
                    ![c].ready = {u \in listed : row[u].device # call[c].device}]
  /\ UNCHANGED <<row, lastCursor, object, cleaner, feed, world>>

\* The status of each row is the one this statement read.
FeedList(c) ==
  /\ call[c].pc = "l_list"
  /\ LET listed == ListFileUploadsAfterCursor(call[c].cursor)
     IN  call' = [call EXCEPT ![c].pc = "l_next", ![c].left = listed,
                    ![c].ready = {u \in listed : /\ row[u].status = "COMPLETED"
                                                 /\ row[u].device # call[c].device}]
  /\ UNCHANGED <<row, lastCursor, object, cleaner, feed, world>>

\* Every row is consumed; only a ready one of a live target goes on to be signed.
FeedNext(c) ==
  /\ call[c].pc = "l_next" /\ call[c].left # {}
  /\ LET u == First(call[c].left)
     IN  call' = [call EXCEPT ![c].id = u, ![c].cursor = row[u].cursor, ![c].left = @ \ {u},
                    ![c].pc = IF u \in call[c].ready /\ row[u].block \in live
                              THEN "l_sign" ELSE "l_next"]
  /\ UNCHANGED <<row, lastCursor, object, cleaner, feed, world>>

FeedSign(c) ==
  /\ call[c].pc = "l_sign"
  /\ \/ /\ object[call[c].id] # Absent
        /\ call' = [call EXCEPT ![c].pc = "l_next", ![c].links = @ \cup {call[c].id}]
     \/ Goto(c, "l_next")
  /\ UNCHANGED <<row, lastCursor, object, cleaner, feed, world>>

FeedAnswer(c) ==
  /\ call[c].pc = "l_next" /\ call[c].left = {}
  /\ feed' = [feed EXCEPT ![call[c].device] =
                [cursor |-> call[c].cursor, links |-> @.links \cup call[c].links]]
  /\ End(c)
  /\ UNCHANGED <<row, lastCursor, object, cleaner, world>>

-----------------------------------------------------------------------------
(* Delete.                                                                 *)

\* Mutant: the object is removed before the row is reserved.
DeleteUnreserved(c, u) ==
  /\ call[c].pc = "idle"
  /\ Status(u) \in Statuses \ {"DELETED"}
  /\ call' = [call EXCEPT ![c] = [Idle("none") EXCEPT !.pc = "x_object", !.id = u]]
  /\ UNCHANGED <<row, lastCursor, object, cleaner, feed, world>>

DeleteGet(c, u) ==
  /\ call[c].pc = "idle"
  /\ \/ Status(u) = "NONE" /\ End(c)
     \/ Status(u) = "DELETED" /\ AnswerAt(c, u, "deleted")
     \/ /\ Status(u) \in Statuses \ {"DELETED"}
        /\ call' = [call EXCEPT ![c] = [Idle("none") EXCEPT !.pc = "x_cancel", !.id = u]]
  /\ UNCHANGED <<row, lastCursor, object, cleaner, feed, world>>

\* When another call has marked the row DELETED, the store returns an empty
\* entity: the code looks up the nil id it holds, finds nothing, and returns
\* store.ErrNotFound.
DeleteCancel(c) ==
  /\ call[c].pc = "x_cancel"
  /\ MarkFileUploadCancelled(call[c].id)
  /\ IF Status(call[c].id) = "DELETED" THEN Answer(c, "ErrNotFound") ELSE Goto(c, "x_object")
  /\ UNCHANGED <<lastCursor, object, cleaner, feed, world>>

DeleteObject(c) ==
  /\ call[c].pc = "x_object"
  /\ \/ object' = [object EXCEPT ![call[c].id] = Absent] /\ Goto(c, "x_mark")
     \/ DeleteObjectFails(call[c].id) /\ End(c)
  /\ UNCHANGED <<row, lastCursor, cleaner, feed, world>>

DeleteMark(c) ==
  /\ call[c].pc = "x_mark"
  /\ MarkFileUploadDeleted(call[c].id)
  /\ IF Status(call[c].id) = "DELETED" THEN Goto(c, "x_reread") ELSE Answer(c, "deleted")
  /\ UNCHANGED <<lastCursor, object, cleaner, feed, world>>

DeleteReread(c) ==
  /\ call[c].pc = "x_reread"
  /\ Answer(c, IF Status(call[c].id) = "DELETED" THEN "deleted" ELSE "ErrNotFound")
  /\ UNCHANGED <<row, lastCursor, object, cleaner, feed, world>>

\* The request times out, its client goes away, a statement fails or the API
\* process dies: before, between or after any two statements.
Abort(c) ==
  /\ call[c].pc # "idle"
  /\ End(c)
  /\ UNCHANGED <<row, lastCursor, object, cleaner, feed, world>>

-----------------------------------------------------------------------------
(* Cleaner.RunOnce.                                                        *)

\* The next upload of the page, or the end of the pass.
NextUpload(w) ==
  LET rest == cleaner[w].left \ {FirstDue(cleaner[w].left)}
  IN  cleaner' = [cleaner EXCEPT ![w] =
        [pc |-> IF rest = {} THEN "idle" ELSE "info", left |-> rest]]

CleanerList(w) ==
  /\ cleaner[w].pc = "idle" /\ ListExpiredFileUploads # {}
  /\ cleaner' = [cleaner EXCEPT ![w] = [pc |-> "info", left |-> ListExpiredFileUploads]]
  /\ UNCHANGED <<row, lastCursor, object, call, feed, world>>

\* Mutant: a missing object is taken for a failing store.
CleanerInfoNeedsObject(w) ==
  /\ cleaner[w].pc = "info"
  /\ LET u == FirstDue(cleaner[w].left)
     IN  \/ Verified(u) /\ cleaner' = [cleaner EXCEPT ![w].pc = "complete"]
         \/ Mismatched(u) /\ cleaner' = [cleaner EXCEPT ![w].pc = "delete"]
  /\ UNCHANGED <<row, lastCursor, object, call, feed, world>>

CleanerInfo(w) ==
  /\ cleaner[w].pc = "info"
  /\ LET u == FirstDue(cleaner[w].left)
         To(pc) == cleaner' = [cleaner EXCEPT ![w].pc = pc]
     IN  \/ Verified(u) /\ To("complete")
         \/ Mismatched(u) /\ To("delete")
         \/ object[u] = Absent /\ To("expire")
  /\ UNCHANGED <<row, lastCursor, object, call, feed, world>>

\* The object store is unavailable or cannot describe this object, or the update
\* of the row fails: the error is kept for the end of the pass.
CleanerFails(w) ==
  /\ cleaner[w].pc \in {"info", "complete", "expire"}
  /\ NextUpload(w)
  /\ UNCHANGED <<row, lastCursor, object, call, feed, world>>

CleanerComplete(w) ==
  /\ cleaner[w].pc = "complete"
  /\ CompleteFileUpload(FirstDue(cleaner[w].left))
  /\ NextUpload(w)
  /\ UNCHANGED <<lastCursor, object, call, feed, world>>

CleanerDelete(w) ==
  /\ cleaner[w].pc = "delete"
  /\ object' = [object EXCEPT ![FirstDue(cleaner[w].left)] = Absent]
  /\ cleaner' = [cleaner EXCEPT ![w].pc = "expire"]
  /\ UNCHANGED <<row, lastCursor, call, feed, world>>

CleanerDeleteFails(w) ==
  /\ cleaner[w].pc = "delete"
  /\ DeleteObjectFails(FirstDue(cleaner[w].left))
  /\ NextUpload(w)
  /\ UNCHANGED <<row, lastCursor, call, feed, world>>

CleanerExpire(w) ==
  /\ cleaner[w].pc = "expire"
  /\ MarkFileUploadExpired(FirstDue(cleaner[w].left))
  /\ NextUpload(w)
  /\ UNCHANGED <<lastCursor, object, call, feed, world>>

\* The worker stops or dies in the middle of a page; another pass lists anew.
CleanerCrash(w) ==
  /\ cleaner[w].pc # "idle"
  /\ cleaner' = [cleaner EXCEPT ![w] = [pc |-> "idle", left |-> {}]]
  /\ UNCHANGED <<row, lastCursor, object, call, feed, world>>

-----------------------------------------------------------------------------
(* The environment.                                                        *)

\* The browser stores an object with the signed URL.  The URL was issued
\* without upsert: it cannot replace an object, but nothing keeps it from being
\* used again once the object is gone, or after the upload's expiry and grace.
BrowserUpload(u, o) ==
  /\ u \in signed /\ object[u] = Absent
  /\ object' = [object EXCEPT ![u] = o]
  /\ stores' = [stores EXCEPT ![u] = IF @ = 0 THEN 1 ELSE 2]
  /\ UNCHANGED <<row, lastCursor, clock, age, live, revoked, signed, call, cleaner, feed>>

\* The uploads that have an expires_at, and whether u's is before v's.
Expiry(u) ==
  {row[v].expires : v \in {u} \cap Rows} \cup {call[c].expires : c \in {d \in Admitted : call[d].id = u}}
ExpiresBefore(u, v) == \E x \in Expiry(u), y \in Expiry(v) : x < y

\* Time passes; what expires first is past its expiry, and its grace, first.
Tick(u) ==
  /\ Expiry(u) # {}
  /\ \E a \in {<<"valid", "expired">>, <<"expired", "graced">>} :
       /\ age[u] = a[1]
       /\ \A v \in Ids : ExpiresBefore(v, u) => age[v] # a[1]
       /\ age' = [age EXCEPT ![u] = a[2]]
  /\ UNCHANGED <<row, lastCursor, clock, live, revoked, object, signed, call, cleaner, feed, stores>>

RemoveTarget(b) ==
  /\ b \in live /\ live' = live \ {b}
  /\ UNCHANGED <<row, lastCursor, clock, age, revoked, object, signed, call, cleaner, feed, stores>>

RevokeDevice(d) ==
  /\ d \notin revoked /\ revoked' = revoked \cup {d}
  /\ UNCHANGED <<row, lastCursor, clock, age, live, object, signed, call, cleaner, feed, stores>>

-----------------------------------------------------------------------------
Init ==
  /\ row = [u \in Ids |-> NoRow] /\ lastCursor = 0 /\ clock = 0
  /\ age = [u \in Ids |-> "valid"] /\ live = Blocks /\ revoked = {}
  /\ object = [u \in Ids |-> Absent] /\ signed = {}
  /\ call = [c \in Calls |-> Idle("none")]
  /\ cleaner = [w \in Cleaners |-> [pc |-> "idle", left |-> {}]]
  /\ feed = [d \in Devices |-> [cursor |-> 0, links |-> {}]]
  /\ stores = [u \in Ids |-> 0]

Initiate(c) == \/ \E u \in Unused, r \in Request : InitiateStart(c, u, r)
               \/ InitiateDevice(c) \/ InitiateTarget(c) \/ InitiateCount(c)
               \/ InitiateInsert(c) \/ InitiateCommit(c) \/ InitiateSign(c) \/ InitiateFail(c)
Complete(c) == \/ \E u \in Ids : CompleteGet(c, u)
               \/ CompleteTarget(c) \/ CompleteInfo(c) \/ CompleteReject(c)
               \/ CompleteUpdate(c) \/ CompleteReread(c)
Download(c) == \/ \E b \in Blocks : DownloadGet(c, b)
               \/ DownloadTarget(c) \/ DownloadSign(c)
Feed(c)     == \/ \E d \in Devices : FeedDevice(c, d)
               \/ FeedList(c) \/ FeedNext(c) \/ FeedSign(c) \/ FeedAnswer(c)
Delete(c)   == \/ \E u \in Ids : DeleteGet(c, u)
               \/ DeleteCancel(c) \/ DeleteObject(c) \/ DeleteMark(c) \/ DeleteReread(c)
RunOnce(w)  == \/ CleanerList(w) \/ CleanerInfo(w) \/ CleanerFails(w) \/ CleanerComplete(w)
               \/ CleanerDelete(w) \/ CleanerDeleteFails(w) \/ CleanerExpire(w)
Environment == \/ \E u \in Ids, o \in Storable : BrowserUpload(u, o)
               \/ \E u \in Ids : Tick(u)
               \/ \E b \in Blocks : RemoveTarget(b)
               \/ \E d \in Devices : RevokeDevice(d)

Next == \/ \E c \in Calls : \/ Initiate(c) \/ Complete(c) \/ Download(c) \/ Feed(c) \/ Delete(c)
                            \/ Abort(c)
        \/ \E w \in Cleaners : RunOnce(w) \/ CleanerCrash(w)
        \/ Environment

Spec == Init /\ [][Next]_vars

-----------------------------------------------------------------------------
(* Properties.                                                             *)

\* Types of the table, the object store, the calls and the cleaners.
TypeOK ==
  /\ row \in [Ids -> Row \cup {NoRow}] /\ lastCursor \in Nat /\ clock \in Nat
  /\ age \in [Ids -> Ages] /\ live \subseteq Blocks /\ revoked \subseteq Devices
  /\ object \in [Ids -> Metadata \cup {Absent, Unreadable}] /\ signed \subseteq Ids
  /\ call \in [Calls -> Call]
  /\ cleaner \in [Cleaners -> [pc : CleanerPCs, left : SUBSET Ids]]
  /\ feed \in [Devices -> [cursor : Nat, links : SUBSET Ids]]
  /\ stores \in [Ids -> 0..2]

\* A COMPLETED upload has a stored object, and it is the one that was declared:
\* no order of Complete, Delete, retries and cleaners of several workers leaves
\* a COMPLETED row whose object was removed or never matched.  The exception is
\* a path at which the browser stored a second object after the cleaner had
\* removed the first, with a token that outlives expiry and grace: another
\* worker's decision to remove the first one may still be pending.
CompletedHasObject ==
  \A u \in Ids : Status(u) = "COMPLETED" /\ stores[u] < 2 => Verified(u)

\* What a finished call was told stays true: a Complete that succeeded was for
\* an upload that is COMPLETED until it is deleted, a successful Delete for one
\* that is DELETED for good, and a Complete refused as a conflict for one that
\* never becomes COMPLETED.  One refused because the object did not match can
\* only become COMPLETED with a second object, stored once the cleaner removed
\* the first.  A Delete that is told ErrNotFound lost to another Delete that has
\* finished the work.
AnswersHold ==
  \A c \in Calls : LET u == call[c].id IN call[c].pc = "idle" /\ u # NoId =>
    /\ call[c].answer = "completed" => Status(u) \in {"COMPLETED", "CANCELLED", "DELETED"}
    /\ call[c].answer \in {"deleted", "ErrNotFound"} => Status(u) = "DELETED"
    /\ call[c].answer = "conflict" => Status(u) # "COMPLETED"
    /\ call[c].answer = "unprocessable" => Status(u) # "COMPLETED" \/ stores[u] = 2

\* CountPendingFileUploads and CreateFileUpload are two statements: the limit
\* may be exceeded, but by fewer uploads than there are concurrent calls.
PendingOvershootBounded ==
  CountPendingFileUploads + Cardinality(Admitted) <= MaxPending + Cardinality(Calls) - 1

\* A device is only ever given links to uploads that passed verification and
\* that another device made, although the feed acts on statuses it read before
\* the rows changed.
LinksOnlyVerified ==
  \A d \in Devices : \A u \in feed[d].links :
    Status(u) \in {"COMPLETED", "CANCELLED", "DELETED"} /\ row[u].device # d

\* The lifecycle never runs backwards, whoever writes: a row that left PENDING
\* is never PENDING or COMPLETED again, a deletion in progress is only ever
\* finished, and DELETED is final.
Lifecycle ==
  [][\A u \in Ids : Status(u)' # Status(u) =>
       \/ Status(u) = "NONE" /\ Status(u)' = "PENDING"
       \/ Status(u) = "PENDING"
       \/ Status(u)' = "CANCELLED" /\ Status(u) # "DELETED"
       \/ Status(u)' = "DELETED" /\ Status(u) = "CANCELLED"]_vars

-----------------------------------------------------------------------------
(* Liveness.  Every worker runs a cleanup pass at least every five minutes *)
(* while it is up, and finishes a pass it does not die in.  The object     *)
(* store recovers: a call repeated for ever succeeds again and again.      *)
CleanerFairness ==
  \A w \in Cleaners : /\ WF_vars(RunOnce(w))
                      /\ SF_vars(CleanerInfo(w))
                      /\ SF_vars(CleanerComplete(w))
                      /\ SF_vars(CleanerDelete(w))
                      /\ SF_vars(CleanerExpire(w))

Overdue(u) == Status(u) = "PENDING" /\ age[u] = "graced"
\* Uploads that expired before u and whose objects cannot be described fill the page.
Blocked(u) ==
  Cardinality({v \in Rows : /\ Overdue(v) /\ object[v] = Unreadable
                            /\ row[v].expires < row[u].expires}) >= PageLimit

\* Every upload that is PENDING past its grace is reconciled in the end, although
\* cleaners crash, calls abort, the object store fails and the page is smaller than
\* the backlog.  Two things only keep an upload waiting: the store cannot describe
\* its own object, or the cleaner's page is full of such uploads.
Reconciled ==
  \A u \in Ids : Overdue(u) ~> (~Overdue(u) \/ object[u] = Unreadable \/ Blocked(u))
=============================================================================
