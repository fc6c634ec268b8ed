---------------------------- MODULE JwksCacheProofs ----------------------------
(***************************************************************************)
(* Proofs about JwksCache, for any number of requests, keys and documents. *)
(*                                                                         *)
(* The inductive invariant adds to TypeOK where each piece of data a       *)
(* request or the cache holds came from: an answer that is on its way was  *)
(* served since its fetch began (RequestsBacked), and the cached keys were *)
(* served at most FetchTimeout before they were stored (CacheBacked).      *)
(***************************************************************************)
EXTENDS JwksCache, TLAPS

\* doc was served between the times from and to.
Served(doc, from, to) == \E t \in 0..MaxTime : from <= t /\ t <= to /\ doc \in log[t]

CacheBacked ==
  /\ DOMAIN keys # {}
  /\ \E doc \in Documents : Served(doc, loadedAt - FetchTimeout, loadedAt) /\ keys = Usable(doc)

RequestBacked(r) ==
  /\ req[r].pc # "done" => req[r].result = "none"
  /\ req[r].pc \in {"fetch", "store"} => now - req[r].start <= FetchTimeout
  /\ req[r].pc = "store" => req[r].doc \in Documents /\ Served(req[r].doc, req[r].start, now)
  /\ req[r].pc = "lookup" => loadedAt = now

\* RetiredKeyDies and MissingIsRecent for one request.
AcceptedBacked(r) == req[r].result = "accepted" =>
  /\ req[r].token.claims
  /\ \E doc \in Documents : /\ Served(doc, req[r].at - Ttl - FetchTimeout + 1, req[r].at)
                            /\ req[r].token.kid \in DOMAIN doc
                            /\ doc[req[r].token.kid] = req[r].token.key
MissingBacked(r) == req[r].result = "missing" =>
  \E doc \in Documents : /\ Served(doc, req[r].at - FetchTimeout, req[r].at)
                         /\ req[r].token.kid \notin DOMAIN Usable(doc)

JInv ==
  /\ TypeOK
  /\ served \in log[now]
  /\ CacheBacked
  /\ \A r \in Requests : RequestBacked(r) /\ AcceptedBacked(r) /\ MissingBacked(r)

-----------------------------------------------------------------------------
(* The record of a request, and the keys of a document.                    *)

ReqRecord == [pc : PCs, token : Tokens, start : 0..now,
              doc : Documents \cup {NoDocument}, result : Results, at : 0..now]

\* The usable keys of a document are a map from kids to keys.
LEMMA UsableType ==
  ASSUME NEW doc \in Documents
  PROVE  /\ Usable(doc) \in KeyMap
         /\ \A k \in DOMAIN Usable(doc) : k \in DOMAIN doc /\ Usable(doc)[k] = doc[k]
<1> DEFINE S == {k \in DOMAIN doc : doc[k] # Unusable}
<1>1. PICK T \in SUBSET Kids : doc \in [T -> Keys \cup {Unusable}]
  BY InputsAssumption DEF Document
<1>2. S \in SUBSET Kids /\ Usable(doc) \in [S -> Keys]
  BY <1>1 DEF Usable
<1>3. Usable(doc) \in KeyMap
  BY <1>2 DEF KeyMap
<1> QED
  BY <1>2, <1>3 DEF Usable

-----------------------------------------------------------------------------
(* What a step of one request leaves alone, and what it has to show.       *)

\* A request that does not move keeps what backs it, also when another one has
\* just stored its answer.
LEMMA OthersKept ==
  ASSUME JInv, NEW r \in Requests, req'[r] = req[r], now' = now, log' = log,
         loadedAt' \in {loadedAt, now}
  PROVE  RequestBacked(r)' /\ AcceptedBacked(r)' /\ MissingBacked(r)'
<1>1. RequestBacked(r) /\ AcceptedBacked(r) /\ MissingBacked(r)
  BY DEF JInv
<1>2. RequestBacked(r)'
  BY <1>1 DEF RequestBacked, Served
<1>3. AcceptedBacked(r)' /\ MissingBacked(r)'
  BY <1>1 DEF AcceptedBacked, MissingBacked, Served
<1> QED
  BY <1>2, <1>3

\* The cache is backed as long as neither it nor the record changes.
LEMMA CacheKept ==
  ASSUME JInv, keys' = keys, loadedAt' = loadedAt, log' = log
  PROVE  CacheBacked'
BY DEF JInv, CacheBacked, Served

\* A step that only moves request r.
LEMMA RequestStep ==
  ASSUME JInv, NEW r \in Requests, NEW x \in ReqRecord, req' = [req EXCEPT ![r] = x],
         now' = now, served' = served, log' = log, keys' = keys, loadedAt' = loadedAt,
         RequestBacked(r)', AcceptedBacked(r)', MissingBacked(r)'
  PROVE  JInv'
<1>1. \A q \in Requests : q # r => RequestBacked(q)' /\ AcceptedBacked(q)' /\ MissingBacked(q)'
  <2> SUFFICES ASSUME NEW q \in Requests, q # r
               PROVE  RequestBacked(q)' /\ AcceptedBacked(q)' /\ MissingBacked(q)'
    OBVIOUS
  <2>1. req'[q] = req[q]
    BY DEF JInv, TypeOK
  <2> QED
    BY <2>1, OthersKept
<1>2. TypeOK'
  BY DEF JInv, TypeOK, ReqRecord
<1>3. (served \in log[now])'
  BY DEF JInv
<1>4. CacheBacked'
  BY CacheKept
<1> QED
  BY <1>1, <1>2, <1>3, <1>4 DEF JInv

\* What a request is answered with when it is done.
LEMMA DoneStep ==
  ASSUME JInv, NEW r \in Requests, NEW result \in Results, Done(r, result),
         now' = now, served' = served, log' = log, keys' = keys, loadedAt' = loadedAt,
         AcceptedBacked(r)', MissingBacked(r)'
  PROVE  JInv'
<1> DEFINE x == [pc |-> "done", token |-> req[r].token, start |-> 0,
                 doc |-> NoDocument, result |-> result, at |-> now]
<1>1. req' = [req EXCEPT ![r] = x]
  BY DEF JInv, TypeOK, Done
<1>2. x \in ReqRecord
  BY DEF JInv, TypeOK, ReqRecord, PCs
<1>3. RequestBacked(r)'
  BY <1>1 DEF JInv, TypeOK, RequestBacked
<1> QED
  BY <1>1, <1>2, <1>3, RequestStep

\* A token judged with a cached key: the key was served recently enough if the
\* cache is fresh.
LEMMA JudgeStep ==
  ASSUME JInv, NEW r \in Requests, req[r].token.kid \in DOMAIN keys, Fresh,
         Judge(r, keys[req[r].token.kid]),
         now' = now, served' = served, log' = log, keys' = keys, loadedAt' = loadedAt
  PROVE  JInv'
<1> DEFINE kid == req[r].token.kid
           result == IF Verified(r, keys[kid]) THEN "accepted" ELSE "unauthorized"
<1>1. Done(r, result) /\ result \in Results
  BY DEF Judge, Results
<1>2. /\ req'[r].token = req[r].token /\ req'[r].result = result /\ req'[r].at = now
  BY <1>1 DEF JInv, TypeOK, Done
<1>3. MissingBacked(r)'
  BY <1>2 DEF MissingBacked
<1>4. AcceptedBacked(r)'
  <2> SUFFICES ASSUME result = "accepted"
               PROVE  /\ req[r].token.claims
                      /\ \E doc \in Documents : /\ Served(doc, now - Ttl - FetchTimeout + 1, now)
                                                /\ kid \in DOMAIN doc /\ doc[kid] = req[r].token.key
    BY <1>2 DEF AcceptedBacked, Served
  <2>1. req[r].token.key = keys[kid] /\ req[r].token.claims
    BY DEF Verified
  <2>2. PICK doc \in Documents : Served(doc, loadedAt - FetchTimeout, loadedAt) /\ keys = Usable(doc)
    BY DEF JInv, CacheBacked
  <2>3. kid \in DOMAIN doc /\ doc[kid] = req[r].token.key
    BY <2>1, <2>2, UsableType
  <2>4. Served(doc, now - Ttl - FetchTimeout + 1, now)
    BY <2>2, TimesAssumption DEF Served, Fresh, JInv, TypeOK
  <2> QED
    BY <2>1, <2>3, <2>4
<1> QED
  BY <1>1, <1>3, <1>4, DoneStep

-----------------------------------------------------------------------------
(* The actions.                                                            *)

LEMMA VerifyInv ==
  ASSUME JInv, NEW r \in Requests, NEW t \in Tokens, Verify(r, t)
  PROVE  JInv'
<1> DEFINE ok == t.bearer /\ t.rsa
           x == [req[r] EXCEPT !.token = t, !.at = now, !.pc = IF ok THEN "get" ELSE "done",
                               !.result = IF ok THEN "none" ELSE "unauthorized"]
<1>1. req' = [req EXCEPT ![r] = x] /\ x \in ReqRecord
  BY DEF Verify, JInv, TypeOK, ReqRecord, PCs, Results
<1>2. req'[r].pc = x.pc /\ x.pc \in {"get", "done"} /\ (x.pc # "done" => x.result = "none")
      /\ x.result \in {"none", "unauthorized"} /\ req'[r] = x
  BY <1>1 DEF JInv, TypeOK
<1>3. RequestBacked(r)' /\ AcceptedBacked(r)' /\ MissingBacked(r)'
  BY <1>2 DEF RequestBacked, AcceptedBacked, MissingBacked
<1>4. now' = now /\ served' = served /\ log' = log /\ keys' = keys /\ loadedAt' = loadedAt
  BY DEF Verify, issuer, cache
<1> QED
  BY <1>1, <1>3, <1>4, RequestStep

LEMMA GetInv ==
  ASSUME JInv, NEW r \in Requests, Get(r)
  PROVE  JInv'
<1>1. now' = now /\ served' = served /\ log' = log /\ keys' = keys /\ loadedAt' = loadedAt
  BY DEF Get, issuer, cache
<1>2. CASE Hit(req[r].token.kid)
  BY <1>1, <1>2, JudgeStep DEF Get, Hit
<1>3. CASE ~Hit(req[r].token.kid)
  <2> DEFINE x == [req[r] EXCEPT !.pc = "fetch", !.start = now]
  <2>0. req' = [req EXCEPT ![r].pc = "fetch", ![r].start = now]
    BY <1>3 DEF Get
  <2>1. req' = [req EXCEPT ![r] = x] /\ x \in ReqRecord /\ req'[r] = x
    <3>1. req[r] \in ReqRecord /\ now \in 0..now
      BY TimesAssumption DEF JInv, TypeOK, ReqRecord
    <3>2. x \in ReqRecord
      BY <3>1 DEF ReqRecord, PCs
    <3>3. req' = [req EXCEPT ![r] = x]
      BY <2>0 DEF JInv, TypeOK
    <3> QED
      BY <3>2, <3>3 DEF JInv, TypeOK
  <2>2. req[r].result = "none" /\ now \in Int
    BY DEF Get, JInv, RequestBacked, TypeOK
  <2>3. x.pc = "fetch" /\ x.start = now /\ x.result = "none"
    BY <2>2 DEF JInv, TypeOK
  <2>4. RequestBacked(r)' /\ AcceptedBacked(r)' /\ MissingBacked(r)'
    <3> HIDE DEF x
    <3>0. now - now <= FetchTimeout
      BY <2>2, TimesAssumption
    <3>1. req'[r].pc = "fetch" /\ req'[r].result = "none" /\ now' - req'[r].start <= FetchTimeout
      BY <1>1, <2>1, <2>3, <3>0
    <3> QED
      BY <3>1 DEF RequestBacked, AcceptedBacked, MissingBacked
  <2> QED
    BY <1>1, <2>1, <2>4, RequestStep
<1> QED
  BY <1>2, <1>3

LEMMA FetchInv ==
  ASSUME JInv, NEW r \in Requests, Fetch(r)
  PROVE  JInv'
<1> DEFINE x == [req[r] EXCEPT !.pc = "store", !.doc = served]
<1>1. now' = now /\ served' = served /\ log' = log /\ keys' = keys /\ loadedAt' = loadedAt
  BY DEF Fetch, issuer, cache
<1>2. req' = [req EXCEPT ![r] = x] /\ x \in ReqRecord /\ req'[r] = x
  BY DEF Fetch, JInv, TypeOK, ReqRecord, PCs
<1>3. /\ x.pc = "store" /\ x.doc = served /\ x.start = req[r].start /\ x.result = "none"
      /\ now - req[r].start <= FetchTimeout /\ req[r].start \in 0..now
  BY DEF Fetch, JInv, RequestBacked, TypeOK
<1>4. served \in Documents /\ Served(served, req[r].start, now)
  BY <1>3 DEF JInv, TypeOK, Served
<1>5. RequestBacked(r)' /\ AcceptedBacked(r)' /\ MissingBacked(r)'
  BY <1>1, <1>2, <1>3, <1>4 DEF RequestBacked, AcceptedBacked, MissingBacked, Served
<1> QED
  BY <1>1, <1>2, <1>5, RequestStep

LEMMA FetchFailsInv ==
  ASSUME JInv, NEW r \in Requests, FetchFails(r)
  PROVE  JInv'
<1>1. now' = now /\ served' = served /\ log' = log /\ keys' = keys /\ loadedAt' = loadedAt
  BY DEF FetchFails, issuer, cache
<1>2. Done(r, "error") /\ req'[r].result = "error" /\ "error" \in Results
  BY DEF FetchFails, Done, JInv, TypeOK, Results
<1>3. AcceptedBacked(r)' /\ MissingBacked(r)'
  BY <1>2 DEF AcceptedBacked, MissingBacked
<1> QED
  BY <1>1, <1>2, <1>3, DoneStep

\* An answer replaces the whole map, and was served within FetchTimeout.
LEMMA StoreInv ==
  ASSUME JInv, NEW r \in Requests, Store(r)
  PROVE  JInv'
<1>1. now' = now /\ served' = served /\ log' = log
  BY DEF Store, issuer
<1>2. CASE DOMAIN Usable(req[r].doc) = {}
  <2>1. keys' = keys /\ loadedAt' = loadedAt /\ Done(r, "error") /\ "error" \in Results
    BY <1>2 DEF Store, cache, Results
  <2>2. req'[r].result = "error"
    BY <2>1 DEF Done, JInv, TypeOK
  <2>3. AcceptedBacked(r)' /\ MissingBacked(r)'
    BY <2>2 DEF AcceptedBacked, MissingBacked
  <2> QED
    BY <1>1, <2>1, <2>3, DoneStep
<1>3. CASE DOMAIN Usable(req[r].doc) # {}
  <2> DEFINE x == [req[r] EXCEPT !.pc = "lookup"]
  <2>1. keys' = Usable(req[r].doc) /\ loadedAt' = now /\ req' = [req EXCEPT ![r] = x]
    BY <1>3 DEF Store, Replacement, JInv, TypeOK
  <2>2. x \in ReqRecord /\ req'[r] = x /\ x.pc = "lookup" /\ x.result = "none"
    BY <2>1 DEF Store, JInv, TypeOK, ReqRecord, PCs, RequestBacked
  <2>3. /\ req[r].doc \in Documents /\ Served(req[r].doc, req[r].start, now)
        /\ now - req[r].start <= FetchTimeout /\ req[r].start \in 0..now
    BY DEF Store, JInv, TypeOK, RequestBacked
  <2>4. Served(req[r].doc, now - FetchTimeout, now)
    BY <2>3, TimesAssumption DEF Served, JInv, TypeOK
  <2>5. CacheBacked'
    BY <1>1, <1>3, <2>1, <2>3, <2>4 DEF CacheBacked, Served
  <2>6. keys' \in KeyMap
    BY <2>1, <2>3, UsableType
  <2>7. TypeOK'
    BY <1>1, <2>1, <2>2, <2>6 DEF JInv, TypeOK, ReqRecord
  <2>8. RequestBacked(r)' /\ AcceptedBacked(r)' /\ MissingBacked(r)'
    BY <1>1, <2>1, <2>2 DEF RequestBacked, AcceptedBacked, MissingBacked
  <2>9. \A q \in Requests : q # r => RequestBacked(q)' /\ AcceptedBacked(q)' /\ MissingBacked(q)'
    <3> SUFFICES ASSUME NEW q \in Requests, q # r
                 PROVE  RequestBacked(q)' /\ AcceptedBacked(q)' /\ MissingBacked(q)'
      OBVIOUS
    <3>1. req'[q] = req[q]
      BY <2>1 DEF JInv, TypeOK
    <3> QED
      BY <1>1, <2>1, <3>1, OthersKept
  <2> QED
    BY <1>1, <2>5, <2>7, <2>8, <2>9 DEF JInv
<1> QED
  BY <1>2, <1>3

\* The second read comes at the time of the store: whatever map is there now was
\* stored at this very time.
LEMMA LookupInv ==
  ASSUME JInv, NEW r \in Requests, Lookup(r)
  PROVE  JInv'
<1> DEFINE kid == req[r].token.kid
<1>1. now' = now /\ served' = served /\ log' = log /\ keys' = keys /\ loadedAt' = loadedAt
  BY DEF Lookup, issuer, cache
<1>2. loadedAt = now /\ now \in Nat
  BY DEF Lookup, JInv, RequestBacked, TypeOK
<1>3. CASE kid \in DOMAIN keys
  <2>1. Fresh
    BY <1>2, TimesAssumption DEF Fresh
  <2> QED
    BY <1>1, <1>3, <2>1, JudgeStep DEF Lookup
<1>4. CASE kid \notin DOMAIN keys
  <2>1. Done(r, "missing") /\ "missing" \in Results
    BY <1>4 DEF Lookup, Results
  <2>2. req'[r].result = "missing" /\ req'[r].token = req[r].token /\ req'[r].at = now
    BY <2>1 DEF Done, JInv, TypeOK
  <2>3. PICK doc \in Documents : Served(doc, loadedAt - FetchTimeout, loadedAt) /\ keys = Usable(doc)
    BY DEF JInv, CacheBacked
  <2>4. MissingBacked(r)'
    BY <1>1, <1>2, <1>4, <2>2, <2>3 DEF MissingBacked, Served
  <2>5. AcceptedBacked(r)'
    BY <2>2 DEF AcceptedBacked
  <2> QED
    BY <1>1, <2>1, <2>4, <2>5, DoneStep
<1> QED
  BY <1>3, <1>4

\* The issuer and the clock leave requests and cache alone and only add to the
\* record: what is backed stays backed.
LEMMA RecordStep ==
  ASSUME JInv, req' = req, keys' = keys, loadedAt' = loadedAt,
         now' \in now..MaxTime, served' \in Documents,
         log' \in [0..MaxTime -> SUBSET Documents], served' \in log'[now'],
         \A t \in 0..now : log[t] \subseteq log'[t],
         \A r \in Requests : /\ req[r].pc \in {"fetch", "store"} => now' - req[r].start <= FetchTimeout
                             /\ req[r].pc = "lookup" => now' = now
  PROVE  JInv'
<1>1. TypeOK'
  <2>1. now \in Nat /\ now' \in Nat /\ now <= now'
    BY TimesAssumption DEF JInv, TypeOK
  <2>2. 0..now \subseteq 0..now'
    BY <2>1
  <2> QED
    BY <2>1, <2>2, TimesAssumption DEF JInv, TypeOK
<1>2. CacheBacked'
  <2>1. PICK doc \in Documents : Served(doc, loadedAt - FetchTimeout, loadedAt) /\ keys = Usable(doc)
    BY DEF JInv, CacheBacked
  <2>2. Served(doc, loadedAt - FetchTimeout, loadedAt)'
    BY <2>1, TimesAssumption DEF Served, JInv, TypeOK
  <2> QED
    BY <2>1, <2>2 DEF JInv, CacheBacked, Usable
<1>3. ASSUME NEW r \in Requests
      PROVE  RequestBacked(r)' /\ AcceptedBacked(r)' /\ MissingBacked(r)'
  <2>1. /\ req[r].at \in 0..now /\ req[r].start \in 0..now /\ now \in 0..MaxTime
        /\ RequestBacked(r) /\ AcceptedBacked(r) /\ MissingBacked(r)
    BY DEF JInv, TypeOK
  <2>2. RequestBacked(r)'
    BY <2>1, TimesAssumption DEF RequestBacked, Served
  <2>3. AcceptedBacked(r)'
    BY <2>1, TimesAssumption DEF AcceptedBacked, Served
  <2>4. MissingBacked(r)'
    BY <2>1, TimesAssumption DEF MissingBacked, Served, Usable
  <2> QED
    BY <2>2, <2>3, <2>4
<1> QED
  BY <1>1, <1>2, <1>3 DEF JInv

LEMMA RotateInv ==
  ASSUME JInv, NEW doc \in Documents, Rotate(doc)
  PROVE  JInv'
<1>1. /\ req' = req /\ keys' = keys /\ loadedAt' = loadedAt /\ now' = now /\ served' = doc
      /\ log' = [log EXCEPT ![now] = @ \cup {doc}]
  BY DEF Rotate, cache
<1>2. /\ now' \in now..MaxTime /\ log' \in [0..MaxTime -> SUBSET Documents]
      /\ served' \in log'[now'] /\ \A t \in 0..now : log[t] \subseteq log'[t]
  BY <1>1, TimesAssumption DEF JInv, TypeOK
<1>3. \A r \in Requests : /\ req[r].pc \in {"fetch", "store"} => now' - req[r].start <= FetchTimeout
                          /\ req[r].pc = "lookup" => now' = now
  BY <1>1 DEF JInv, RequestBacked
<1> QED
  BY <1>1, <1>2, <1>3, RecordStep

LEMMA TickInv ==
  ASSUME JInv, Tick
  PROVE  JInv'
<1>1. /\ req' = req /\ keys' = keys /\ loadedAt' = loadedAt /\ now' = now + 1 /\ now < MaxTime
      /\ served' = served /\ log' = [log EXCEPT ![now + 1] = {served}]
  BY DEF Tick, cache
<1>2. now \in 0..MaxTime /\ served \in Documents /\ log \in [0..MaxTime -> SUBSET Documents]
  BY DEF JInv, TypeOK
<1>3. /\ now' \in now..MaxTime /\ log' \in [0..MaxTime -> SUBSET Documents]
      /\ served' \in log'[now'] /\ \A t \in 0..now : log[t] \subseteq log'[t]
  BY <1>1, <1>2, TimesAssumption
<1>4. \A r \in Requests : /\ req[r].pc \in {"fetch", "store"} => now' - req[r].start <= FetchTimeout
                          /\ req[r].pc = "lookup" => now' = now
  BY <1>1, <1>2, TimesAssumption DEF Tick, JInv, TypeOK
<1> QED
  BY <1>1, <1>2, <1>3, <1>4, RecordStep

LEMMA InitInv == Init => JInv
<1> SUFFICES ASSUME Init PROVE JInv
  OBVIOUS
<1> DEFINE x == [pc |-> "idle", token |-> CHOOSE t \in Tokens : TRUE, start |-> 0,
                 doc |-> NoDocument, result |-> "none", at |-> 0]
<1>1. /\ now = 0 /\ loadedAt = 0 /\ served \in Documents /\ keys = Usable(served)
      /\ DOMAIN keys # {} /\ \A r \in Requests : req[r] = x
  BY DEF Init
<1>2. log \in [0..MaxTime -> SUBSET Documents] /\ log[0] = {served} /\ 0 \in 0..MaxTime
  BY <1>1, TimesAssumption DEF Init
<1>3. (CHOOSE t \in Tokens : TRUE) \in Tokens
  BY InputsAssumption
<1>4. TypeOK
  <2>1. x \in ReqRecord
    BY <1>1, <1>3 DEF ReqRecord, PCs, Results
  <2>2. req \in [Requests -> ReqRecord]
    BY <2>1 DEF Init
  <2> QED
    BY <1>1, <1>2, <2>2, UsableType DEF TypeOK, ReqRecord
<1>5. CacheBacked
  <2>1. Served(served, loadedAt - FetchTimeout, loadedAt)
    BY <1>1, <1>2, TimesAssumption DEF Served
  <2> QED
    BY <1>1, <2>1 DEF CacheBacked
<1>6. \A r \in Requests : RequestBacked(r) /\ AcceptedBacked(r) /\ MissingBacked(r)
  <2> SUFFICES ASSUME NEW r \in Requests
               PROVE  RequestBacked(r) /\ AcceptedBacked(r) /\ MissingBacked(r)
    OBVIOUS
  <2>1. req[r] = x
    BY <1>1
  <2>2. req[r].pc = "idle" /\ req[r].result = "none"
    BY <2>1
  <2> QED
    BY <2>2 DEF RequestBacked, AcceptedBacked, MissingBacked
<1> QED
  BY <1>1, <1>2, <1>4, <1>5, <1>6 DEF JInv

\* The invariant is inductive.
LEMMA StepInv == JInv /\ [Next]_vars => JInv'
<1> SUFFICES ASSUME JInv, [Next]_vars PROVE JInv'
  OBVIOUS
<1>1. ASSUME NEW r \in Requests, Step(r) PROVE JInv'
  BY <1>1, VerifyInv, GetInv, FetchInv, FetchFailsInv, StoreInv, LookupInv DEF Step
<1>2. ASSUME NEW doc \in Documents, Rotate(doc) PROVE JInv'
  BY <1>2, RotateInv
<1>3. CASE Tick
  BY <1>3, TickInv
<1>4. CASE UNCHANGED vars
  <2>1. /\ req' = req /\ keys' = keys /\ loadedAt' = loadedAt /\ now' = now
        /\ served' = served /\ log' = log
    BY <1>4 DEF vars, issuer, cache
  <2>2. CacheBacked'
    BY <2>1, CacheKept
  <2>3. \A r \in Requests : RequestBacked(r)' /\ AcceptedBacked(r)' /\ MissingBacked(r)'
    BY <2>1, OthersKept
  <2> QED
    BY <2>1, <2>2, <2>3 DEF JInv, TypeOK
<1> QED
  BY <1>1, <1>2, <1>3, <1>4 DEF Next

LEMMA InvCorrect == Spec => []JInv
BY InitInv, StepInv, PTL DEF Spec

-----------------------------------------------------------------------------
(* The theorems.                                                           *)

\* The cache, the clock and every request are well typed: no lookup reads a kid
\* that is not in the map, and no unusable entry ever gets into the cache.
THEOREM JwksTypeCorrect == Spec => []TypeOK
<1>1. JInv => TypeOK
  BY DEF JInv
<1> QED
  BY <1>1, InvCorrect, PTL

\* However many requests refresh at once, the cache holds the keys of one document
\* that was served at most FetchTimeout before it was stored.
THEOREM CacheIsOneDocumentCorrect == Spec => []CacheIsOneDocument
<1>1. JInv => CacheIsOneDocument
  <2> SUFFICES ASSUME JInv PROVE CacheIsOneDocument
    OBVIOUS
  <2>1. PICK doc \in Documents : Served(doc, loadedAt - FetchTimeout, loadedAt) /\ keys = Usable(doc)
    BY DEF JInv, CacheBacked
  <2>2. \E t \in 0..now : t >= loadedAt - FetchTimeout /\ doc \in log[t]
    BY <2>1, TimesAssumption DEF Served, JInv, TypeOK
  <2> QED
    BY <2>1, <2>2 DEF JInv, CacheBacked, CacheIsOneDocument, ServedSince
<1> QED
  BY <1>1, InvCorrect, PTL

\* A token is accepted only with a key the issuer published for its kid less than
\* Ttl + FetchTimeout before, whatever order slow answers arrive in.
THEOREM RetiredKeyDiesCorrect == Spec => []RetiredKeyDies
<1>1. JInv => RetiredKeyDies
  <2> SUFFICES ASSUME JInv, NEW r \in Requests, req[r].result = "accepted"
               PROVE  /\ req[r].token.claims
                      /\ \E t \in 0..MaxTime :
                           /\ req[r].at - Ttl - FetchTimeout < t /\ t <= req[r].at
                           /\ \E doc \in log[t] : /\ req[r].token.kid \in DOMAIN doc
                                                  /\ doc[req[r].token.kid] = req[r].token.key
    BY DEF RetiredKeyDies
  <2>1. AcceptedBacked(r) /\ req[r].at \in 0..now /\ now \in 0..MaxTime
    BY DEF JInv, TypeOK
  <2> QED
    BY <2>1, TimesAssumption DEF AcceptedBacked, Served
<1> QED
  BY <1>1, InvCorrect, PTL

\* A kid is refused as unknown only on a document served within FetchTimeout.
THEOREM MissingIsRecentCorrect == Spec => []MissingIsRecent
<1>1. JInv => MissingIsRecent
  BY DEF JInv, MissingBacked, MissingIsRecent, Served
<1> QED
  BY <1>1, InvCorrect, PTL
=============================================================================
