------------------------------- MODULE JwksCache ------------------------------
(***************************************************************************)
(* Token verification: the bearer middleware, Verifier.Verify and the JWKS *)
(* cache that concurrent requests read and refresh.                        *)
(*                                                                         *)
(* A request goes idle -> get -> (fetch -> store -> lookup ->) done.  Time *)
(* passes while a request waits for the JWKS endpoint, at most until the   *)
(* HTTP client's timeout, which covers the whole exchange; the steps       *)
(* between two operations of the mutex take no time.  A JWKS document maps *)
(* kids to keys; Unusable stands for an entry that is not RSA or does not  *)
(* decode.                                                                 *)
(***************************************************************************)
EXTENDS Integers

CONSTANTS
  Requests, Kids, Keys,
  Tokens,       \* bearer tokens: see Token
  Documents,    \* documents the endpoint may serve
  Ttl,          \* 5 minutes
  FetchTimeout, \* 10 seconds
  MaxTime,      \* bound: the clock
  Unusable, NoDocument

VARIABLES
  now,      \* the clock
  served,   \* the document the endpoint serves now (external)
  log,      \* per time: documents served during it (history)
  keys,     \* jwksCache.keys
  loadedAt, \* jwksCache.loadedAt
  req       \* per request: where it is, its token, fetch start, answer and result

cache == <<keys, loadedAt>>
issuer == <<served, log>>
vars == <<now, issuer, cache, req>>

(* A token names a kid and was signed with a key; claims stands for issuer,  *)
(* audience, expiry and a subject that is a UUID.                            *)
Token == [bearer : BOOLEAN, rsa : BOOLEAN, kid : Kids, key : Keys, claims : BOOLEAN]
KeyMap == UNION {[S -> Keys] : S \in SUBSET Kids}
Document == UNION {[S -> Keys \cup {Unusable}] : S \in SUBSET Kids}
PCs == {"idle", "get", "fetch", "store", "lookup", "done"}
Results == {"none", "accepted", "unauthorized", "error", "missing"}

ASSUME TimesAssumption == Ttl \in Nat \ {0} /\ FetchTimeout \in Nat /\ MaxTime \in Nat
ASSUME InputsAssumption == Tokens # {} /\ Tokens \subseteq Token /\ Documents \subseteq Document
ASSUME NamesAssumption == Unusable \notin Keys /\ NoDocument \notin Documents

\* The RSA keys of a document that decode, by kid.
Usable(doc) == [k \in {k \in DOMAIN doc : doc[k] # Unusable} |-> doc[k]]

-----------------------------------------------------------------------------
(* The cache.                                                              *)

\* Mutant: keys are used however old they are.
AlwaysFresh == TRUE
Fresh == now - loadedAt < Ttl

Hit(kid) == kid \in DOMAIN keys /\ Fresh

\* Mutant: the new keys are added to the ones that are there.
Merged(doc) == [k \in DOMAIN keys \cup DOMAIN Usable(doc) |->
                  IF k \in DOMAIN Usable(doc) THEN doc[k] ELSE keys[k]]
\* What refresh puts in the place of the old map.
Replacement(doc) == Usable(doc)

-----------------------------------------------------------------------------
(* Requests.                                                               *)

Done(r, result) ==
  req' = [req EXCEPT ![r] = [pc |-> "done", token |-> @.token, start |-> 0,
                             doc |-> NoDocument, result |-> result, at |-> now]]

\* ParseWithClaims checks the signature with the key it got, then the claims.
Verified(r, key) == req[r].token.key = key /\ req[r].token.claims
Judge(r, key) == Done(r, IF Verified(r, key) THEN "accepted" ELSE "unauthorized")

\* Middleware and the key function's checks, up to the cache.
Verify(r, t) ==
  /\ req[r].pc = "idle"
  /\ req' = [req EXCEPT ![r].token = t, ![r].at = now,
               ![r].pc = IF t.bearer /\ t.rsa THEN "get" ELSE "done",
               ![r].result = IF t.bearer /\ t.rsa THEN "none" ELSE "unauthorized"]
  /\ UNCHANGED <<now, issuer, cache>>

\* Mutant: an unknown kid is refused without a refresh.
GetWithoutRefresh(r) ==
  LET kid == req[r].token.kid IN
    /\ req[r].pc = "get"
    /\ CASE Hit(kid) -> Judge(r, keys[kid])
         [] kid \notin DOMAIN keys -> Done(r, "missing")
         [] OTHER -> req' = [req EXCEPT ![r].pc = "fetch", ![r].start = now]
    /\ UNCHANGED <<now, issuer, cache>>
\* The read under RLock; an unknown kid or an old map starts a refresh.
Get(r) ==
  LET kid == req[r].token.kid IN
    /\ req[r].pc = "get"
    /\ IF Hit(kid) THEN Judge(r, keys[kid])
       ELSE req' = [req EXCEPT ![r].pc = "fetch", ![r].start = now]
    /\ UNCHANGED <<now, issuer, cache>>

\* The endpoint answers; the answer is on its way until Store.
Fetch(r) ==
  /\ req[r].pc = "fetch"
  /\ req' = [req EXCEPT ![r].pc = "store", ![r].doc = served]
  /\ UNCHANGED <<now, issuer, cache>>

\* A transport error, a timeout, a status other than 2xx or a body that does not
\* decode: the cache is left as it is.
FetchFails(r) ==
  /\ req[r].pc \in {"fetch", "store"}
  /\ Done(r, "error")
  /\ UNCHANGED <<now, issuer, cache>>

\* The map and loadedAt are replaced under the lock, or nothing is.
Store(r) ==
  /\ req[r].pc = "store"
  /\ IF DOMAIN Usable(req[r].doc) = {}
     THEN Done(r, "error") /\ UNCHANGED cache
     ELSE /\ keys' = Replacement(req[r].doc) /\ loadedAt' = now
          /\ req' = [req EXCEPT ![r].pc = "lookup"]
  /\ UNCHANGED <<now, issuer>>

\* The second read: another request may have stored its answer in between.
Lookup(r) ==
  LET kid == req[r].token.kid IN
    /\ req[r].pc = "lookup"
    /\ IF kid \in DOMAIN keys THEN Judge(r, keys[kid]) ELSE Done(r, "missing")
    /\ UNCHANGED <<now, issuer, cache>>

-----------------------------------------------------------------------------
(* The issuer and the clock.                                               *)

Rotate(doc) ==
  /\ doc # served
  /\ served' = doc /\ log' = [log EXCEPT ![now] = @ \cup {doc}]
  /\ UNCHANGED <<now, cache, req>>

\* No tick while a request is between two operations of the mutex, or has been
\* waiting for the endpoint for as long as the client allows.
Tick ==
  /\ now < MaxTime
  /\ \A r \in Requests : /\ req[r].pc \notin {"get", "lookup"}
                         /\ req[r].pc \in {"fetch", "store"} => now - req[r].start < FetchTimeout
  /\ now' = now + 1
  /\ log' = [log EXCEPT ![now + 1] = {served}]
  /\ UNCHANGED <<served, cache, req>>

-----------------------------------------------------------------------------
\* NewVerifier has loaded the keys, or the process would not have started.
Init ==
  /\ now = 0
  /\ served \in {doc \in Documents : DOMAIN Usable(doc) # {}}
  /\ log = [t \in 0..MaxTime |-> IF t = 0 THEN {served} ELSE {}]
  /\ keys = Usable(served) /\ loadedAt = 0
  /\ req = [r \in Requests |-> [pc |-> "idle", token |-> CHOOSE t \in Tokens : TRUE, start |-> 0,
                               doc |-> NoDocument, result |-> "none", at |-> 0]]

Step(r) == \/ \E t \in Tokens : Verify(r, t)
           \/ Get(r) \/ Fetch(r) \/ FetchFails(r) \/ Store(r) \/ Lookup(r)
Next == (\E r \in Requests : Step(r)) \/ (\E doc \in Documents : Rotate(doc)) \/ Tick

Spec == Init /\ [][Next]_vars

-----------------------------------------------------------------------------
(* Properties.                                                             *)

TypeOK ==
  /\ now \in 0..MaxTime /\ served \in Documents
  /\ log \in [0..MaxTime -> SUBSET Documents]
  /\ keys \in KeyMap /\ loadedAt \in 0..now
  /\ req \in [Requests -> [pc : PCs, token : Tokens, start : 0..now,
                           doc : Documents \cup {NoDocument}, result : Results, at : 0..now]]

ServedSince(from, P(_)) == \E t \in 0..now : t >= from /\ \E doc \in log[t] : P(doc)

\* The cache holds the usable keys of one document, never none and never a mixture,
\* and that document was served at most FetchTimeout before it was stored:
\* requests that refresh at the same time cannot do worse than the slower one.
CacheIsOneDocument ==
  /\ DOMAIN keys # {}
  /\ ServedSince(loadedAt - FetchTimeout, LAMBDA doc : keys = Usable(doc))

\* A token is accepted only if the issuer published its key under its kid less
\* than Ttl + FetchTimeout ago: a retired key dies out, also when a slow answer
\* with the old document overwrites a newer one.
RetiredKeyDies ==
  \A r \in Requests : req[r].result = "accepted" =>
    /\ req[r].token.claims
    /\ \E t \in 0..MaxTime :
         /\ req[r].at - Ttl - FetchTimeout < t /\ t <= req[r].at
         /\ \E doc \in log[t] : /\ req[r].token.kid \in DOMAIN doc
                                /\ doc[req[r].token.kid] = req[r].token.key

\* A kid is called unknown only if the endpoint served a document without a usable
\* key for it within FetchTimeout: never from an old map.
MissingIsRecent ==
  \A r \in Requests : req[r].result = "missing" =>
    \E t \in 0..MaxTime :
      /\ req[r].at - FetchTimeout <= t /\ t <= req[r].at
      /\ \E doc \in log[t] : req[r].token.kid \notin DOMAIN Usable(doc)
=============================================================================
