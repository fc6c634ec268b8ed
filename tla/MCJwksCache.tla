------------------------------ MODULE MCJwksCache -----------------------------
(***************************************************************************)
(* A small instance of JwksCache: the issuer moves from one key to another *)
(* and may serve a document whose only entry is not usable.                *)
(***************************************************************************)
EXTENDS JwksCache, TLC

CONSTANTS old, new, k1, k2, r3

Good(kid, key) == [bearer |-> TRUE, rsa |-> TRUE, kid |-> kid, key |-> key, claims |-> TRUE]
SomeTokens == {Good(old, k1), Good(new, k2),
               [Good(old, k1) EXCEPT !.bearer = FALSE], [Good(old, k1) EXCEPT !.claims = FALSE]}
Rotations == {old :> k1, new :> k2, old :> Unusable}

\* Two requests overlap, with any tokens and documents.  Where their tokens were good
\* and the issuer only went from one key to the other, a third comes when they are
\* answered and uses the cache they have left behind.
GoodTokens == {Good(old, k1), Good(new, k2)}
GoodDocuments == {old :> k1, new :> k2}
Answered == /\ \A r \in Requests \ {r3} : req[r].pc = "done" /\ req[r].token \in GoodTokens
            /\ UNION {log[t] : t \in 0..now} \subseteq GoodDocuments
PartsNext == \/ \E r \in Requests \ {r3} : Step(r)
             \/ Answered /\ Step(r3) /\ req'[r3].token \in GoodTokens
             \/ \E doc \in IF req[r3].pc = "idle" THEN Documents ELSE GoodDocuments : Rotate(doc)
             \/ Tick
PartsSpec == Init /\ [][PartsNext]_vars
RequestSymmetry == Permutations(Requests \ {r3})
=============================================================================
