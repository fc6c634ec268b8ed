---------------------------- MODULE MCRealtimeHub -----------------------------
(***************************************************************************)
(* Small instances of RealtimeHub.                                         *)
(***************************************************************************)
EXTENDS RealtimeHub, TLC

CONSTANTS c1, c2, phone, laptop, desk, ann, bob

\* Two requests of ann's phone, whose changes come from her laptop, and bob's desk.
TwoPhones == c1 :> phone @@ c2 :> phone
OneUser == phone :> ann @@ laptop :> ann
TwoUsers == phone :> ann @@ laptop :> ann @@ desk :> bob
PhoneSymmetry == Permutations(Conns)

\* Revocation matters to a device that connects.
HubNext == \/ Process \/ Shutdown \/ Revoke(phone)
           \/ \E k \in Cursors, d \in Devices : Publish(k, d)
HubSpec == Init /\ [][HubNext]_vars

\* Changes made on the laptop while the phone reconnects and the process stops;
\* the second change comes only to a process that does not stop.
LiveNext == \/ Process
            \/ DOMAIN published \subseteq {1} /\ Shutdown
            \/ \E k \in IF stage = "running" THEN Cursors ELSE {1} : Publish(k, laptop)
LiveSpec == Init /\ [][LiveNext]_vars /\ Fairness
=============================================================================
