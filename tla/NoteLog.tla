------------------------------- MODULE NoteLog -------------------------------
(***************************************************************************)
(* What push sync promises, without transactions, locks or retries: every  *)
(* note has a version and a log of operations, and one atomic step of one  *)
(* device appends a batch to some notes, each of which gets the next       *)
(* version.  An operation enters the log at most once.                     *)
(***************************************************************************)
EXTENDS Naturals

CONSTANTS Notes

VARIABLES
  version,  \* each note's version, 0 before it exists
  log       \* [note, version, device, id] entries

Init ==
  /\ version = [n \in Notes |-> 0]
  /\ log = {}

\* One request commits a batch for each note of S.
Append(S) ==
  LET new == log' \ log IN
    /\ version' = [n \in Notes |-> IF n \in S THEN version[n] + 1 ELSE version[n]]
    /\ log \subseteq log'
    /\ \A n \in S : \E e \in new : e.note = n
    /\ \A e \in new : e.note \in S /\ e.version = version[e.note] + 1
    /\ \A e, f \in new : e.device = f.device
    /\ \A e \in new : \A f \in log : e.device # f.device \/ e.id # f.id

Next == \E S \in SUBSET Notes : Append(S)

Spec == Init /\ [][Next]_<<version, log>>
=============================================================================
