--------------------------- MODULE MCSnapshotWorker ---------------------------
(***************************************************************************)
(* Small instances of SnapshotWorker.                                      *)
(***************************************************************************)
EXTENDS SnapshotWorker, TLC

CONSTANTS w1, w2

(* Readers write nothing and read nothing workers write: a behaviour has the *)
(* ones or the others.                                                      *)
ReadersOff == answers = {} /\ \A r \in Readers : reader[r].pc = "idle"
WorkersOff == /\ snapshots = {} /\ \A w \in Workers : worker[w].pc = "idle"
              /\ \A j \in DOMAIN jobs : jobs[j].lock = "none" /\ jobs[j].due

(* A third worker takes part while there is one version to work on.  It is   *)
(* owed nothing: the jobs complete without it.                              *)
Third == Workers \ {w1, w2}
ThirdIdle == \A w \in Third : worker[w].pc = "idle"
Active == IF \A n \in Notes : version[n] <= 1 THEN Workers ELSE {w1, w2}

PartsNext ==
  \/ ThirdIdle /\ \E n \in Notes, edits \in BOOLEAN : Push(n, edits)
  \/ ReadersOff /\ \E w \in Active : ProcessOnce(w) \/ Faults(w)
  \/ \E j \in JobIds : Time(j)
  \/ WorkersOff /\ \E r \in Readers : Read(r)

PartsSpec == Init /\ [][PartsNext]_vars /\ Fairness({w1, w2})
=============================================================================
