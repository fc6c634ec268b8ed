CHECK_DEADLOCK FALSE
SPECIFICATION Spec
CONSTANTS
  Notes = {n1}
  w1 = w1  w2 = w2
  Workers = {w1}
  Readers = {r1}
  Threshold = 1
  MaxVersion = 2
  MaxFaults = 1
  NoJob = NoJob  NoNote = NoNote
INVARIANTS
  AnswersConsistent
