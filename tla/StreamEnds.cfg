SPECIFICATION Spec
CONSTANTS
  Turns = {t1, t2}
  Conversations = {c1}
  Nobody = Nobody
  CommitsFirst = FALSE
  Faults = {"caught", "disconnect"}
SYMMETRY Symmetry
INVARIANT EndedTurnsAreFinal
CHECK_DEADLOCK FALSE
