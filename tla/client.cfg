SPECIFICATION Spec
CONSTANTS
  Wait = 1
  Attempt = 13
  Deadline = 107
INVARIANTS NodesTakeTurns FindsLeader
PROPERTIES Terminates
