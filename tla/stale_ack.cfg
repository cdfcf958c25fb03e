SPECIFICATION MCSpec
CONSTANTS
  n1 = n1
  n2 = n2
  n3 = n3
  Server <- MCServer
  Command = {c1}
  NoOp = NoOp
  Nobody = Nobody
  MaxTerm = 2
  MaxIndex = 5
  MaxReadId = 1
  MaxBatch = 4
  Plans <- Acknowledging
CONSTRAINTS Budget NoLimit
CHECK_DEADLOCK FALSE
INVARIANTS StaleAcksRejected
