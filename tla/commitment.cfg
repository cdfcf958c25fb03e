SPECIFICATION MCSpec
CONSTANTS
  n1 = n1
  n2 = n2
  n3 = n3
  Server <- MCServer
  Command = {}
  NoOp = NoOp
  Nobody = Nobody
  MaxTerm = 4
  MaxIndex = 2
  MaxReadId = 1
  MaxBatch = 1
  Plans <- Committing
CONSTRAINTS Budget NoLimit
CHECK_DEADLOCK FALSE
INVARIANTS ElectionSafety RequestsUsable LeaderCompleteness
PROPERTIES ReplicatedSpec
