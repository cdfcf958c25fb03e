SPECIFICATION MCSpec
CONSTANTS
  n1 = n1
  n2 = n2
  n3 = n3
  k1 = k1
  v1 = v1
  v2 = v2
  r1 = r1
  Server <- MCServer
  Command <- SameId
  Key = {}
  NoOp <- NoOpCommand
  Empty = Empty
  NoId = NoId
  Missing = Missing
  Nobody = Nobody
  MaxTerm = 2
  MaxIndex = 4
  MaxReadId = 3
  MaxBatch = 4
  MaxPending = 2
  Plans <- Retrying
CONSTRAINTS Budget NoLimit
CHECK_DEADLOCK FALSE
INVARIANTS PendingIsTracked CommittedTookEffect
