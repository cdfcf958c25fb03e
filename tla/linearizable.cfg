SPECIFICATION MCSpec
CONSTANTS
  n1 = n1
  n2 = n2
  n3 = n3
  k1 = k1
  v1 = v1
  v2 = v2
  r1 = r1
  Server <- MCServer
  Command <- FromConsole
  Key = {k1}
  NoOp <- NoOpCommand
  Empty = Empty
  NoId = NoId
  Missing = Missing
  Nobody = Nobody
  MaxTerm = 2
  MaxIndex = 3
  MaxReadId = 2
  MaxBatch = 1
  MaxPending = 2
  Plans <- Reading
CONSTRAINTS Budget NoLimit
CHECK_DEADLOCK FALSE
INVARIANTS PendingIsTracked ReadsLinearizable ReadIdsNameOneRead
PROPERTIES ReadsAreFresh
