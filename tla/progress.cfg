SPECIFICATION TSpec
CONSTANTS
  n1 = n1
  n2 = n2
  n3 = n3
  c1 = c1
  Server <- MCServer
  Up <- Pair
  Command = {c1}
  NoOp = NoOp
  Nobody = Nobody
  MaxTerm = 4
  MaxIndex = 9
  MaxReadId = 2
  MaxBatch = 1
  Disks <- MCDisks
  Delays = {2}
  Heartbeat = 1
  MaxBacklog = 2
  Early <- MCEarly
  Restarts = {n2}
  MaxLength = 3
  Readers = {n2}
  MaxReads = 1
CHECK_DEADLOCK FALSE
INVARIANTS NobodyStops
PROPERTIES Converges ReadsEnd LeadershipLasts
