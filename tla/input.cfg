SPECIFICATION Spec
CONSTANTS
  NoId = NoId
  max_client_request_size = 17
  max_client_frame_size = 33
  max_raft_frame_size = 128
  Me = 1
  Requests <- MCRequests
  Envelopes <- MCEnvelopes
  Entries <- MCEntries
  Values <- MCValues
  Scripts <- MCScripts
  MaxLine = 16
  Chunk = 8
INVARIANTS TakenAsSent BlockCutsLink AnswersUnderstood ExitCodesHonest LinesWhole FramesBounded
CHECK_DEADLOCK FALSE
