SPECIFICATION Spec
CONSTANTS
  u1 = u1
  u2 = u2
  f1 = f1
  k1 = k1
  Ops = {u1, u2}
  Files = {f1}
  Keys = {k1}
  Key <- MCKey
  Chunks <- MCChunks
  MaxChunks = 3
  Payload <- MCPayload
  Overlap = FALSE
  Overtaking = FALSE
  Disturbances = {"lost_reply", "lost_command", "lost_session", "lost_event", "controller", "game", "prune"}
  MaxFaults = 1
INVARIANTS TypeOK HistoryIsOutcome
PROPERTIES DeliveredIsQueued OperationSettles
CHECK_DEADLOCK FALSE
