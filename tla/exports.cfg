SPECIFICATION Spec
CONSTANTS
  d1 = d1
  m1 = m1
  l1 = l1
  Downloads = {d1}
  Managed = {m1}
  Local = {l1}
  Keep = 2
  MaxStorage = 2
  Behind = {}
  Saved = {m1}
  Disturbances = {"reply", "census", "offline", "unlock", "timeout", "import", "resend", "instance", "controller"}
  MaxFaults = 1
INVARIANTS TypeOK TransferAsAnswered LockedExportCached
PROPERTIES RequestSettles
CHECK_DEADLOCK FALSE
