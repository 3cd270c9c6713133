CONSTANTS
  Parts = {"history"}
  Procs = {p1}
  Servers = {p1}
  Retention = 1
  MaxRecords = 3
  Worlds <- DeletionWorlds
  MaxOps = 5
  MaxClears = 1
  AuditWorlds <- OpenWorlds
  MaxDay = 2
  MaxLines = 3
  MaxShifts = 2
  None = None
  Absent = Absent
SPECIFICATION StoresSpec
INVARIANTS DeletionRecovered
CHECK_DEADLOCK FALSE
