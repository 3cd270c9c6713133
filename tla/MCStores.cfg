CONSTANTS
  Parts = {"history", "audit"}
  Procs = {p1}
  Servers = {p1}
  Retention = 1
  MaxRecords = 3
  Worlds <- HistoryWorlds
  MaxOps = 8
  MaxClears = 2
  AuditWorlds <- AllAuditWorlds
  MaxDay = 3
  MaxLines = 4
  MaxShifts = 4
  None = None
  Absent = Absent
SPECIFICATION StoresSpec
INVARIANTS ChainHolds NothingLost MemoryTracksFile IndexStable AuditKept
CHECK_DEADLOCK FALSE
