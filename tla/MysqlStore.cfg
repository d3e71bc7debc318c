SPECIFICATION MCSpec
CONSTANTS
    Sessions = {s1, s2}
    Callers = {a, b}
    Members = {1, 2}
    Requests = {q1, q2}
    MaxEvents = 2
    Nobody = Nobody
    NoRow = NoRow
    \* Replenishment
    Count = 2
    NameCapacity = 5
    Batch = 3
    ScanLimit = 2
    Targets = {3}
    Caps = {2, 3}
    MaxEdits = 1
    \* PoolImport
    Imports = {"a", "b"}
    Backups <- MCBackups
    CopyTables = 1
    NoSettings = NoSettings
    NoHolder = NoHolder
    \* DirectImport
    Runs = {"r1", "r2", "r3"}
    RunRows <- MCRunRows
    RunSource <- MCRunSource
    ProxyRows = {3, 4}
SYMMETRY Symmetry
INVARIANTS StoreIsSafe NoLockCycle CopiesAreWhole
PROPERTIES GrowthIsSafe
CHECK_DEADLOCK FALSE
