SPECIFICATION Spec
CONSTANTS
  p1 = p1
  p2 = p2
  Process = {p1, p2}
  NoProcess = NoProcess
  Dead = Dead
  BlockSize = 3
  HeaderSize = 1
  RecordSize = 1
  IndexSizes = {0, 2}
  IndexHeaderSize = 1
  EntrySize = 1
  Modulus = 16
  MaxRecords = 2
  MaxDeletes = 2
  MaxCommits = 2
  MaxCrashes = 1
  MaxFaults = 2
SYMMETRY Symmetric
CHECK_DEADLOCK FALSE
INVARIANTS TypeOK IndexAgrees SanityHolds EntriesFit
PROPERTIES CommitNeverThrows ImplementsLog
