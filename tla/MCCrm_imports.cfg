\* Conversions, edits, deletions, imports and decisions that overlap, raise and crash.
CONSTANTS
  a0 = a0
  House<-MCHouse
  Files<-MCFiles
  Handler = {r1,r2}
  Lead = {l1}
  Conv = {k1,k2}
  Posted = {x1,x2}
  Ticket = {t1}
  MaxFaults = 1
  MaxRequests = 3
  None = None
  Bad = Bad
  Roles <- CsvRoles
  Sellers <- MCSellers
  Lower <- CsvLower
  Stripped <- CsvStripped
  Tags <- CsvTags
  Parts <- CsvParts
  Number <- CsvNumber
  MaxRows = 2
  Written <- CsvWritten
  Uploads <- CsvUploads
  Names = {"X "}
  Start <- CsvStart
  MaxRecords = 2
SPECIFICATION BothSpec
INVARIANTS ConversionWhole ImportedOnce InboxWhole  OnlyWhatTheFileSays
SYMMETRY Interchangeable
CHECK_DEADLOCK FALSE
