\* Publishes, clones, deletions, new defaults and new projects that overlap and crash; documents
\* supplied and revised at once; a tenant of each version seeded by runs that crash and overlap.
CONSTANTS
  standard = standard
  c1 = c1
  Config<-MCConfig
  Standard = standard
  Req = {r1, r2}
  MaxVersion = 3
  MaxPins = 1
  MaxFaults = 1
  MaxOverlaps = 1
  Writer = {r1, r2}
  File = {f1}
  DocGate = {g1,g2}
  MaxDocs = 2
  MaxWrites = 4
  MaxBreaks = 1
  Seeder = {r1, r2}
  StageKey = {k1}
  OldKey = {k0}
  GateKey = {g1}
  RoleKey = {p1}
  MaxSeeds = 3
  MaxPatches = 1
  MaxCrashes = 1
SPECIFICATION ProjectsSpec
INVARIANTS VersionOfOnePublish PinnedWhole OneDefault EvidenceKept DefinitionsKept
SYMMETRY Interchangeable
CHECK_DEADLOCK FALSE
