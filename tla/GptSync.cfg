\* Healthy disks whose power fails, damaged ones, and disks whose reads fail;
\* kills and failed writes on all.
CONSTANTS
  NBlocks = 2
  Vals = {u, v}
  Zero = Zero
  Junk = Junk
  NoTable = NoTable
  InitDisks <- AllDisks
  Leftovers = {"good", "junk"}
  Faults = {"none", "power", "reads"}
  WriteErrors = TRUE
SPECIFICATION Spec
INVARIANTS OneValidCopy WrittenSyncHeals SyncIsDurable
PROPERTIES RefusedHeaderKeepsEntries ImplementsGptCell
