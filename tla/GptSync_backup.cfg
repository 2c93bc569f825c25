\* A disk whose backup header was zeroed.
CONSTANTS
  NBlocks = 1
  Vals = {u, v}
  Zero = Zero
  Junk = Junk
  NoTable = NoTable
  InitDisks <- BackupDamaged
  Leftovers = {"junk"}
  Faults = {"none"}
  WriteErrors = FALSE
SPECIFICATION Spec
PROPERTIES BadBackupIsTolerated
