\* Many boots, a snapshot with failed copies, healing check switched.
CONSTANTS
  Files = {bin, manifest, list}
  Manifest = manifest
  List = list
  Broken = Broken
  None = None
  CopyErrors = 1
  Switches <- OnAfterErrors
SPECIFICATION Spec
INVARIANTS TypeOK OneBootable SlotsStayPacked SuccessIsWhatBooted SuccessHealsFstab
CHECK_DEADLOCK FALSE
