\* What becomes of the flag in /sdcard.
CONSTANTS
  Files = {bin, manifest, list}
  Manifest = manifest
  List = list
  Broken = Broken
  None = None
  CopyErrors = 0
  Switches <- OnAfterErrors
SPECIFICATION Spec
INVARIANTS SdcardFlagIsCarried
CHECK_DEADLOCK FALSE
