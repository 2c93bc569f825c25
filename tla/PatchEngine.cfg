\* Two subpatches with two changes each.
CONSTANTS
  Files = {install, partition}
  Changes = 2
  None = None
SPECIFICATION Spec
INVARIANTS AppliedOrReported
PROPERTY PatchedOnce
