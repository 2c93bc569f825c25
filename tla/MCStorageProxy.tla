--------------------------- MODULE MCStorageProxy ---------------------------
(* Instances of StorageProxy for TLC.                                      *)
EXTENDS StorageProxy, TLC

FileSymmetry == Permutations(Names) \cup Permutations(Vals)
=============================================================================
