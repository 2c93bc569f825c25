\* Every kind of flag, file system and mount on top of /data.
CONSTANTS
  FileSystems = {"f2fs", "ext4"}
  Flags <- FstabFlags
  SubMounts = {"/sdcard", "/data/user/0"}
SPECIFICATION FairSpec
CHECK_DEADLOCK FALSE
INVARIANTS WrittenSurvives  CiphersAreNamed
PROPERTY NeverStuck
