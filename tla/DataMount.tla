------------------------------ MODULE DataMount ------------------------------
(***************************************************************************)
(* What is written to /data in the recovery, from the decryption of the    *)
(* metadata to the reboot (subpatch 0004, 0005, 0009, 0010, 0012, 0016,    *)
(* 0017).                                                                  *)
(*                                                                         *)
(* A helper process maps and mounts the encrypted partition; it is killed  *)
(* after a while, wherever it is.  An OTA may have left f2fs with its      *)
(* checkpoint disabled: then all that the recovery writes is rolled back   *)
(* at the next boot, until a remount enables the checkpoint.  With a       *)
(* checkpoint, data reaches the disk with a sync or when the file system   *)
(* is really released, which a lazy unmount does not do.                   *)
(***************************************************************************)
EXTENDS Naturals, Sequences

CONSTANTS
  FileSystems,    \* file systems of /data
  Flags,          \* values of fileencryption= in an fstab, split at ":"
  SubMounts       \* mounts on top of /data

ASSUME FsAssumption == {"f2fs", "ext4"} \subseteq FileSystems
ASSUME FlagsAssumption == \A flag \in Flags : flag \in Seq(STRING) \ {<<>>}

VARIABLES
  phone,          \* the file system of /data, what the fstab says of it,
                  \* and init.svc.vendor.keymint.rust-trusty
  curFs,          \* Current_File_System
  thread,         \* where TWRP's thread is
  mapper,         \* the helper has made the decrypted device
  isDecrypted,    \* Is_Decrypted
  mounted,        \* /data is mounted
  onTop,          \* SubMounts that are mounted
  checkpoint,     \* f2fs writes checkpoints
  mtp, shell,     \* MTP or another process has files of /data open
  unsaved,        \* not on the disk: data written "before" the reboot was
                  \* asked for, and "after"
  lost,           \* the same, not there in the next boot
  warned,         \* the log says that decryption or the checkpoint failed
  lazy,           \* /data was only detached for the reboot
  updated         \* an update was installed

fs == <<phone, curFs, mapper, isDecrypted>>
users == <<mtp, shell>>
vars == <<fs, thread, mounted, onTop, checkpoint, users, unsaved, lost,
          warned, lazy, updated>>

Phones ==
  [fs : FileSystems, fstab : FileSystems, flag : Flags,
   keymint : {"", "running", "stopped"}]

Threads ==
  {"start", "helper", "opened", "up", "asked", "synced", "cleared", "off"}

TypeOK ==
  /\ phone \in Phones
  /\ curFs \in FileSystems
  /\ thread \in Threads
  /\ mapper \in BOOLEAN /\ isDecrypted \in BOOLEAN /\ mounted \in BOOLEAN
  /\ isDecrypted \/ mounted => mapper
  /\ onTop \subseteq SubMounts
  /\ checkpoint \in BOOLEAN
  /\ mtp \in BOOLEAN /\ shell \in BOOLEAN
  /\ unsaved \subseteq {"before", "after"}
  /\ lost \subseteq {"before", "after"}
  /\ warned \in BOOLEAN /\ lazy \in BOOLEAN /\ updated \in BOOLEAN

(* An encrypted partition looks like ext4.  The other cases are those      *)
(* without an OTA in progress and with another file system.                *)
Init ==
  /\ phone \in Phones
  /\ curFs = "ext4"
  /\ thread = "start"
  /\ mapper = FALSE /\ isDecrypted = FALSE /\ mounted = FALSE
  /\ onTop = {}
  /\ checkpoint \in BOOLEAN /\ (phone.fs # "f2fs" => checkpoint)
  /\ mtp = FALSE /\ shell = FALSE
  /\ unsaved = {} /\ lost = {}
  /\ warned = FALSE /\ lazy = FALSE /\ updated = FALSE

-----------------------------------------------------------------------------
(***************************************************************************)
(* The ciphers handed to vold, from the fields of an fstab flag.  Vendors  *)
(* leave names out; Android fills them in.                                 *)
(***************************************************************************)
OrDefault(name, default) == IF name = "" THEN default ELSE name

Contents(flag) == OrDefault(flag[1], "aes-256-xts")

(* Mutant: only a flag without options gets the default.                   *)
FilenamesWithoutOptions(flag) ==
  LET rest == Tail(flag) IN
  IF Len(rest) = 1 THEN <<OrDefault(rest[1], "aes-256-cts")>> ELSE rest

(* What follows the first ":"; the options stay behind the name.           *)
Filenames(flag) ==
  LET rest == Tail(flag) IN
  IF rest = <<>> THEN <<>>
  ELSE <<OrDefault(Head(rest), "aes-256-cts")>> \o Tail(rest)

-----------------------------------------------------------------------------
(***************************************************************************)
(* Decrypt_Data.  A stopped KeyMint is not asked.                          *)
(***************************************************************************)
SkipDecrypt ==
  /\ thread = "start"
  /\ phone.keymint = "stopped"
  /\ thread' = "up"
  /\ curFs' = phone.fstab
  /\ UNCHANGED <<phone, mapper, isDecrypted, mounted, onTop,
                 checkpoint, users, unsaved, lost, warned, lazy, updated>>

ForkHelper ==
  /\ thread = "start"
  /\ phone.keymint # "stopped"
  /\ \/ thread' = "helper" /\ UNCHANGED warned
     \/ thread' = "up" /\ warned' = TRUE        \* fork failed
  /\ curFs' = phone.fstab
  /\ UNCHANGED <<phone, mapper, isDecrypted, mounted, onTop,
                 checkpoint, users, unsaved, lost, lazy, updated>>

HelperMaps ==
  /\ thread = "helper"
  /\ ~mapper
  /\ mapper' = TRUE
  /\ UNCHANGED <<phone, curFs, isDecrypted, thread, mounted, onTop,
                 checkpoint, users, unsaved, lost, warned, lazy, updated>>

HelperMounts ==
  /\ thread = "helper"
  /\ mapper /\ ~mounted
  /\ mounted' = TRUE
  /\ UNCHANGED <<fs, thread, onTop, checkpoint, users, unsaved,
                 lost, warned, lazy, updated>>

(* Mutant: the helper is waited for without a limit; its failure is seen.  *)
HelperFailsUnlimited ==
  /\ thread = "helper"
  /\ ~mapper
  /\ thread' = "up"
  /\ warned' = TRUE
  /\ UNCHANGED <<fs, mounted, onTop, checkpoint, users, unsaved,
                 lost, lazy, updated>>

(* Its time is over: it is killed.  Or it failed, or was killed before.    *)
HelperFails ==
  /\ thread = "helper"
  /\ thread' = "up"
  /\ warned' = TRUE
  /\ UNCHANGED <<fs, mounted, onTop, checkpoint, users, unsaved,
                 lost, lazy, updated>>

HelperSucceeds ==
  /\ thread = "helper"
  /\ mounted
  /\ thread' = "opened"
  /\ isDecrypted' = TRUE
  /\ UNCHANGED <<phone, curFs, mapper, mounted, onTop, checkpoint,
                 users, unsaved, lost, warned, lazy, updated>>

(* Mutant: the file system is not probed again.                            *)
CheckFsTypeForgotten == curFs' = curFs

(* blkid reads the decrypted device.                                       *)
CheckFsType == curFs' = phone.fs

(* The remount enables the checkpoint, or the log says that it could not.  *)
CommitCheckpoint ==
  IF curFs' = "f2fs"
  THEN \/ checkpoint' = TRUE /\ unsaved' = {} /\ UNCHANGED warned
       \/ warned' = TRUE /\ UNCHANGED <<checkpoint, unsaved>>
  ELSE UNCHANGED <<checkpoint, unsaved, warned>>

(* MTP is stopped and, if it is enabled, started again.                    *)
RestartMtp == mtp' \in BOOLEAN

(* Mount finds /data mounted by the helper and does nothing more itself.   *)
FinishDecrypt ==
  /\ thread = "opened"
  /\ thread' = "up"
  /\ CheckFsType
  /\ CommitCheckpoint
  /\ RestartMtp
  /\ UNCHANGED <<phone, mapper, isDecrypted, mounted, onTop, shell,
                 lost, lazy, updated>>

(* A user was decrypted.  /data is mounted when it is not, then MTP is     *)
(* started anew.                                                           *)
PostDecrypt ==
  /\ thread = "up"
  /\ isDecrypted
  /\ mounted' = TRUE
  /\ CheckFsType
  /\ IF mounted THEN UNCHANGED <<checkpoint, unsaved, warned>>
     ELSE CommitCheckpoint
  /\ onTop' = onTop \cup SubMounts
  /\ RestartMtp
  /\ UNCHANGED <<phone, mapper, isDecrypted, thread, shell, lost,
                 lazy, updated>>
-----------------------------------------------------------------------------
(* UnMount and Mount of the file manager and of the mount page.            *)
Busy == onTop # {} \/ mtp \/ shell

(* What a real unmount, or a sync, does to the data written so far.        *)
Flushed == IF checkpoint THEN {} ELSE unsaved

UnMount ==
  /\ thread = "up"
  /\ mounted
  /\ mounted' = FALSE
  /\ onTop' = {}
  /\ unsaved' = IF mtp \/ shell THEN unsaved ELSE Flushed
  /\ UNCHANGED <<fs, thread, checkpoint, users, lost, warned, lazy, updated>>

Mount ==
  /\ thread = "up"
  /\ isDecrypted /\ ~mounted
  /\ mounted' = TRUE
  /\ CheckFsType
  /\ CommitCheckpoint
  /\ onTop' = onTop \cup ({"/sdcard"} \cap SubMounts)
  /\ UNCHANGED <<phone, mapper, isDecrypted, thread, users, lost, lazy,
                 updated>>

(* A shell, a script or a file transfer opens files, writes and closes.    *)
OpenFiles ==
  /\ thread # "off"
  /\ mounted /\ ~shell
  /\ shell' = TRUE
  /\ UNCHANGED <<fs, thread, mounted, onTop, checkpoint, mtp, unsaved, lost,
                 warned, lazy, updated>>

CloseFiles ==
  /\ thread # "off"
  /\ shell
  /\ shell' = FALSE
  /\ unsaved' = IF mounted THEN unsaved ELSE Flushed
  /\ UNCHANGED <<fs, thread, mounted, onTop, checkpoint, mtp, lost, warned,
                 lazy, updated>>

Write ==
  /\ thread # "off"
  /\ mtp \/ shell
  /\ unsaved' = unsaved \cup
       {IF thread \in {"helper", "opened", "up"} THEN "before" ELSE "after"}
  /\ UNCHANGED <<fs, thread, mounted, onTop, checkpoint, users, lost, warned,
                 lazy, updated>>

-----------------------------------------------------------------------------
(***************************************************************************)
(* An update is installed.  Its package may ask for a wipe of /data; it    *)
(* may be partial; its security patch level, and the time stamps of its    *)
(* partitions may be older than the system's, or not be valid.             *)
(***************************************************************************)
Packages == [powerwash : BOOLEAN, partial : BOOLEAN, oldLevel : BOOLEAN,
             oldPartition : BOOLEAN, badPartition : BOOLEAN]

(* Does it wipe?  The package's wish is only logged.                       *)
PerformPowerwashIfRequired(p) == FALSE

(* Does it write --wipe_data for the next boot?                            *)
SchedulePowerwash(p) == FALSE

ViolatesSPLDowngrade(p) == FALSE

CheckSPLDowngrade(p) == TRUE

(* The maximal time stamp of a full package is only compared for the log.  *)
CheckTimestamps(p) == ~p.badPartition /\ ~(p.partial /\ p.oldPartition)

Install(p) ==
  /\ thread = "up"
  /\ ~ViolatesSPLDowngrade(p)
  /\ CheckSPLDowngrade(p)
  /\ CheckTimestamps(p)
  /\ lost' = IF PerformPowerwashIfRequired(p) \/ SchedulePowerwash(p)
             THEN {"before"} ELSE lost
  /\ updated' = TRUE
  /\ UNCHANGED <<fs, thread, mounted, onTop, checkpoint, users, unsaved,
                 warned, lazy>>

-----------------------------------------------------------------------------
(***************************************************************************)
(* The reboot: /sdcard, sync, MTP, what is mounted on top, /data.          *)
(***************************************************************************)
AskReboot ==
  /\ thread = "up"
  /\ thread' = "asked"
  /\ \/ onTop' = onTop \ {"/sdcard"}
     \/ shell /\ UNCHANGED onTop
  /\ UNCHANGED <<fs, mounted, checkpoint, users, unsaved, lost, warned, lazy,
                 updated>>

Sync == unsaved' = Flushed

SyncBeforeReboot ==
  /\ thread = "asked"
  /\ thread' = "synced"
  /\ Sync
  /\ UNCHANGED <<fs, mounted, onTop, checkpoint, users, lost, warned, lazy,
                 updated>>

(* Mutant: MTP goes on.                                                    *)
ClearDataKeepingMtp == onTop' = {} /\ UNCHANGED mtp

(* What cannot be unmounted is detached.                                   *)
ClearData == mtp' = FALSE /\ onTop' = {}

ClearBeforeReboot ==
  /\ thread = "synced"
  /\ thread' = "cleared"
  /\ IF mounted THEN ClearData ELSE UNCHANGED <<mtp, onTop>>
  /\ UNCHANGED <<fs, mounted, checkpoint, shell, unsaved, lost, warned, lazy,
                 updated>>

(* A busy /data is detached, and keeps what was written after the sync     *)
(* from the disk.                                                          *)
Reboot ==
  /\ thread = "cleared"
  /\ thread' = "off"
  /\ mounted' = FALSE
  /\ lazy' = (mounted /\ Busy)
  /\ unsaved' = IF Busy THEN unsaved ELSE Flushed
  /\ lost' = lost \cup unsaved'
  /\ UNCHANGED <<fs, onTop, checkpoint, users, warned, updated>>

-----------------------------------------------------------------------------
Decrypting ==
  \/ SkipDecrypt
  \/ ForkHelper
  \/ HelperFails
  \/ FinishDecrypt

Helper == HelperMaps \/ HelperMounts \/ HelperSucceeds

Rebooting == SyncBeforeReboot \/ ClearBeforeReboot \/ Reboot

Next ==
  \/ Decrypting
  \/ Helper
  \/ PostDecrypt
  \/ UnMount
  \/ Mount
  \/ OpenFiles
  \/ CloseFiles
  \/ Write
  \/ \E p \in Packages : Install(p)
  \/ AskReboot
  \/ Rebooting

Spec == Init /\ [][Next]_vars

(* TWRP's thread runs; the helper's time is over at some moment.           *)
FairSpec == Spec /\ WF_vars(Decrypting) /\ WF_vars(Rebooting)

-----------------------------------------------------------------------------
(***************************************************************************)
(* What was written before the reboot was asked for is there in the next   *)
(* boot, whatever an OTA left behind, whoever holds files open then and    *)
(* whatever package was installed -- unless the log says that decryption   *)
(* was cut off or that the checkpoint could not be enabled.                *)
(***************************************************************************)
WrittenSurvives == "before" \in lost => warned

(***************************************************************************)
(* /data is only detached for the reboot when a process that TWRP does not *)
(* know has files open: neither MTP nor a mount on top of it is in the     *)
(* way.  What is written while the reboot is under way is lost only to     *)
(* such a process, to MTP writing to a /data that was unmounted under it   *)
(* before, or with a warning in the log.                                   *)
(***************************************************************************)
OnlyOthersHoldData ==
  /\ lazy => shell /\ ~mtp
  /\ "after" \in lost => shell \/ mtp \/ warned

(***************************************************************************)
(* The names left out of a flag are filled in, the others and the options  *)
(* are handed on as they are.  A flag without ":" has no field for the     *)
(* cipher of the names, which stays empty for vold to fill in.             *)
(***************************************************************************)
CiphersAreNamed ==
  LET flag == phone.flag
      handedOn == <<Contents(flag)>> \o Filenames(flag)
      default == <<"aes-256-xts", "aes-256-cts">>
  IN  /\ Len(handedOn) = Len(flag)
      /\ \A i \in 1 .. Len(flag) :
            handedOn[i] = IF i <= 2 /\ flag[i] = "" THEN default[i] ELSE flag[i]

(***************************************************************************)
(* TWRP comes up although KeyMint never answers the helper, and reboots    *)
(* although /data is busy.                                                 *)
(***************************************************************************)
NeverStuck == thread \in {"start", "helper", "opened", "asked", "synced",
                          "cleared"} ~> thread \in {"up", "off"}
=============================================================================
