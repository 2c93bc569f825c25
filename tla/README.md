# Verification of the Pixel recovery device tree

TLA+ models, model-checking configurations and machine-checked proofs for the
programs in this repository: the parts of an OrangeFox/TWRP recovery for
Tensor Pixels (gs201, zuma, zumapro) that are written or changed here.

Contents

1. The system and its components (inventory)
2. Modules and how they correspond to the code
3. Runs: what is checked, with which bounds
4. Fairness
5. Theorems
6. Disagreements between code and its comments
7. What is not modelled, and why
8. Plan

Run from this directory: `tlc -config BootControl.cfg MCBootControl`
checks a run, `tlapm BootControl_proofs.tla` checks the proofs of a module.

## 1. The system and its components

The repository builds a recovery ramdisk. At boot, `init` runs the recovery's
own first-stage hook (snapshot and decompression of the ramdisk), the shell
script `runatboot.sh` (device detection, vendor modules), and the services of
`init.recovery.*.rc`: the storage proxy for Trusty, KeyMint, Weaver, the boot
control HAL. The recovery then mounts and decrypts `/data`, and offers
operations to the user: install, switch slot, reflash itself.

| Component | State | Operations | Talks to |
|---|---|---|---|
| Boot control HAL (`pixel-source/bootctrl/1.2/BootControl.cpp`, `DevInfo.h`, `service.cpp`) | devinfo partition, a static copy of it per process, boot LUN attribute, anti-rollback fuses | `setActiveBootSlot`, `markBootSuccessful`, `setSlotAsUnbootable`, queries | update engine, recovery UI (HIDL, or loaded into the client), GPT reader, sysfs, Trusty AR devices |
| GPT reader/writer (`GptUtils.cpp`) | two headers, two entry arrays on disk; header, backup header, entries in memory | `Load`, `GetPartitionEntry`, `Sync`, destructor | the block device, page cache |
| Storage proxy (`recovery_storageproxyd.c`) | files in `/tmp/ss`, descriptors, connection, `/dev/.recovery_sp_ready` | connect, serve open/close/read/write/size/delete, RPMB | Trusty's storage service, UFS RPMB (SCSI generic), init |
| Boot services (`init.recovery.*.rc`, subpatches 0006, 0010, 0015, 0022, 0026) | properties, device nodes, service states, effects of the vibrator | waits with timeouts, service starts, lookups of services, `vibrate_ff` | storage proxy, KeyMint, Weaver, keystore, vold, fastbootd |
| FBE keys (subpatches 0009, 0010, 0018-0021) | keys in the kernel, policies in vold, `tw_fbe_*` values, users list, bind mounts | decrypt, mount, unmount, rekey | vold library, KeyMint, Weaver |
| Data mount (subpatches 0004, 0005, 0009, 0010, 0012, 0016, 0017) | mapper device, mount, f2fs checkpoint, files held open | metadata decrypt in a helper, mount, unmount, install, reboot | vold library, KeyMint, MTP, kernel |
| Weaver HAL (`recovery_weaver.cpp`) | shared call buffer, Titan slots | `getConfig`, `read`, `write` | Titan chip |
| Reflash (`reflash_twrp.sh`) | snapshot, lists, image, two `vendor_boot` slots, result files | repack, flash A, flash B, verify | snapshot, block devices |
| Ramdisk snapshot and init chain (`ramdisk_snapshot.c`, subpatch 0014) | snapshot directory, file lists | copy, list, fork/wait | lgz, reflash |
| lgz (`lgzv3.c`) | work queue, container file | compress, decompress, parallel workers | ramdisk |
| Device detection (`runatboot.sh`) | slot suffix, vendor mount, modules | mount with fallback, load modules, watch `/data/media` | kernel modules |
| Flags pruning (`runatinit.sh`) | `twrp.flags` | wait for devices, prune, replace | recovery |
| USB host mode (`otg_host_shim.c`, `otg_auto_v3.sh`, `otg_patch.sh`) | controller mode, proc files | poll, activate, deactivate, unload | DWC3 driver |
| Patch engine (`patch.py`, `subpatch/`, `fix_crlf.py`) | files of the recovery tree, subpatches | find, check, modify, rewrite of line ends | build |
| Packer (`fox_build_callback.sh`, `build.sh`, `vendorsetup.sh`), developer helpers | build tree | sequential file transformation | build |
| Device configuration, theme, prebuilts | none | none | - |

What is hard in each, and what makes it correct:

* **Boot control HAL.** The struct is read once and written whole, so a stale
  copy, a failed sync and a crash between the devices of one call are the
  cases that matter. Correct: always exactly one active slot; what the HAL
  reports is what is on disk; the LUN and the irreversible fuses come only
  after the metadata they depend on is durable.
* **GPT writer.** Four writes and one `fsync`; a destructor that writes after a
  failed load. Correct: an interruption leaves one valid copy; a complete Sync
  repairs; what was answered survives power loss; a header that was read and
  refused costs no partition entries. (Entries that could not be *read* are
  zeroed on the disk by the code; see section 6.)
* **Storage proxy.** Handles are raw descriptors which outlive a connection;
  a request may be carried out with nobody to hear the answer. Correct:
  a handle refers to its file, answered changes are stored, the daemon always
  reconnects; an RPMB unit attention does not fail a request.
* **Boot services.** Every wait has a timeout and the start goes on without
  what was waited for; KeyMint and Weaver are oneshot; there are two variants of
  KeyMint, of which one does not fit, and the recovery looks at one of them on
  every phone. Correct: the decryption of the metadata is skipped only on a
  phone whose own KeyMint has stopped; nobody waits forever for a service that
  never comes; the vibrator does not run out of places for effects.
* **FBE keys.** The kernel, vold and TWRP each have an idea of which keys are
  there, and an unmount may be lazy or partial. Correct: a user shown as
  decrypted can be read; a remount restores what it can; a wrong cached
  password does not stay; an unmount releases the file system.
* **Data mount.** An OTA may have disabled the checkpoint, TWRP does not know
  the file system, a helper is killed anywhere, others write until the end.
  Correct: what was written is there after the reboot or the log warns; TWRP
  itself is never the one that keeps `/data` busy; TWRP never hangs.
* **Patch engine.** Runs are killed, trees are synced, subpatches do not load.
  Correct: a build without an error printed has every change; nothing is
  patched twice.
* **Weaver.** Truncated answers fall back to defaults. Correct: a read answered
  OK carries the value of that slot.
* **Reflash.** Two slots are overwritten one after the other from a snapshot
  which the script itself edits. Correct: success means both slots hold the
  image; at any crash at most one slot is partial.
* **Snapshot.** It must be taken before the decompression; a copy that failed
  must not be taken for the original.
* **lgz, flags, detection, OTG.** See sections 7 and 8.

## 2. Modules and how they correspond to the code

### Boot control

`SlotTable` holds the data: two slots, each with the attributes `active`,
`successful`, `unbootable` and a retry counter, and the pure operators for
what a handler makes of a table (`FreshSlot`, `Activated`, `Succeeded`,
`Unbooted`).

`BootControl` is the HAL. Every process that holds the implementation (the
service, or a client that loads the passthrough library) has its own `cache`,
which is the static struct with its flags `init` and `valid`. Actions:

| Action | Code |
|---|---|
| `SetActiveBootSlot`, `SetSlotAsUnbootable`, `MarkBootSuccessful` | the handler up to the first device that is not a slot store: load of devinfo, change of the struct, `DevInfoSync` |
| `GptUnreadable` | the end of a handler that could not load the GPT or find the entry: the destructor of the `GptUtils` object writes all the same, and may have zeroed the entries (`gpt = Lost`) |
| `SyncGpt` | the write of changed GPT entries (`setSlotFlag`, destructor), whose result nobody looks at |
| `SwitchBootLun` | the end of `setActiveBootSlot`: `boot_lun_enabled` |
| `BlowAR` | one fuse bank of `blowAR` per step |
| `Query` | the getters, which load devinfo as a side effect |
| `Restart`, `Reboot` | the process or the phone dies between any two devices of a call |

A failed `DevInfoSync` leaves the old or the new block on disk, and the struct
in memory stays changed. `dirty` remembers (history only) that the last sync
of a process failed. The write of devinfo is one step because it is 128 bytes
of one block opened with `O_DSYNC`; the GPT write is one step *here* and is
taken apart in `GptSync`. A reboot in this module therefore never takes back a
GPT write that returned: after `Sync` ran to its `fsync` that is what `SyncIsDurable` of
`GptSync` says. That the whole GPT write may stand for one atomic step is what
`GptCell` states, which `GptSync` implements.

`SlotRegister` is the abstract promise: a register of slot metadata that each
operation changes at once, or, when the operation fails, at some later
moment or never. `BootControlRegister` maps the HAL on devinfo to it; property
`ImplementsRegister` is the refinement.

### GPT

`GptSync` models `GptUtils`: `seen` is the disk as reads see it (page cache),
`media` what a power loss leaves. A header is its kind (valid, signature
broken, zero, other) and the table its CRC was computed for. `StartSync` is
`Sync` with the comparison of CRCs up to the write of the primary header;
`WritePrimaryEntries`, `WriteBackupEntries`, `WriteBackupHeader` and `Fsync`
are the rest, one block at a time. A failed `fsync` goes unnoticed in the code;
the model remembers it (`last = "unsynced"`). `begun` (history) counts the
Syncs that began to write since the last complete one, and a power loss that
really lost a write as two. `Update` and `Query` are a handler that changes
entries and one that does not. Four actions are the destructor after a `Load`
that failed: what it then writes depends on what `Load` left in memory.

| Action | `Load` ended | in memory |
|---|---|---|
| `HeaderUnread` | the block size or the primary header could not be read | headers and positions never initialised |
| `LoadRefusesHeader` | the primary header was read, its signature is wrong | that header, an empty array, a backup header never initialised |
| `LoadFailsOnEntries` | the entries could not be read | a good header, an array of zeros, a backup header never initialised |
| `LoadFailsOnBackup` | the backup header could not be read | a good header, the entries, a backup header never initialised |

`Leftovers` are the kinds of header that memory never initialised may hold: of
an earlier object, or junk. A header of junk is written wherever its fields
point to (`WrittenAnywhere`). A behaviour has at most one failed read
(`ReadFails`); a read that ends short is not modelled. `MisplaceBackupEntries` is the write at
`start_lba` of a backup header that is zero or junk. `Kill`, `WriteBack` and
`PowerFails` are the environment.

`GptCell` is the abstract promise to strict readers, which check the CRCs of a
copy and turn to the backup when the primary fails them, as a boot loader or
the kernel do (`GptUtils::Load` does neither: it may load a mixture of old and
new entries): a cell for one table. An update that completes replaces the table, one that is cut off
does so or not, and without an update a power loss changes nothing. Only when a
second update is cut off, or a write is lost, before one completes may any
table, or none, be found. Its
`table` is what a strict reader finds (`Found`: primary copy, else backup), its
`wanted` the table of the Sync in progress. Property `ImplementsGptCell` is the
refinement, for healthy disks; damaged ones are the business of
`RefusedHeaderKeepsEntries`.

### Storage proxy

`StorageProxy` models the daemon and, as its environment, Trusty's storage
service. `table` is the daemon's descriptor table: a request to open answers
with the lowest free descriptor, a connection that ends leaves its files
open. `Serve` carries out the request in hand, one action per command;
`Reply` sends the answer to Trusty, or finds the connection closed. `believed`
and `certain` are Trusty's knowledge, computed from requests and answers only.
The data directory is in `/tmp`, so a reboot starts everything anew.

`FileStore` is what the daemon is to Trusty: a directory of named files with no
descriptors in it. A request that is answered well had its effect once, on the
file it names; a refused one had none, but for a write that failed half-way; one
whose connection ended had its effect once or not at all, and maybe only after
the end of the connection. The mapping takes a file for opened when Trusty has a
handle for it; property `ImplementsFileStore` is the refinement, and it needs
that a raw descriptor that was leaked, closed or given out again never leads a
request to another file.

`RpmbSend` models `send_ufs_rpmb` and `check_sg_result`: the reliable write,
the write and the read of one request, with the retry counts of the code,
the device's counter, the unit attention after a reset, transfers that
fail, and the read buffer that all requests share.

### Snapshot and reflash

`Reflash` follows a ramdisk through boot, snapshot, decompression, reflash
and the next boot. A ramdisk is the form of each of its files (as built,
decompressed, cut off, absent) and three facts: does its fstab carry the line
of DFE-Neo, does it hold the healing flag, is the flag in its file list.

| Action | Code |
|---|---|
| `TakeSnapshot`, `Copies` | `ramdisk_snapshot.c` `main` and `copy_file`: any file may fail to be copied, or be copied in part; the caller in 0014 goes on |
| `Decompress` | lgz, all of the files or some of them (it may fail too) |
| `BootChain` | the order of the two in 0014 |
| `HealingSwitch` | the two built-in zips of the menu (external) |
| `Prepare`, `Edited`, `PartlyEdited` | `reflash_twrp.sh` 29-99, also when it dies between two edits |
| `Pack`, `Named` | cpio, decompression of the base image, repack; with a list that was cut off, any of its names |
| `OpenSlot`, `FillSlot` | dd on one slot: after `OpenSlot` the slot is `Broken` until dd ends |
| `Verify`, `Report` | the two background processes and the look at their result files |
| `PowerOff` | at any point; everything in memory is gone |

The result files `res` outlive a run: a verifying process that is killed leaves
the result of an earlier one. `orig` (history) is the ramdisk as the boot
loader loaded it, `begun` (history) counts the runs that began to write since
both slots were complete, and `errors` the snapshots of which a copy failed.

### Keys and mount of /data

`FbeKeys` sets the three accounts of file-based keys side by side: `kernel`
(what the mounted file system can decrypt), `de` and `ce` (the policies vold
has in its lists, and takes for installed), `marked` (the users TWRP shows as
decrypted). The kernel's keys live as long as the file system: until its last
mount is gone *and* the last file is closed.

| Action | Code |
|---|---|
| `DecryptDevice`, `Opened`, `Decrypted` | 0010 `Decrypt_Device`: the user, with user 0 every other user as well, the cached password |
| `Mount`, `Reinstall`, `AutoDecrypt` | 0009 `Mount` after the mount itself: bind mount, then the keys, with three tries and the cached password |
| `MountWithoutSdcard` | the early return when the bind mount fails |
| `UnMount`, `TakeLayer`, `LayersDone` | 0009 `UnMount`, one umount2 at a time: the loop over the layers of `/sdcard`, which ends when one fails, and `/data/user/0` |
| `UnMountData`, `UnMountFails` | `/data` itself, at once or lazily, with caches, marks and flag; or not at all |
| `InitUser0`, `PrepareSpecialDirs` | 0020 `fscrypt_init_user0`, whose directories may fail |
| `OpenFiles`, `CloseFiles`, `CloseDetached`, `MediaRecreated` | the environment, also between two steps of an unmount |

In `Mount`, `fails`, `dirs` and `able` are what the outside does: how often the
device keys cannot be had, whether the directories can be prepared, and whose
key Weaver and KeyMint give out. `held` are the mounts that are busy, `gone`
says that files are open in a file system that was detached, and `used`
(history) that either was so during the last unmount. What an unmount leaves is
not assumed: a layer goes when its umount2 does, and the kernel drops the keys
when no mount and no open file is left (`KernelKeeps`). `guesses` (history) counts wrong passwords
tried on user 0 since somebody typed one in.

`DataMount` models what happens to written data. `Decrypt_Data` forks a helper
(`HelperMaps`, `HelperMounts`) and waits for its time-out (`HelperFails`, at
any of its steps, with what it did left behind); then the file system is probed
and the checkpoint enabled (`CheckFsType`, `CommitCheckpoint`). Users decrypt,
mount and unmount, MTP and shells hold files and write, packages are
installed (`Install`, with the checks that the patches changed: the wishes for
a wipe, the patch level, the time stamps). `AskReboot`, `SyncBeforeReboot`,
`ClearBeforeReboot` and `Reboot` are `tw_reboot` of 0012, with others writing
in between. `unsaved` and `lost` (history) tell data written before the reboot
was asked for from data written after. `phone.flag` is a value of
`fileencryption=`, split at its colons; `Contents` and `Filenames` are what
`Apply_TW_Flag` makes of it.

The two modules are not composed: `DataMount` has no keys, `FbeKeys` no
contents. What they share, the unmount of a busy `/data`, is in both.

### Boot services

`BootServices` has init's commands of "on init" as a list (`Rc`), executed one
at a time: `WaitEnds` with or without the device, `StartService`. A phone has
one of the two variants of KeyMint, and the build takes the start of the other
out of the rc file (`Disabled`). The services go on at their own time: the
storage proxy connects, leaves its mark if it can, may die and be started again
(`ProxyConnects`, `ProxyDies`); KeyMint registers, or stops for whatever reason
(`KeymintRegisters`, `KeymintStops`); Weaver's `main` registers, or stops because
the device does not open, does not know the calls, or the service manager
refuses it (`WeaverSettles`). `DecryptMetadata` is the look of `Decrypt_Data`
(0010:213) at the Rust variant, `ConnectKeymint` is `connect_keymint` of 0015, `WeaverBegins`, `WeaverCheck` and
`WeaverHidl` vold's Weaver object of 0022, `FastbootdBegins` and `LookUp`
fastbootd's constructor of 0026, `Vibrate` is `vibrate_ff` of 0006.
Devices appear at any moment or never. There is no clock: a wait may end
at once, which includes every relation of the time-outs.

### Patch engine

`PatchEngine` has, for every target file, what stands at the place of each
change: the original text, the modified one or another. `Start` loads the
subpatches, `Mod` is `mod()` up to the write, `Truncate` and `WriteText` are the two
halves of `write_text`, `Finish` is `build.sh` going on whatever was printed.
`Kill` ends a run anywhere; `Sync` resets a file and may change it, also
under a run. `FixFile`, `FixWrites` and `FixFails` are `fix_crlf.py` on a
subpatch, which it truncates and then writes.

## 3. Runs

| Run | Checks | Shows | Distinct states |
|---|---|---|---|
| `BootControl` | `TypeOK`, `OneActive`, `CacheCoherent`, `OkIsDurable`, `LunFollowsMetadata`, `FusesFollowSuccessMark`, `ImplementsRegister`, `GptChangeIsRequested` | one HAL process whose read of devinfo may fail, so that it works on either store; failed syncs, kills, reboots | 989852 |
| `BootControl_lun` | `OkMeansLunSwitched` (violated) | section 6 | |
| `GptSync` | `OneValidCopy`, `WrittenSyncHeals`, `SyncIsDurable`, `RefusedHeaderKeepsEntries`, `ImplementsGptCell` | healthy disks with kills, failed writes, power losses and write-back in any order; damaged disks, and disks with a failed read | 1049317 |
| `GptSync_backup` | `BadBackupIsTolerated` (violated) | section 6 | |
| `StorageProxy` | `HandleRefersToItsFile`, `AnsweredIsStored`, `RoomToReconnect`, `ServingIsMarked`, `ImplementsFileStore`, `Reconnects`, `RequestsEnd` | lost connections, kills, leaked descriptors, half-done writes; progress under fairness | 569880 |
| `RpmbSend` | `AttentionIsSurvived` | unit attentions in any transfer | 1176 |
| `Reflash_boots` | `TypeOK`, `OneBootable`, `SlotsStayPacked`, `SuccessIsWhatBooted`, `SuccessHealsFstab` | reflashes over any number of boots, power losses, a snapshot with failed copies that is flashed and booted again | 2957238 |
| `Reflash_sdcard` | `SdcardFlagIsCarried` (violated) | section 6 | |
| `FbeKeys` | `MarkedIsReadable`, `OneGuess`, `RemountRestores`, `UnMountReleases` | three users with equal, different or no passwords; KeyMint and Weaver failing at any moment; unmounts step by step under open files, stacked bind mounts | 460458 |
| `DataMount` | `WrittenSurvives`, `OnlyOthersHoldData`, `CiphersAreNamed`, `NeverStuck` | checkpoint left disabled, helper killed anywhere, writes up to the power-off, every kind of package | 29528 |
| `PatchEngine` | `AppliedOrReported`, `PatchedOnce` | runs killed anywhere, syncs at any time, subpatches that do not load or were emptied | 455280 |
| `BootServices` | `SkippedOnlyWithoutKeymint`, `VibratesAgain`, `NobodyWaitsForever` | phones with either KeyMint, devices that come at any moment or never, services that stop for good | 418832 |

Bounds, and why they are enough:

* Slots are the two of the code. `MaxRetry = 1` (3 in the code): the HAL only
  ever sets the counter to its maximum or leaves it, so two values tell a fresh
  slot from a used one.
* `Procs` has one process in the runs: the instance with two has too many states
  for TLC. Two processes with stale copies lose each other's updates, so most
  properties speak of one; that both stores keep one active slot for any number
  of processes is a theorem (section 5), and the run shows it for one. `Lost`
  stands for every GPT whose boot entries were overwritten: none of them has an
  entry to find any more.
* `LinkCounts = {0, 2}` is what `getNumberSlots` may find; 0 is the case in
  which `markBootSuccessful` answers at once. `ReadOutcomes` lets the one read of devinfo
  fail or not.
* `NBlocks = 2` gives an entry array that can be torn, by a kill and by
  write-back; `Vals` has two contents of a block, so four tables. A behaviour
  has faults of one kind (`faults`): the power fails, on a disk that was healthy;
  or one read fails, on any disk, healthy or with one damaged header; or neither,
  on any disk. Kills and failed writes come with all. `Leftovers` has a good
  header (of an earlier call) and junk, the two that lead Sync to different places.
* `NFds = 4`: RPMB, the connection and two files, so that one leaked descriptor
  fills the table. `MaxFailures = 1` (100 in the code) reaches the reset of the
  counter.
* `MaxRequests = 4` bounds `RpmbSend` (the only bound that stops a system; its cfg
  switches the deadlock check off for that reason). `WriteRetry` and
  `ReadRetry` are the code's 1 and 3.
* `Reflash`: `Files` has one file that lgz decompresses and the two lists,
  which decide what is copied and packed. `CopyErrors = 1` snapshot with
  failures damages any set of files in any way, and what it damaged is flashed,
  booted and snapshot again. `Switches` is `OnAfterErrors`: the healing check is
  switched both ways, and only on after a copy failed, since no property relates
  damaged files to a flag that is switched off. The deadlock check is off because
  a phone with both slots broken stops.
* `FbeKeys`: the owner and two more users, so that one of the others can share
  the password that was entered while the next does not; two passwords and
  "!". `Tries` is the code's 3. `MaxLayers = 2` bounds how often
  `/data/media/0` is made anew; of two layers the loop can take none, one or
  both, with either of them busy.
* `DataMount`: both file systems, the fstab right or wrong about them, two
  mounts on top of `/data`, and the four shapes of a flag (all names, left out with
  and without options, a single empty field). The deadlock check is off because the
  phone is off at the end.
* `PatchEngine`: two subpatches with two changes each: one file may be half
  patched, and one may be dealt with while the other is at work.
* `BootServices`: `Tries = 3` (15 in the code) has a first, a middle and a last
  check; `Effects = 2`, the fewest of which one may be used up while the other is
  not.

## 4. Fairness

`StorageProxy`: weak fairness of `StartDaemon` is init's: the service is not
`oneshot`, init starts it again whenever it exits. Weak fairness of `Connect`
and `Serve` is the daemon's one thread, which does nothing but loop over them.
Weak fairness of `ReceiveFails` holds only once Trusty's end is closed: then
`readv` returns. Nothing is assumed of Trusty or of the port; `Reconnects`
takes "the port stays open and the daemon is not killed any more" as its
hypothesis.

`DataMount`: weak fairness of TWRP's thread (`Decrypting` and `Rebooting`), of
which `HelperFails` is the time-out of the helper. Nothing is assumed of the
helper or of KeyMint behind it. `Decrypt_FBE_DE` (0010:259), which has no
time-out, is part of the step `FinishDecrypt` and assumed to return: a KeyMint
that takes a call and never answers it would hang TWRP there.

`BootServices`: weak fairness of init's commands (a wait ends at its time-out),
of vold's constructor and of fastbootd's, each a loop of calls that return:
`checkService` and `tryGetService` at once, and the HIDL `getService` of 0022:77
after about a second, when it has asked in vain (so the comment in 0026:16-22).
That the latter returns is an assumption about a library outside this
repository. No device and no service has to come.

`FbeKeys`, `PatchEngine`, `GptSync`, `BootControl`, `RpmbSend` and `Reflash` are
checked for safety only: their steps are calls of users, and nobody has to
call.

## 5. Theorems

All are proved for every value of the constants that satisfies the named
assumptions in the modules. The type invariants of `GptSync`, `StorageProxy`,
`RpmbSend`, `FbeKeys`, `DataMount`, `PatchEngine` and `BootServices` are theorems
and not repeated in the runs.

* `BootControl_proofs`: `TypeCorrect`, `AlwaysOneActive` (any number of
  processes, both stores, while no failed Load has cost the GPT its entries), and, for one process, `SingleProcessCoherent`,
  `OkLeavesNothing`, `LunAfterMetadata`, `FusesAfterMark`,
  `GptChangesAreRequested` and the refinement `RegisterRefined`. `OneActive` alone is not inductive: a process writes its
  copy, so each valid copy, and each set of entries waiting to be written, must
  have one active slot as well. Coherence needs the strengthening that a call
  waiting for LUN or fuses has just synced, and `OkIsDurable` that an answer ok
  is only given by a call whose sync did not fail. `GptChangeIsRequested` needs
  that the entries waiting to be written are those the call in progress made of
  the entries on disk; the one other change it allows is the loss of the entries
  by a failed Load, in a call that does not answer ok.
* `GptSync_proofs`: `GptTypeCorrect`, and `OneCopySurvives`,
  `WrittenSyncRepairs` and `SyncsAreDurable`, for behaviours with
  `faults = "power"` (healthy disks at the start, no read errors; writes may fail
  and the power may be lost at any point), which is the case the three
  properties are about. The inductive invariant says, for every position
  inside a Sync, which blocks of which copy are already the new ones, that the
  copy not yet reached is intact unless a Sync was cut off before, and that the
  medium differs from what is read only after a Sync began. From it follows the
  refinement `TablesChangeAtomically`, for the same behaviours: the table a
  strict reader finds changes with the last block of the primary entries that
  differs, and with no other write. `RefusedHeadersKeepEntries` is for disks
  damaged in any way, as long as no read fails: no write of entries is under way
  over a primary header without its signature, since only a `Load` that took the
  header leads there (`OpenedInv`), and one that refuses it writes headers only.
* `StorageProxy_proofs`: `ProxyTypeCorrect`, `HandlesAreRight`,
  `AnswersAreKept`, `AlwaysRoomToReconnect`, `ServingIsAlwaysMarked` and the
  refinement `ProxyIsAFileStore`. The invariant adds the shape of
  the descriptor table: RPMB and connection are where the daemon thinks they
  are, a request in hand uses a handle that Trusty holds (or held when the
  connection ended). That the daemon opens a lowest free descriptor is
  `LowestFree`, characterised by a lemma over well-founded `<`. For the
  refinement, `ReplyStore` says once what an answer makes of the store, and one
  lemma per command (`Served`) that its effect is one the store allows.
  `ServingIsMarked` is not part of that invariant: `MarkInv` adds that a process
  that never connected has opened nothing but RPMB, so that at its first
  connection two descriptors are free (a fact about cardinality).
* `StorageProxy_proofs`, last part (`RpmbSend`, the same daemon):
  `RpmbTypeCorrect`, `ResetsAreSurvived`. The invariant ties the attentions of a
  transfer to the repetitions it has left, and says that no frame, however
  old, carries a counter the device has not reached: so a good result in the
  shared buffer is the one of this request.
* `Reflash_proofs`: `TypeCorrect`, `OneSlotBootable`, `SlotsPacked`,
  `SuccessFaithful` and `SuccessHeals`, for any files and any number of
  snapshots with failed copies. `OneBootable` needs that slot b is whole
  while the first run writes slot a, and slot a while slot b is written;
  `SlotsStayPacked` that snapshot, image and the ramdisk before its snapshot
  hold no decompressed file; `SuccessIsWhatBooted` that every ramdisk is
  as built while no copy failed, that the image carries the flag of the running
  recovery from `Pack` on, and that a slot that was written holds the image.
* `FbeKeys_proofs`: `FbeTypeCorrect`, `MarkedUsersAreReadable`, `OneWrongGuess`,
  `RemountsRestore`, `UnMountsRelease`, for any users, passwords and number of
  tries. The invariant orders the accounts: while `/data` is mounted, TWRP
  believes no more than vold, and vold no more than the kernel has; while it
  is not, both believe nothing and the rekey flag is set (`Accounts`), which is
  why every remount asks for the keys. A failed cached password is gone or was
  the right one (`Guesses`). As long as nobody has had a file open since an
  unmount began, the loop over the layers has left none when `/data` is next,
  and nothing keeps the file system after it (`Releases`).
* `DataMount_proofs`: `MountTypeCorrect`, `WritesSurvive`, `DataIsReleased`,
  `CiphersNamed`, for any file systems, mounts and flags, with any number of
  options. The invariant says who can have files open at each place of TWRP's thread
  (`Users`) and that a checkpoint still disabled after the decryption has been
  warned of, so that the sync before the reboot misses nothing in silence
  (`Safe`).
* `PatchEngine_proofs`: `PatchTypeCorrect`, `BuildsAreComplete`,
  `NothingPatchedTwice`, for any files and any number of changes. The
  invariant says of a run without an error what it has reached, file by
  file, with the text in memory for the file it works on (`Reached`), and that
  a file that was dealt with has nothing left to patch (`Settled`).
* `BootServices_proofs`: `BootTypeCorrect`, `SkipsAreStops`, `AlwaysVibrates`,
  for any number of checks and places. The invariant says that the variant of
  KeyMint that does not fit is never started (`OnlyOwnStarted`), so that what
  `Decrypt_Data` finds stopped is the phone's own, and that it asks only after
  init is done (`SkipIsStop`, `DecryptedAfterInit`); for the vibrator, that a
  place was used only if the one effect has it.

Only model-checked: the liveness properties `NobodyWaitsForever`, `NeverStuck`,
`Reconnects` and `RequestsEnd` (fairness and ENABLED are out of the prover's
reach). Every safety invariant, action property and refinement that a passing run
checks is also a theorem.

## 6. Disagreements between code and its comments

* `BootControl.cpp:397-401`: `WriteStringToFd` returns a bool, tested with `< 0`;
  a failed switch of the boot LUN is answered with success
  (`BootControl_lun`).
* `GptUtils.cpp:102-104` tolerates an invalid backup header; Sync then uses
  its `start_lba`. If the header is zero, the entries overwrite the primary header
  (`GptSync_backup`).
* `reflash_twrp.sh:92` takes the healing flag of `/sdcard` from the list that
  lines 78-83 put it into, while the menu shows the check as set
  (`Reflash_sdcard`).

Limits that are not disagreements, visible in the models:

* Two HAL processes lose each other's updates (the last whole struct wins).
* On the GPT path the fuses may be burned although the success mark was not
  written, since `setSlotFlag` ignores the result of `Sync`.
* A power loss inside Sync may leave no valid copy (there is one `fsync`,
  after all writes); after an interrupted Sync the next one may have "nothing
  to do" (`GptUtils.cpp:140-141`), since it compares the primary header
  alone, the first thing Sync writes, and the backup stays stale until the next
  change.
* Descriptors leaked by the storage proxy are never given back until it restarts.
* A `Load` that fails on the entries still writes: its destructor puts an array
  of zeros over the primary entries (`GptUtils.cpp:85-92`, then 182;
  `LoadFailsOnEntries`), and in `BootControl` the boot entries are `Lost`. After a
  header that could not be read it writes headers of uninitialised memory. No
  property excludes these, since it is what the code does; only a header that
  was read and refused is harmless to the entries.
* `reflash_twrp.sh:6-8` calls the repacked image "byte-identical to the
  original". The script itself edits the fstabs, the healing flag and the file
  list before it packs (`Edited`), and a file whose copy to the snapshot failed
  half-way is packed, written and verified as it is. `SuccessIsWhatBooted` says
  what is left of the claim: as long as no copy failed (`errors = 0`), the files
  are those that were loaded, and the flag is that of the running recovery.
* `reflash_twrp.sh:168-180` may read result files of an earlier run when a
  verifying process was killed, which does no harm to `SuccessIsWhatBooted`
  because dd has reported its own errors by then.
* Every remount tries the cached password, and "!", on all users but the
  owner, which Weaver counts as wrong guesses for them; `OneGuess` is about
  the owner only.
* What MTP writes after the sync of a reboot is lost when `/data` was lazily
  unmounted under it before: it is only stopped when `/data` is mounted
  (0012:52). `OnlyOthersHoldData` has this as a case of its own.
* A subpatch that `fix_crlf.py` truncated and did not write is skipped by
  `patch.py` without a word (`patch.py:40`); `AppliedOrReported` excepts its
  changes.

## 7. What is not modelled, and why

Components planned for later are in section 8. Left out for good: the
helper scripts and what the packer does beyond the rc file and the compression
of the ramdisk (sequential calls of external tools), the patches that
only change user interface or build rules (their state is in other
repositories), the susfs kernel probe (its behaviour is that of the hooked
kernel functions), device configuration, theme and prebuilts (declarations
and data). `setSnapshotMergeStatus` and `getSnapshotMergeStatus` are calls into
`libboot_control`, which is not in this repository.

Left out of modelled components:

* `FbeKeys`, `DataMount`: the rest of `TWPartition` and of vold, of which the
  subpatches show parts only; it is modelled as those parts use it. The branch for
  `Ignore_Blkid` (0010:318), which no fstab of this repository sets. The
  text of mount options (`checkpoint_merge` is taken out of them). That a
  script of an installed package unmounts `/data` behind TWRP's back.
* `BootServices`: time. That the kernel stops an effect after its length is
  `EffectEnds`; that a wait lasts 5 or 10 seconds is not there. The vibrator does
  not go away once it is there, and phones with an LED or a timed-output
  vibrator (0006:189-193), which never get to `vibrate_ff`, are left out. KeyMint itself
  is external: it may stop at any moment, with or without its storage. A call into
  the keystore or the HIDL service manager that never returns is left out
  (section 4).
* `GptSync`: reads and writes that end short, and more than one failed read in a
  behaviour.
* `PatchEngine`: the regular expressions. That a change is found is one fact
  for each place; since no text of this repository's changes contains that of
  another change of its file, the order of the tests for "applied" and
  "original" does not matter. `--list`, which only prints. The bytes of a file
  that are not UTF-8.
* Ramdisk snapshot: the dump of `vendor_boot` next to the snapshot, which nothing
  in this repository reads.

## 8. Plan

In this order, each with its configuration and, where named, theorems.

1. `TwrpFlags` (`runatinit.sh`): the wait for block devices, pruning, the
   replacement of the file, with devices appearing meanwhile.
2. `Otg` (`otg_host_shim.c`, `otg_auto_v3.sh`, `otg_patch.sh`): two writers of
   the shim without a lock, the polling loop against cable changes, unload.
3. `Weaver` (`recovery_weaver.cpp`): the shared call buffer, truncated replies.
4. `Lgz` (`lgzv3.c`): worker pool; container format as recursive functions
   against a reference definition.
5. `VendorModules` (`runatboot.sh`).
6. A composition of `BootControl` over `GptCell` (the cell is what `GptSync` is
   proved to implement; the HAL takes its atomic step as given), and of
   `StorageProxy`'s mark (`ServingIsMarked`) with the wait in `BootServices`.
