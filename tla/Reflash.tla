------------------------------ MODULE Reflash ------------------------------
(***************************************************************************)
(* How the recovery writes itself back to both vendor_boot slots.          *)
(*                                                                         *)
(* The second stage of init (subpatch/0014_init.cpp.py) copies the ramdisk *)
(* to /dev/ramdisk_snapshot (selfcode/ramdisk_snapshot) and then           *)
(* decompresses it in place with lgz.  When the user asks for it,          *)
(* reflash_twrp.sh edits the snapshot, packs it into an image, writes slot *)
(* a, then slot b, and verifies both in two background processes.  The     *)
(* next boot runs the ramdisk that was written.                            *)
(*                                                                         *)
(* A ramdisk is the form of its files and three facts: does its fstab      *)
(* carry the line of DFE-Neo, does it hold FFiles/check_dfe_and_reflash,   *)
(* and is that file in its recovery_file_list.txt.  Snapshot and result    *)
(* files are in memory: a power loss, at any point, takes them.  dd        *)
(* reports its errors, and with conv=fsync what it wrote is durable.       *)
(***************************************************************************)
EXTENDS Naturals

CONSTANTS
  Files,          \* files of the recovery ramdisk
  Manifest,       \* ramdisk_snapshot_manifest.txt
  List,           \* recovery_file_list.txt
  Broken,         \* a slot whose write did not end
  None,           \* no snapshot, no image
  CopyErrors,     \* (bound) snapshots in which copies may fail
  Switches        \* (bound) what the user may set the healing flag to after
                  \* so many snapshots with failed copies

ASSUME FilesAssumption == Manifest \in Files /\ List \in Files
ASSUME ErrorsAssumption ==
  CopyErrors \in Nat /\ Switches \in [0 .. CopyErrors -> SUBSET BOOLEAN]

Slots == {"a", "b"}

(* As the build made it (compressed, but for the two lists), decompressed, *)
(* cut off in the middle, not there.                                       *)
Forms == {"built", "plain", "torn", "absent"}

Ramdisks ==
  [files : [Files -> Forms], dfe : BOOLEAN, flag : BOOLEAN, listed : BOOLEAN]

ASSUME SymbolsAssumption == Broken \notin Ramdisks /\ None \notin Ramdisks

AsBuilt == [f \in Files |-> "built"]

Built == {r \in Ramdisks : r.files = AsBuilt /\ ~r.flag /\ ~r.listed}

VARIABLES
  slots,          \* vendor_boot_a and vendor_boot_b
  sdFlag,         \* /sdcard/Fox/check_dfe_and_reflash
  pc,             \* what init or the script does next
  root,           \* the running ramdisk; its flag is /FFiles/check_dfe_and_reflash
  orig,           \* (history) the files of the ramdisk as it was loaded
  snap,           \* /dev/ramdisk_snapshot
  img,            \* new-boot.img of the run in progress
  dev,            \* the slot dd writes
  checking,       \* slots whose verifying process runs
  res,            \* /tmp/rfv_a.result, /tmp/rfv_b.result
  out,            \* what the last run told the user
  begun,          \* (history) runs that began to write since both slots were complete
  errors          \* snapshots with failed copies

vars == <<slots, sdFlag, pc, root, orig, snap, img, dev, checking, res, out, begun, errors>>

script == <<img, dev, checking, res>>

TypeOK ==
  /\ slots \in [Slots -> Ramdisks \cup {Broken}]
  /\ sdFlag \in BOOLEAN
  /\ pc \in {"off", "snapshot", "lgz", "idle", "pack", "open", "fill", "verify"}
  /\ root \in Ramdisks \cup {None}
  /\ orig \in [Files -> Forms]
  /\ snap \in Ramdisks \cup {None}
  /\ img \in Ramdisks \cup {None}
  /\ dev \in Slots
  /\ checking \subseteq Slots
  /\ res \in [Slots -> {"none", "ok", "fail"}]
  /\ out \in {"none", "ok", "error"}
  /\ begun \in 0 .. 2
  /\ errors \in 0 .. CopyErrors
  /\ pc # "off" => root # None
  /\ pc = "pack" => snap # None
  /\ pc \in {"open", "fill", "verify"} => img # None

NoResults == [s \in Slots |-> "none"]

Init ==
  /\ slots \in [Slots -> Built]
  /\ sdFlag = FALSE
  /\ pc = "off"
  /\ root = None /\ snap = None /\ img = None
  /\ orig = AsBuilt
  /\ dev = "a"
  /\ checking = {}
  /\ res = NoResults
  /\ out = "none"
  /\ begun = 0
  /\ errors = 0

-----------------------------------------------------------------------------
(* Mutant: lgz first.                                                      *)
BootChainSwapped == [off |-> "lgz", lgz |-> "snapshot", snapshot |-> "idle"]

(* What init does after each of its steps.                                 *)
BootChain == [off |-> "snapshot", snapshot |-> "lgz", lgz |-> "idle"]

Boot(s) ==
  /\ pc = "off"
  /\ slots[s] # Broken
  /\ root' = slots[s]
  /\ orig' = slots[s].files
  /\ pc' = BootChain["off"]
  /\ UNCHANGED <<slots, sdFlag, snap, script, out, begun, errors>>

(* copy_file leaves the file, a part of it, or nothing.  Nothing is copied *)
(* that a torn manifest does not name.                                     *)
Copies(f, fails) ==
  {root.files[f]} \cup (IF fails THEN {"torn", "absent"} ELSE {})
                  \cup (IF root.files[Manifest] = "torn" THEN {"absent"} ELSE {})

(***************************************************************************)
(* ramdisk_snapshot copies what the manifest lists, which FFiles is not    *)
(* part of.  It counts its failures and goes on; init logs its result and  *)
(* goes on.  Without a manifest it is not run, and fork may fail.          *)
(***************************************************************************)
TakeSnapshot ==
  /\ pc = "snapshot"
  /\ pc' = BootChain["snapshot"]
  /\ \E fails \in BOOLEAN :
       /\ fails => errors < CopyErrors
       /\ errors' = IF fails THEN errors + 1 ELSE errors
       /\ \/ /\ root.files[Manifest] # "absent"
             /\ \E c \in [Files -> Forms] :
                  /\ \A f \in Files : c[f] \in Copies(f, fails)
                  /\ snap' = [root EXCEPT !.files = c, !.flag = FALSE]
          \/ /\ fails \/ root.files[Manifest] = "absent"
             /\ UNCHANGED snap
  /\ UNCHANGED <<slots, sdFlag, root, orig, script, out, begun>>

(* lgz decompress_all, or a part of it.                                    *)
Decompress ==
  /\ pc = "lgz"
  /\ pc' = BootChain["lgz"]
  /\ \E some \in SUBSET (Files \ {Manifest, List}) :
       root' = [root EXCEPT !.files =
                  [f \in Files |-> IF f \in some /\ @[f] = "built" THEN "plain" ELSE @[f]]]
  /\ UNCHANGED <<slots, sdFlag, orig, snap, script, out, begun, errors>>

(* The two built-in zips of the DFE-Neo healing check: the menu offers to  *)
(* enable it when the flag is nowhere, to disable it when it is somewhere. *)
(* Without /data the file in /sdcard stays as it is.                       *)
HealingSwitch(on) ==
  /\ pc = "idle"
  /\ on = ~ (root.flag \/ sdFlag)
  /\ root' = [root EXCEPT !.flag = on]
  /\ sdFlag' \in {on, sdFlag}
  /\ out' = "none"
  /\ UNCHANGED <<slots, pc, orig, snap, script, begun, errors>>

-----------------------------------------------------------------------------
(* The script ends, and TWRP shows its exit code as success or error       *)
(* (Flash_Current_Twrp).  The script left its image in a directory that    *)
(* the next run removes (reflash_twrp.sh, line 51).                        *)
End(result) ==
  /\ pc' = "idle"
  /\ out' = result
  /\ img' = None
  /\ dev' = "a"

(* _die: what the script did so far stays.                                 *)
Die == End("error") /\ UNCHANGED <<slots, checking, res, begun>>

(* Mutant: the fstab of the running ramdisk is patched.                    *)
EditedRunning(s) ==
  [s EXCEPT !.flag = @ \/ sdFlag \/ root.flag,
            !.listed = root.flag]

(***************************************************************************)
(* The edits of the snapshot.  Lines 78-83 put the flag of /sdcard into    *)
(* snapshot and list; when the running recovery does not carry the flag,   *)
(* line 92 takes it from the list again.                                   *)
(***************************************************************************)
Edited(s) ==
  [s EXCEPT !.dfe = @ /\ (root.flag \/ sdFlag),
            !.flag = @ \/ sdFlag \/ root.flag,
            !.listed = root.flag]

(* What the edits have made of s when one of them fails.                   *)
PartlyEdited(s) ==
  LET patched == [s EXCEPT !.dfe = @ /\ (root.flag \/ sdFlag)]
  IN {s, patched, [patched EXCEPT !.flag = @ \/ sdFlag, !.listed = @ \/ sdFlag]}

(* Mutant: whether there is a snapshot is not asked.                       *)
PrepareUnasked ==
  /\ pc = "idle"
  /\ snap' = IF snap = None THEN snap ELSE Edited(snap)
  /\ pc' = "pack"
  /\ out' = "none"
  /\ UNCHANGED <<slots, sdFlag, root, orig, script, begun, errors>>

Prepare ==
  /\ pc = "idle"
  /\ \/ /\ snap # None
        /\ snap.files[List] # "absent"
        /\ snap' = Edited(snap)
        /\ pc' = "pack"
        /\ out' = "none"
        /\ UNCHANGED <<slots, script, begun>>
     \/ Die /\ UNCHANGED snap
     \/ Die /\ snap # None /\ snap.files[List] # "absent" /\ snap' \in PartlyEdited(snap)
  /\ UNCHANGED <<sdFlag, root, orig, errors>>

(* The names cpio reads.                                                   *)
Named == IF snap.files[List] = "torn" THEN SUBSET Files ELSE {Files}

(* cpio fails on a name without a file, and packs what is there.           *)
Pack ==
  /\ pc = "pack"
  /\ \/ \E names \in Named :
          /\ \A f \in names : snap.files[f] # "absent"
          /\ snap.listed => snap.flag
          /\ img' = [snap EXCEPT
                       !.files = [f \in Files |-> IF f \in names THEN @[f] ELSE "absent"],
                       !.flag = snap.listed]
          /\ pc' = "open"
          /\ UNCHANGED <<slots, dev, checking, res, out, begun>>
     \/ Die
  /\ UNCHANGED <<sdFlag, root, orig, snap, errors>>

(* dd opens the device and writes its first block.                         *)
OpenSlot ==
  /\ pc = "open"
  /\ \/ /\ slots' = [slots EXCEPT ![dev] = Broken]
        /\ pc' = "fill"
        /\ begun' = IF dev = "a" /\ begun < 2 THEN begun + 1 ELSE begun
        /\ UNCHANGED <<script, out>>
     \/ Die
  /\ UNCHANGED <<sdFlag, root, orig, snap, errors>>

(* Both dd are through: the verification starts.                           *)
BothWritten ==
  /\ pc' = "verify"
  /\ checking' = Slots
  /\ begun' = 0
  /\ UNCHANGED dev

(* Mutant: both dd run at the same time.                                   *)
FillSlotParallel ==
  /\ pc = "fill"
  /\ \/ /\ slots' = [s \in Slots |-> IF dev = "a" THEN Broken ELSE img]
        /\ \/ dev = "a" /\ pc' = "fill" /\ dev' = "b" /\ UNCHANGED <<checking, begun>>
           \/ dev = "b" /\ BothWritten
        /\ UNCHANGED <<img, res, out>>
     \/ Die
  /\ UNCHANGED <<sdFlag, root, orig, snap, errors>>

(* Mutant: whether dd succeeded is not asked.                              *)
FillSlotUnchecked ==
  /\ pc = "fill"
  /\ \E written \in {img, Broken} : slots' = [slots EXCEPT ![dev] = written]
  /\ \/ dev = "a" /\ pc' = "open" /\ dev' = "b" /\ UNCHANGED <<checking, begun>>
     \/ dev = "b" /\ BothWritten
  /\ UNCHANGED <<sdFlag, root, orig, snap, errors, img, res, out>>

(* dd ends: on to the other slot, or to the verification.                  *)
FillSlot ==
  /\ pc = "fill"
  /\ \/ /\ slots' = [slots EXCEPT ![dev] = img]
        /\ \/ dev = "a" /\ pc' = "open" /\ dev' = "b" /\ UNCHANGED <<checking, begun>>
           \/ dev = "b" /\ BothWritten
        /\ UNCHANGED <<img, res, out>>
     \/ Die
  /\ UNCHANGED <<sdFlag, root, orig, snap, errors>>

(* _verify_slot in the background; a process that is killed leaves the     *)
(* result file of an earlier run.                                          *)
Verify(s) ==
  /\ s \in checking
  /\ checking' = checking \ {s}
  /\ \/ res' = [res EXCEPT ![s] = IF slots[s] = img THEN "ok" ELSE "fail"]
     \/ UNCHANGED res
  /\ UNCHANGED <<slots, sdFlag, pc, root, orig, snap, img, dev, out, begun, errors>>

(* wait, wait, and a look at the result files.                             *)
Report ==
  /\ pc = "verify"
  /\ checking = {}
  /\ End(IF \A s \in Slots : res[s] = "ok" THEN "ok" ELSE "error")
  /\ UNCHANGED <<slots, sdFlag, root, orig, snap, checking, res, begun, errors>>

PowerOff ==
  /\ pc # "off"
  /\ pc' = "off"
  /\ root' = None /\ snap' = None /\ img' = None
  /\ orig' = AsBuilt
  /\ dev' = "a"
  /\ checking' = {}
  /\ res' = NoResults
  /\ out' = "none"
  /\ UNCHANGED <<slots, sdFlag, begun, errors>>

Next ==
  \/ \E s \in Slots : Boot(s)
  \/ TakeSnapshot
  \/ Decompress
  \/ \E on \in Switches[errors] : HealingSwitch(on)
  \/ Prepare
  \/ Pack
  \/ OpenSlot
  \/ FillSlot
  \/ \E s \in Slots : Verify(s)
  \/ Report
  \/ PowerOff

Spec == Init /\ [][Next]_vars
-----------------------------------------------------------------------------
(***************************************************************************)
(* A power loss or a failed dd anywhere in a run leaves one slot to boot   *)
(* from; to lose both takes two runs in a row that were cut off, the first *)
(* in slot b, since the next one starts with the slot that is whole.  A    *)
(* slot counts as one to boot from when the boot loader accepts it, also   *)
(* with a file that was cut off when it was copied to the snapshot.        *)
(***************************************************************************)
OneBootable == begun <= 1 => \E s \in Slots : slots[s] # Broken

(***************************************************************************)
(* Whatever was copied, edited and reflashed over any number of boots, no  *)
(* slot ever gets a decompressed file: the snapshot is older than what lgz *)
(* made of the ramdisk (0014_init.cpp.py:45-48).                           *)
(***************************************************************************)
SlotsStayPacked ==
  \A s \in Slots : slots[s] # Broken => \A f \in Files : slots[s].files[f] # "plain"

(***************************************************************************)
(* As long as no copy to the snapshot failed: a run that reports success   *)
(* leaves in both slots the files of the ramdisk that was loaded, also     *)
(* when that one was itself a reflashed one, with the healing flag of the  *)
(* running recovery.  That a result file is an earlier run's does not      *)
(* matter for it: dd has reported its errors.                              *)
(***************************************************************************)
SuccessIsWhatBooted ==
  out = "ok" /\ errors = 0 =>
    \A s \in Slots :
      /\ slots[s] # Broken
      /\ slots[s].files = orig
      /\ slots[s].flag = root.flag

(***************************************************************************)
(* A run that reports success while the healing check is off has taken the *)
(* DFE-Neo line from the fstab of both slots; the line never comes back in *)
(* later runs of the same boot, whose snapshot it edited.                  *)
(***************************************************************************)
SuccessHealsFstab ==
  out = "ok" /\ ~root.flag /\ ~sdFlag =>
    \A s \in Slots : slots[s] # Broken /\ ~slots[s].dfe

(***************************************************************************)
(* advanced.xml:130-133 shows the healing check as on (it offers to        *)
(* disable it) when the flag is in /sdcard only: a reflash carries it on.  *)
(***************************************************************************)
SdcardFlagIsCarried ==
  out = "ok" /\ sdFlag => \A s \in Slots : slots[s] # Broken /\ slots[s].flag
=============================================================================
