---------------------------- MODULE BootControl ----------------------------
(***************************************************************************)
(* The boot control HAL of the recovery                                    *)
(* (pixel-source/bootctrl/1.2/BootControl.cpp).                            *)
(*                                                                         *)
(* Every process that holds the implementation (the service of             *)
(* service.cpp, or a client that loaded the passthrough library through    *)
(* HIDL_FETCH_IBootControl) reads devinfo ONCE, into a static struct, and  *)
(* from then on changes the struct and writes the whole of it back.  A     *)
(* process whose read failed, or whose device has no devinfo >= 3.3, uses  *)
(* the attributes of the GPT entries, which it reads afresh in each call.  *)
(* One RPC thread serves a process, so a process has one call at a time;   *)
(* a call that touches more than one device (store, then boot LUN or       *)
(* fuses) is one action per device, and the process or the phone may die   *)
(* between two of them.                                                    *)
(*                                                                         *)
(* The devinfo write is 128 bytes of one block, opened O_DSYNC: it is one  *)
(* step.  A write that reports an error may still have reached the disk.   *)
(* The GPT write is abstracted to one step here; its writes, its fsync,    *)
(* and what is left when it is cut off between two blocks (of which one    *)
(* may hold boot_a and the other boot_b) are the subject of module GptSync.*)
(***************************************************************************)
EXTENDS SlotTable

CONSTANTS
  Procs,          \* processes that hold the implementation
  HasDevInfo,     \* the devinfo partition carries version >= 3.3
  LinkCounts,     \* how many of the boot_a, boot_b links a call may find
  Lost,           \* a GPT whose boot entries are gone
  Platform,       \* ro.boot.hardware.platform
  ReadOutcomes,   \* outcomes considered for the one read of devinfo
  InitTables      \* slot metadata the phone may start with

ASSUME ConfigAssumption ==
  /\ HasDevInfo \in BOOLEAN
  /\ LinkCounts \subseteq 0 .. 2
  /\ ReadOutcomes \subseteq BOOLEAN
  /\ InitTables \subseteq SaneTables
ASSUME LostAssumption == Lost \notin Tables
ASSUME PlatformAssumption == Platform \in {"gs101", "gs201", "zuma", "zumapro"}

VARIABLES
  devinfo,        \* slot table on the devinfo partition
  gpt,            \* slot table in the GPT entries, as the next Load sees it;
                  \* or Lost
  lun,            \* boot_lun_enabled: the slot whose boot LUN is enabled
  fuses,          \* banks whose anti-rollback was burned in this boot
  cur,            \* getCurrentSlot: the slot this boot came from
  cache,          \* per process: is_devinfo_initialized, is_devinfo_valid, devinfo
  dirty,          \* per process (history): its last DevInfoSync failed
  pc,             \* per process: the device the call in progress does next
  arg,            \* per process: the slot of that call
  ent,            \* per process: GPT entries loaded and changed, not written
  reply           \* per process: what the last call answered

vars == <<devinfo, gpt, lun, fuses, cur, cache, dirty, pc, arg, ent, reply>>

stores == <<devinfo, gpt, lun, fuses>>

Banks == {"ap", "secure", "nonsecure"}

ZeroTable == [s \in Slots |->
               [active |-> FALSE, successful |-> FALSE, unbootable |-> FALSE,
                retry |-> 0]]

NotLoaded == [init |-> FALSE, valid |-> FALSE, slots |-> ZeroTable]

(* "skipped": true, of a call that found no links and did nothing.         *)
Replies == {"none", "ok", "skipped", "error"}

GptSteps == {"gptActivate", "gptSuccess", "gptUnbootable"}

TypeOK ==
  /\ devinfo \in Tables
  /\ gpt \in Tables \cup {Lost}
  /\ lun \in Slots
  /\ fuses \subseteq Banks
  /\ cur \in Slots
  /\ cache \in [Procs -> [init : BOOLEAN, valid : BOOLEAN, slots : Tables]]
  /\ dirty \in [Procs -> BOOLEAN]
  /\ pc \in [Procs -> {"idle", "lun"} \cup GptSteps \cup Banks]
  /\ arg \in [Procs -> Slots]
  /\ ent \in [Procs -> Tables]
  /\ reply \in [Procs -> Replies]

Init ==
  /\ devinfo \in InitTables
  /\ gpt = devinfo
  /\ lun = IF devinfo[0].active THEN 0 ELSE 1
  /\ fuses = {}
  /\ cur \in Slots
  /\ cache = [p \in Procs |-> NotLoaded]
  /\ dirty = [p \in Procs |-> FALSE]
  /\ pc = [p \in Procs |-> "idle"]
  /\ arg = [p \in Procs |-> 0]
  /\ ent = [p \in Procs |-> ZeroTable]
  /\ reply = [p \in Procs |-> "none"]

-----------------------------------------------------------------------------
(* The outcomes of the read; a process that has read does not read again.  *)
Readings(p) == IF cache[p].init THEN {TRUE} ELSE ReadOutcomes

(***************************************************************************)
(* isDevInfoValid: the first call reads devinfo; whatever came out of that *)
(* read is final for the life of the process.                              *)
(***************************************************************************)
Loaded(p, readable) ==
  IF cache[p].init THEN cache[p]
  ELSE [init  |-> TRUE,
        valid |-> HasDevInfo /\ readable,
        slots |-> IF HasDevInfo /\ readable THEN devinfo ELSE ZeroTable]

Idle(p) == pc[p] = "idle"

(* The call of p, about slot s, ends with answer r, or goes on with step l.*)
Answer(p, r) ==
  /\ pc' = [pc EXCEPT ![p] = "idle"]
  /\ arg' = [arg EXCEPT ![p] = 0]
  /\ reply' = [reply EXCEPT ![p] = r]

GoOn(p, s, l) ==
  /\ pc' = [pc EXCEPT ![p] = l]
  /\ arg' = [arg EXCEPT ![p] = s]
  /\ reply' = [reply EXCEPT ![p] = "none"]

(***************************************************************************)
(* DevInfoSync writes the whole struct.  It answers true only when all of  *)
(* it was written; on an error the disk holds the old or the new struct.   *)
(***************************************************************************)
(* Mutant: the length written covers the first slot only.                  *)
SyncShort(p, new) ==
  /\ devinfo' = [devinfo EXCEPT ![0] = new[0]]
  /\ dirty' = [dirty EXCEPT ![p] = FALSE]

SyncOk(p, new) ==
  /\ devinfo' = new
  /\ dirty' = [dirty EXCEPT ![p] = FALSE]

SyncFails(p, new) ==
  /\ devinfo' \in {devinfo, new}
  /\ dirty' = [dirty EXCEPT ![p] = TRUE]

(* Mutant: the result of DevInfoSync is not looked at.                     *)
DevInfoBranchUnchecked(p, s, c, new, next) ==
  /\ c.valid
  /\ cache' = [cache EXCEPT ![p] = [c EXCEPT !.slots = new]]
  /\ SyncOk(p, new) \/ SyncFails(p, new)
  /\ IF next = "idle" THEN Answer(p, "ok") ELSE GoOn(p, s, next)
  /\ UNCHANGED <<gpt, ent>>

(* Mutant: the sync comes before the change of the struct.                 *)
DevInfoBranchSyncFirst(p, s, c, new, next) ==
  /\ c.valid
  /\ cache' = [cache EXCEPT ![p] = [c EXCEPT !.slots = new]]
  /\ \/ /\ SyncOk(p, c.slots)
        /\ IF next = "idle" THEN Answer(p, "ok") ELSE GoOn(p, s, next)
     \/ SyncFails(p, c.slots) /\ Answer(p, "error")
  /\ UNCHANGED <<gpt, ent>>

(* A handler's devinfo branch: change the struct in memory, then sync.     *)
(* next is where the call goes when the sync succeeded.                    *)
DevInfoBranch(p, s, c, new, next) ==
  /\ c.valid
  /\ cache' = [cache EXCEPT ![p] = [c EXCEPT !.slots = new]]
  /\ \/ /\ SyncOk(p, new)
        /\ IF next = "idle" THEN Answer(p, "ok") ELSE GoOn(p, s, next)
     \/ SyncFails(p, new) /\ Answer(p, "error")
  /\ UNCHANGED <<gpt, ent>>

(* A handler's GPT branch up to the change of the entries in memory.       *)
GptBranch(p, s, c, new, next) ==
  /\ ~c.valid
  /\ gpt # Lost
  /\ cache' = [cache EXCEPT ![p] = c]
  /\ ent' = [ent EXCEPT ![p] = new]
  /\ GoOn(p, s, next)
  /\ UNCHANGED <<devinfo, gpt, dirty>>

(***************************************************************************)
(* A handler's GPT branch that ends with an error.  Nothing was changed if *)
(* getDevPath or GetPartitionEntry failed (the entries are Lost, or have   *)
(* other names).  If Load failed, the destructor of the GptUtils object    *)
(* still calls Sync: when it was the entries that could not be read it     *)
(* writes zeros over them, when it was the header, a header over anything; *)
(* when it was the backup header there is nothing to write.                *)
(***************************************************************************)
GptUnreadable(p, c, r) ==
  /\ ~c.valid
  /\ cache' = [cache EXCEPT ![p] = c]
  /\ gpt' \in {gpt, Lost}
  /\ Answer(p, r)
  /\ UNCHANGED <<devinfo, dirty, ent>>

(* Mutant: blowAR_zuma burns the non-secure bank first.                    *)
FirstBankSwapped ==
  CASE Platform = "gs101" -> "ap"
    [] Platform \in {"gs201", "zuma"} -> "nonsecure"
    [] OTHER -> "idle"

FirstBank ==
  CASE Platform = "gs101" -> "ap"
    [] Platform \in {"gs201", "zuma"} -> "secure"
    [] OTHER -> "idle"
-----------------------------------------------------------------------------
(* Mutant: the GPT branch starts from the devinfo struct.                  *)
SetActiveBootSlotFromStruct(p, s) ==
  \E readable \in Readings(p) :
    LET c == Loaded(p, readable) IN
    /\ Idle(p)
    /\ \/ DevInfoBranch(p, s, c, Activated(c.slots, s), "lun")
       \/ GptBranch(p, s, c, Activated(c.slots, s), "gptActivate")
       \/ GptUnreadable(p, c, "error")
    /\ UNCHANGED <<lun, fuses, cur>>

(* setActiveBootSlot, up to the boot LUN.                                  *)
SetActiveBootSlot(p, s) ==
  \E readable \in Readings(p) :
    LET c == Loaded(p, readable) IN
    /\ Idle(p)
    /\ \/ DevInfoBranch(p, s, c, Activated(c.slots, s), "lun")
       \/ GptBranch(p, s, c, Activated(gpt, s), "gptActivate")
       \/ GptUnreadable(p, c, "error")
    /\ UNCHANGED <<lun, fuses, cur>>

(***************************************************************************)
(* markBootSuccessful, up to the fuses.  getNumberSlots counts the links   *)
(* at the moment of the call (they appear while the phone starts); when it *)
(* finds none the answer is true before devinfo is looked at.              *)
(***************************************************************************)
MarkBootSuccessful(p) ==
  /\ Idle(p)
  /\ \/ /\ 0 \in LinkCounts
        /\ Answer(p, "skipped")
        /\ UNCHANGED <<devinfo, gpt, cache, dirty, ent>>
     \/ /\ LinkCounts # {0}
        /\ \E readable \in Readings(p) :
             LET c == Loaded(p, readable) IN
             \/ DevInfoBranch(p, cur, c, Succeeded(c.slots, cur), FirstBank)
             \/ GptBranch(p, cur, c, Succeeded(gpt, cur), "gptSuccess")
             \/ GptUnreadable(p, c, "error")
  /\ UNCHANGED <<lun, fuses, cur>>

(* The process ends (kill, SIGSEGV); init starts the service again, with   *)
(* nothing read yet and the call in progress never answered.               *)
Dies(p) ==
  /\ arg' = [arg EXCEPT ![p] = 0]
  /\ cache' = [cache EXCEPT ![p] = NotLoaded]
  /\ dirty' = [dirty EXCEPT ![p] = FALSE]
  /\ pc' = [pc EXCEPT ![p] = "idle"]
  /\ ent' = [ent EXCEPT ![p] = ZeroTable]
  /\ reply' = [reply EXCEPT ![p] = "none"]

(***************************************************************************)
(* setSlotAsUnbootable.  Its GPT branch does not look at what Load         *)
(* returned: without entries it dereferences a null pointer, and the       *)
(* destructor does not run.  Only getDevPath may make it answer an error.  *)
(***************************************************************************)
SetSlotAsUnbootable(p, s) ==
  \E readable \in Readings(p) :
    LET c == Loaded(p, readable) IN
    /\ Idle(p)
    /\ \/ DevInfoBranch(p, s, c, Unbooted(c.slots, s), "idle")
       \/ GptBranch(p, s, c, Unbooted(gpt, s), "gptUnbootable")
       \/ UNCHANGED gpt /\ GptUnreadable(p, c, "error")
       \/ ~c.valid /\ Dies(p) /\ UNCHANGED <<devinfo, gpt>>
    /\ UNCHANGED <<lun, fuses, cur>>

(* getActiveBootSlot, isSlotBootable, isSlotMarkedSuccessful: the answer   *)
(* is read from the cache, which the first of them loads, or from the GPT, *)
(* with a GptUtils object whose destructor may write.                      *)
Query(p) ==
  /\ Idle(p)
  /\ \/ /\ LinkCounts # {0}
        /\ \E readable \in Readings(p) :
             LET c == Loaded(p, readable) IN
             /\ cache' = [cache EXCEPT ![p] = c]
             /\ gpt' \in IF c.valid THEN {gpt} ELSE {gpt, Lost}
     \/ 0 \in LinkCounts /\ UNCHANGED <<cache, gpt>>
  /\ Answer(p, "none")
  /\ UNCHANGED <<devinfo, lun, fuses, cur, dirty, ent>>

(***************************************************************************)
(* The write of the changed GPT entries: setSlotFlag and                   *)
(* setSlotAsUnbootable call Sync, setActiveBootSlot leaves it to the       *)
(* destructor at the end of the branch.  None of them looks at its result. *)
(***************************************************************************)
SyncGpt(p) ==
  /\ pc[p] \in GptSteps
  /\ gpt' \in {gpt, ent[p]}
  /\ \/ pc[p] = "gptActivate" /\ GoOn(p, arg[p], "lun")
     \/ /\ pc[p] = "gptSuccess"
        /\ IF FirstBank = "idle" THEN Answer(p, "ok") ELSE GoOn(p, arg[p], FirstBank)
     \/ pc[p] = "gptUnbootable" /\ Answer(p, "ok")
  /\ ent' = [ent EXCEPT ![p] = ZeroTable]
  /\ UNCHANGED <<devinfo, lun, fuses, cur, cache, dirty>>

(***************************************************************************)
(* The end of setActiveBootSlot.  A missing property or attribute file is  *)
(* answered with an error.  A failed write is not: WriteStringToFd returns *)
(* a bool, and the code tests it with "ret < 0".                           *)
(***************************************************************************)
SwitchBootLun(p) ==
  /\ pc[p] = "lun"
  /\ \/ lun' = arg[p] /\ Answer(p, "ok")
     \/ UNCHANGED lun /\ \E r \in {"ok", "error"} : Answer(p, r)
  /\ UNCHANGED <<devinfo, gpt, fuses, cur, cache, dirty, ent>>

(***************************************************************************)
(* blowAR: one bank per step, the secure bank before the non-secure one    *)
(* (blowAR_zuma), or the single sysfs write of gs101.  An error ends the   *)
(* sequence, burned or not, and the call answers success all the same.     *)
(***************************************************************************)
BlowAR(p) ==
  /\ pc[p] \in Banks
  /\ \/ /\ fuses' = fuses \cup {pc[p]}
        /\ IF pc[p] = "secure" THEN GoOn(p, arg[p], "nonsecure") ELSE Answer(p, "ok")
     \/ /\ fuses' \in {fuses, fuses \cup {pc[p]}}
        /\ Answer(p, "ok")
  /\ UNCHANGED <<devinfo, gpt, lun, cur, cache, dirty, ent>>

Restart(p) ==
  /\ Dies(p)
  /\ UNCHANGED <<stores, cur>>

(* Power loss or reboot at any point; the boot loader picks a slot.        *)
Reboot(s) ==
  /\ cur' = s
  /\ fuses' = {}
  /\ cache' = [p \in Procs |-> NotLoaded]
  /\ dirty' = [p \in Procs |-> FALSE]
  /\ pc' = [p \in Procs |-> "idle"]
  /\ ent' = [p \in Procs |-> ZeroTable]
  /\ reply' = [p \in Procs |-> "none"]
  /\ arg' = [p \in Procs |-> 0]
  /\ UNCHANGED <<devinfo, gpt, lun>>

ProcStep(p) ==
  \/ \E s \in Slots : SetActiveBootSlot(p, s)
  \/ \E s \in Slots : SetSlotAsUnbootable(p, s)
  \/ MarkBootSuccessful(p)
  \/ Query(p)
  \/ SyncGpt(p)
  \/ SwitchBootLun(p)
  \/ BlowAR(p)
  \/ Restart(p)

Next ==
  \/ \E p \in Procs : ProcStep(p)
  \/ \E s \in Slots : Reboot(s)

Spec == Init /\ [][Next]_vars
-----------------------------------------------------------------------------
(***************************************************************************)
(* Both stores name exactly one slot to boot from, in every state, with    *)
(* stale caches, failed writes and crashes (setActiveBootSlot clears the   *)
(* other slot in the same struct, or entry array, it sets this one in);    *)
(* the GPT unless a failed Load cost it the entries.                       *)
(***************************************************************************)
OneActive ==
  /\ OneActiveIn(devinfo)
  /\ gpt # Lost => OneActiveIn(gpt)

(***************************************************************************)
(* With one process: as long as its last sync did not fail, what the HAL   *)
(* reports from its copy is what is on disk.  A failed sync makes them     *)
(* differ, the next successful one (of whatever call) makes them agree     *)
(* again, because it writes the whole struct: the change reported as       *)
(* failed is then on disk too.                                             *)
(***************************************************************************)
CacheCoherent ==
  \A p \in Procs :
    cache[p].valid /\ ~dirty[p] => cache[p].slots = devinfo

(***************************************************************************)
(* With one process: an answer ok means that no change is waiting in       *)
(* memory only, neither this call's nor one an earlier call reported as    *)
(* failed.  (markBootSuccessful without links, "skipped", does nothing.)   *)
(***************************************************************************)
OkIsDurable ==
  \A p \in Procs :
    reply[p] = "ok" /\ cache[p].valid
      => ~dirty[p] /\ cache[p].slots = devinfo

(***************************************************************************)
(* With one process on devinfo: the boot LUN is switched only to a slot    *)
(* that is already durably active, bootable and has all its retries; a     *)
(* crash in between leaves the metadata ahead of the LUN, never behind it. *)
(***************************************************************************)
LunFollowsMetadata ==
  [][\A p \in Procs :
       lun' # lun /\ cache[p].valid => devinfo[lun'] = FreshSlot]_vars

(***************************************************************************)
(* With one process on devinfo: anti-rollback fuses, which cannot be       *)
(* undone, are burned only for an image whose slot is durably marked       *)
(* successful, and the non-secure bank only after the secure one.          *)
(***************************************************************************)
FusesFollowSuccessMark ==
  [][\A p \in Procs : \A bank \in fuses' \ fuses :
       /\ cache[p].valid => devinfo[cur].successful
       /\ bank = "nonsecure" => "secure" \in fuses]_vars

(***************************************************************************)
(* With one process on the GPT path: every change of the entries is the    *)
(* change the call in progress asks for, applied to what the entries hold  *)
(* now; a change whose write failed never comes back with a later one, as  *)
(* it does on the devinfo path.  The one change nobody asks for is their   *)
(* loss, by the destructor of a call whose Load failed: that call does not *)
(* answer ok, and no later call brings the entries back.                   *)
(***************************************************************************)
GptChangeIsRequested ==
  [][gpt' # gpt =>
       /\ gpt # Lost
       /\ \E p \in Procs :
            \/ gpt' = CASE pc[p] = "gptActivate"   -> Activated(gpt, arg[p])
                       [] pc[p] = "gptSuccess"    -> Succeeded(gpt, cur)
                       [] pc[p] = "gptUnbootable" -> Unbooted(gpt, arg[p])
                       [] OTHER -> gpt
            \/ gpt' = Lost /\ Idle(p) /\ pc'[p] = "idle" /\ reply'[p] # "ok"]_vars

(***************************************************************************)
(* What BootControl.cpp:392-401 means by answering an error when           *)
(* boot_lun_enabled could not be written: after setActiveBootSlot answers  *)
(* ok, the boot LUN of the requested slot is the enabled one.              *)
(***************************************************************************)
OkMeansLunSwitched ==
  [][\A p \in Procs :
       pc[p] = "lun" /\ reply'[p] = "ok" => lun' = arg[p]]_vars
=============================================================================
