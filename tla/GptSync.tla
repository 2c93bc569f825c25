------------------------------ MODULE GptSync ------------------------------
(***************************************************************************)
(* How the boot control HAL reads and writes the GPT                       *)
(* (pixel-source/bootctrl/1.2/GptUtils.cpp).                               *)
(*                                                                         *)
(* Each handler opens the disk, Loads the table, may change the boot       *)
(* entries in memory, and writes with Sync, explicitly or in the           *)
(* destructor, queries and failed Loads included.  Sync writes the primary *)
(* header, the primary entries, the backup entries and the backup header,  *)
(* in this order, and calls fsync once at the end.                         *)
(*                                                                         *)
(* A table is what the blocks of the entry array hold; a header is its     *)
(* kind and the table its CRCs were computed for.  A write goes to the     *)
(* page cache (seen), from where the kernel carries it to the medium in    *)
(* any order (media).  Killing the process loses nothing that was written; *)
(* a power loss leaves what is on the medium.                              *)
(***************************************************************************)
EXTENDS Naturals

CONSTANTS
  NBlocks,        \* blocks of the entry array, written first to last
  Vals,           \* contents of a block of partition entries
  Zero, Junk,     \* an all-zero block; a block overwritten with other data
  NoTable,        \* the CRC of a header describes no table
  InitDisks,      \* disks the phone may start with
  Leftovers,      \* kinds of header that memory never initialised may hold
  Faults,         \* what may go wrong with the disk, see faults
  WriteErrors     \* may a write or the fsync fail?

Blocks == 1 .. NBlocks

Tables == [Blocks -> Vals \cup {Zero, Junk}]

GoodTables == [Blocks -> Vals]

(***************************************************************************)
(* Kinds of header: valid signature; broken signature with the positions   *)
(* still right; all zero; anything else (overwritten, or memory that was   *)
(* never initialised).  ValidateGptHeader accepts the first kind only and  *)
(* looks at no CRC.                                                        *)
(***************************************************************************)
Kinds == {"good", "badsig", "zero", "junk"}

Headers == [kind : Kinds, sum : Tables \cup {NoTable}]

Disks == [ph : Headers, pe : Tables, be : Tables, bh : Headers]

PrimaryValid(d) == d.ph.kind = "good" /\ d.ph.sum = d.pe

BackupValid(d) == d.bh.kind = "good" /\ d.bh.sum = d.be

Healthy(d) == PrimaryValid(d) /\ BackupValid(d) /\ d.pe = d.be

ASSUME BlocksAssumption == NBlocks \in Nat \ {0}
ASSUME DisksAssumption == InitDisks \subseteq Disks
ASSUME LeftoversAssumption == Leftovers \subseteq Kinds
ASSUME SwitchAssumption ==
  /\ Faults \subseteq {"none", "power", "reads"}
  /\ WriteErrors \in BOOLEAN
ASSUME ValuesAssumption ==
  NoTable \notin Tables /\ Zero \notin Vals /\ Junk \notin Vals

VARIABLES
  faults,     \* what goes wrong in this behaviour: the power fails, on a disk that
              \* was healthy at the start; or, on any disk, a read in Load fails
  seen,       \* the disk as reads see it
  media,      \* the disk as a power loss leaves it
  pc,         \* what the Sync in progress writes next
  k,          \* the block of the entry array it writes next
  ent,        \* entry_array
  bk,         \* kind of gpt_backup in memory
  begun,      \* Syncs that began to write since the last complete one (0, 1, 2 or
              \* more); a power loss that lost a write counts as 2
  last        \* how the last Sync ended; "unsynced": all written, fsync failed

vars == <<faults, seen, media, pc, k, ent, bk, begun, last>>

TypeOK ==
  /\ faults \in {"none", "power", "reads"}
  /\ seen \in Disks
  /\ media \in Disks
  /\ pc \in {"closed", "pe", "be", "bh", "fsync"}
  /\ k \in Blocks
  /\ ent \in Tables
  /\ bk \in Kinds
  /\ begun \in 0 .. 2
  /\ last \in {"none", "nochange", "written", "unsynced", "failed"}

Zeros == [b \in Blocks |-> Zero]

Init ==
  /\ faults \in Faults
  /\ seen \in InitDisks
  /\ faults = "power" => Healthy(seen)
  /\ media = seen
  /\ pc = "closed"
  /\ k = 1
  /\ ent = Zeros
  /\ bk = "junk"
  /\ begun = 0
  /\ last = "none"

-----------------------------------------------------------------------------
(* The object is gone; r tells how its Sync ended.                         *)
Close(r) ==
  /\ pc' = "closed"
  /\ k' = 1
  /\ ent' = Zeros
  /\ bk' = "junk"
  /\ last' = r

(* A write failed: Sync returns -1 and tries nothing else, and neither     *)
(* does the destructor, whose Sync finds the new CRC in memory already.    *)
Fails ==
  /\ WriteErrors
  /\ Close("failed")
  /\ UNCHANGED <<seen, media, begun>>

(***************************************************************************)
(* Sync with the entries new in memory, up to its first write.  It         *)
(* compares CRCs to see whether there is anything to do.  b is the kind of *)
(* the backup header in memory.                                            *)
(***************************************************************************)
StartSync(new, b) ==
  /\ pc = "closed"
  /\ \/ /\ seen.ph.sum = new
        /\ Close("nochange")
        /\ UNCHANGED <<seen, media, begun>>
     \/ /\ seen.ph.sum # new
        /\ seen' = [seen EXCEPT !.ph.sum = new]
        /\ pc' = "pe"
        /\ ent' = new
        /\ bk' = b
        /\ begun' = IF begun < 2 THEN begun + 1 ELSE 2
        /\ last' = "none"
        /\ UNCHANGED <<media, k>>
     \/ seen.ph.sum # new /\ Fails

(* A handler that changes boot entries, and one that only reads them.      *)
Update(new) ==
  /\ seen.ph.kind = "good"
  /\ seen.pe \in GoodTables
  /\ StartSync(new, seen.bh.kind)
  /\ UNCHANGED faults

Query ==
  /\ seen.ph.kind = "good"
  /\ StartSync(seen.pe, seen.bh.kind)
  /\ UNCHANGED faults

(* A read fails in this Load: the one of the behaviour, the bound put on   *)
(* failed reads.                                                           *)
ReadFails == faults = "reads" /\ faults' = "none"

(***************************************************************************)
(* Load failed and the handler answers an error; the destructor calls Sync *)
(* on what was read until then.  The entries could not be read: the array  *)
(* has its size, and is all zero.  The backup header could not be read, or *)
(* was not reached: its memory was never initialised, and holds anything,  *)
(* the header that an earlier call left there included.                    *)
(***************************************************************************)
LoadFailsOnEntries ==
  /\ ReadFails
  /\ seen.ph.kind = "good"
  /\ \E b \in Leftovers : StartSync(Zeros, b)

LoadFailsOnBackup ==
  /\ ReadFails
  /\ seen.ph.kind = "good"
  /\ \E b \in Leftovers : StartSync(seen.pe, b)

(***************************************************************************)
(* Load failed on the primary header: the array is empty, and Sync writes  *)
(* the two headers only, each with a CRC of no entries.  The disks a       *)
(* header of kind h may leave, written where a header of kind p says the   *)
(* primary (or the backup) is: there; at the start of the disk, which is   *)
(* none of the copies; or anywhere.                                        *)
(***************************************************************************)
NoEntries(h) == [kind |-> h, sum |-> NoTable]

PrimaryWritten(d, h) == [d EXCEPT !.ph = NoEntries(h)]

BackupWritten(d, h) == [d EXCEPT !.bh = NoEntries(h)]

WrittenAnywhere(d, h) ==
  {d, PrimaryWritten(d, h), BackupWritten(d, h)}
    \cup {[d EXCEPT !.pe[b] = Junk] : b \in Blocks}
    \cup {[d EXCEPT !.be[b] = Junk] : b \in Blocks}

(* Sync is over: both headers were written, or the first one, or none (the *)
(* CRC was right already, the write failed, the process was killed).       *)
SyncWithoutEntries(first, both) ==
  /\ seen' \in {seen} \cup first \cup both
  /\ Close("written")
  /\ UNCHANGED <<media, begun>>

(* Mutant: the array gets its size before the header is looked at.         *)
LoadRefusesHeaderSized ==
  /\ pc = "closed"
  /\ seen.ph.kind = "badsig"
  /\ SyncWithoutEntries({[seen EXCEPT !.ph.sum = NoTable, !.pe = Zeros]}, {})
  /\ UNCHANGED faults

(* The header was read and is not valid.                                   *)
LoadRefusesHeader ==
  /\ pc = "closed"
  /\ \/ /\ seen.ph.kind = "badsig"
        /\ LET first == PrimaryWritten(seen, "badsig") IN
           SyncWithoutEntries({first}, {BackupWritten(first, h) : h \in Leftovers})
     \/ seen.ph.kind = "zero" /\ SyncWithoutEntries({}, {})
     \/ /\ seen.ph.kind = "junk"
        /\ LET first == WrittenAnywhere(seen, "junk") IN
           SyncWithoutEntries(first,
             UNION {WrittenAnywhere(d, h) : d \in first, h \in Leftovers})
  /\ UNCHANGED faults

(* The block size or the header could not be read: both headers in memory, *)
(* and where they go, are whatever the memory held.                        *)
HeaderUnread ==
  /\ pc = "closed"
  /\ ReadFails
  /\ \E h \in Leftovers :
       LET first == WrittenAnywhere(seen, h) IN
       SyncWithoutEntries(first,
         UNION {WrittenAnywhere(d, b) : d \in first, b \in Leftovers})

-----------------------------------------------------------------------------
(* The next block of the entry array was written: on to the next, or to l. *)
NextBlock(l) ==
  IF k < NBlocks THEN k' = k + 1 /\ pc' = pc ELSE k' = 1 /\ pc' = l

(* Mutant: primary and backup entries are written side by side.            *)
WriteEntriesSideBySide ==
  /\ pc = "pe"
  /\ \/ /\ seen' = [seen EXCEPT !.pe[k] = ent[k], !.be[k] = ent[k]]
        /\ NextBlock("be")
        /\ UNCHANGED <<media, ent, bk, begun, last>>
     \/ Fails
  /\ UNCHANGED faults

WritePrimaryEntries ==
  /\ pc = "pe"
  /\ \/ /\ seen' = [seen EXCEPT !.pe[k] = ent[k]]
        /\ NextBlock("be")
        /\ UNCHANGED <<media, ent, bk, begun, last>>
     \/ Fails
  /\ UNCHANGED faults

(* start_lba of the backup header in memory tells where to: the backup     *)
(* entries when the positions in it are right.                             *)
WriteBackupEntries ==
  /\ pc = "be"
  /\ bk \in {"good", "badsig"}
  /\ \/ /\ seen' = [seen EXCEPT !.be[k] = ent[k]]
        /\ NextBlock("bh")
        /\ UNCHANGED <<media, ent, bk, begun, last>>
     \/ Fails
  /\ UNCHANGED faults

(* It is zero in a header of zeros, and may be in one never initialised:   *)
(* the entries go to the start of the disk, over the primary header and    *)
(* the first primary entries.                                              *)
MisplaceBackupEntries ==
  /\ pc = "be"
  /\ bk \in {"zero", "junk"}
  /\ \/ seen' = [seen EXCEPT !.ph = [kind |-> "junk", sum |-> NoTable],
                             !.pe[1] = Junk]
     \/ bk = "junk" /\ UNCHANGED seen
  /\ pc' = "bh"
  /\ UNCHANGED <<faults, media, k, ent, bk, begun, last>>

(* Mutant: the CRC of the backup header is not computed again.             *)
WriteBackupHeaderOldCrc ==
  /\ pc = "bh"
  /\ \/ /\ seen' = [seen EXCEPT !.bh.kind = bk]
        /\ pc' = "fsync"
        /\ UNCHANGED <<media, k, ent, bk, begun, last>>
     \/ Fails
  /\ UNCHANGED faults

WriteBackupHeader ==
  /\ pc = "bh"
  /\ \/ /\ seen' = [seen EXCEPT !.bh = [kind |-> bk, sum |-> ent]]
        /\ pc' = "fsync"
        /\ UNCHANGED <<media, k, ent, bk, begun, last>>
     \/ Fails
  /\ UNCHANGED faults

(* Mutant: no fsync.                                                       *)
FsyncForgotten ==
  /\ pc = "fsync"
  /\ begun' = 0
  /\ Close("written")
  /\ UNCHANGED <<faults, seen, media>>

(* The result of fsync is not looked at.                                   *)
Fsync ==
  /\ pc = "fsync"
  /\ \/ media' = seen /\ begun' = 0 /\ Close("written")
     \/ WriteErrors /\ Close("unsynced") /\ UNCHANGED <<media, begun>>
  /\ UNCHANGED <<faults, seen>>

-----------------------------------------------------------------------------
(* The process is killed between two writes.                               *)
Kill ==
  /\ pc # "closed"
  /\ Close("none")
  /\ UNCHANGED <<faults, seen, media, begun>>

(* The kernel carries one header or one block of entries to the medium.    *)
WriteBack ==
  /\ faults = "power"
  /\ \/ media' = [media EXCEPT !.ph = seen.ph]
     \/ media' = [media EXCEPT !.bh = seen.bh]
     \/ \E b \in Blocks :
          \/ media' = [media EXCEPT !.pe[b] = seen.pe[b]]
          \/ media' = [media EXCEPT !.be[b] = seen.be[b]]
  /\ UNCHANGED <<faults, seen, pc, k, ent, bk, begun, last>>

PowerFails ==
  /\ faults = "power"
  /\ seen' = media
  /\ begun' = IF seen = media THEN begun ELSE 2
  /\ Close("none")
  /\ UNCHANGED <<faults, media>>

Next ==
  \/ \E new \in GoodTables : Update(new)
  \/ Query
  \/ LoadFailsOnEntries
  \/ LoadFailsOnBackup
  \/ LoadRefusesHeader
  \/ HeaderUnread
  \/ WritePrimaryEntries
  \/ WriteBackupEntries
  \/ MisplaceBackupEntries
  \/ WriteBackupHeader
  \/ Fsync
  \/ Kill
  \/ WriteBack
  \/ PowerFails

Spec == Init /\ [][Next]_vars
-----------------------------------------------------------------------------
(***************************************************************************)
(* From a healthy disk, when reads do not fail: killing the process in a   *)
(* Sync, or a failed write, leaves one copy whose CRCs are right.  Only    *)
(* one such Sync is survived, and no power loss that lost a write: the     *)
(* next Sync that writes starts with the primary header even if the backup *)
(* is the broken copy.                                                     *)
(***************************************************************************)
OneValidCopy ==
  faults = "power" /\ begun <= 1 => PrimaryValid(seen) \/ BackupValid(seen)

(***************************************************************************)
(* From a healthy disk: once a Sync has written everything both copies are *)
(* valid and equal again, whatever earlier Syncs and power losses left     *)
(* behind.                                                                 *)
(***************************************************************************)
WrittenSyncHeals ==
  faults = "power" /\ last \in {"written", "unsynced"} => Healthy(seen)

(***************************************************************************)
(* From a healthy disk, without read errors: what a Sync wrote whose fsync *)
(* succeeded survives a power loss, and a Sync that had nothing to do      *)
(* answers for a table already durable, unless a Sync was cut off or an    *)
(* fsync failed before (begun).                                            *)
(***************************************************************************)
SyncIsDurable ==
  faults = "power" /\ last \in {"written", "nochange"} /\ begun = 0
    => media = seen /\ Healthy(media)

(***************************************************************************)
(* As long as reads do not fail: a primary header that lost its signature, *)
(* or was zeroed, costs neither copy of the partition entries, though      *)
(* every handler's destructor writes (Load returns before it sizes the     *)
(* array).  The backup header may be lost.  Nothing of the kind holds when *)
(* reads fail: entries that could not be read are zeroed on the disk       *)
(* (LoadFailsOnEntries).                                                   *)
(***************************************************************************)
RefusedHeaderKeepsEntries ==
  [][faults # "reads" /\ seen.ph.kind \in {"badsig", "zero"} =>
       seen'.pe = seen.pe /\ seen'.be = seen.be]_vars

(***************************************************************************)
(* From a healthy disk, without read errors: what a strict reader finds in *)
(* the GPT is an atomic cell.  A strict reader (the boot loader, the       *)
(* kernel) checks the CRCs of a copy and turns to the backup when those of *)
(* the primary are wrong; Load does neither, and may load a mixture.  The  *)
(* update takes place with the last block of the primary entries; until    *)
(* then the backup holds the old table.  With other faults nothing is      *)
(* said.                                                                   *)
(***************************************************************************)
Found(d) ==
  IF PrimaryValid(d) THEN d.pe ELSE IF BackupValid(d) THEN d.be ELSE NoTable

Cell == INSTANCE GptCell
          WITH Contents <- Tables,
               table    <- IF faults = "power" THEN Found(seen) ELSE Zeros,
               wanted   <- IF faults = "power" /\ pc # "closed" THEN ent
                           ELSE NoTable,
               begun    <- IF faults = "power" THEN begun ELSE 0

ImplementsGptCell == Cell!CellSpec

(***************************************************************************)
(* GptUtils.cpp:102-104 says of an invalid backup header "just warn about  *)
(* it, not fail": a disk whose primary table loads goes on loading.        *)
(***************************************************************************)
BadBackupIsTolerated ==
  [][seen.ph.kind = "good" => seen'.ph.kind = "good"]_vars
=============================================================================
