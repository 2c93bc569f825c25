--------------------------- MODULE GptSync_proofs ---------------------------
(***************************************************************************)
(* Theorems about GptSync, for every number of blocks and every contents.  *)
(***************************************************************************)
EXTENDS GptSync, TLAPS

LEMMA ZerosType == Zeros \in Tables
BY DEF Zeros, Tables

LEMMA FirstBlock == 1 \in Blocks
BY BlocksAssumption DEF Blocks

LEMMA CloseType ==
  ASSUME NEW r \in {"none", "nochange", "written", "unsynced", "failed"}, Close(r)
  PROVE  /\ pc' = "closed" /\ k' \in Blocks /\ ent' \in Tables /\ bk' \in Kinds
         /\ last' = r
BY ZerosType, FirstBlock DEF Close, Kinds

LEMMA FailsType ==
  ASSUME TypeOK, Fails, faults' \in {"none", "power", "reads"} PROVE TypeOK'
BY CloseType DEF Fails, TypeOK

LEMMA StartSyncType ==
  ASSUME TypeOK, NEW new \in Tables, NEW b \in Kinds, StartSync(new, b),
         faults' \in {"none", "power", "reads"}
  PROVE  TypeOK'
<1>1. CASE Close("nochange") /\ UNCHANGED <<seen, media, begun>>
  BY <1>1, CloseType DEF TypeOK
<1>2. CASE /\ seen' = [seen EXCEPT !.ph.sum = new]
           /\ pc' = "pe" /\ ent' = new /\ bk' = b
           /\ begun' = IF begun < 2 THEN begun + 1 ELSE 2
           /\ last' = "none" /\ UNCHANGED <<media, k>>
  <2>1. seen' \in Disks
    BY <1>2 DEF TypeOK, Disks, Headers
  <2>2. begun' \in 0 .. 2
    BY <1>2 DEF TypeOK
  <2> QED BY <1>2, <2>1, <2>2 DEF TypeOK
<1>3. CASE Fails
  BY <1>3, FailsType
<1> QED BY <1>1, <1>2, <1>3 DEF StartSync

LEMMA DiskParts ==
  ASSUME TypeOK
  PROVE  /\ seen.ph \in Headers /\ seen.bh \in Headers
         /\ seen.pe \in Tables /\ seen.be \in Tables
         /\ seen.bh.kind \in Kinds
BY DEF TypeOK, Disks, Headers

(* The disks that a header written somewhere leaves.                       *)
LEMMA WrittenType ==
  ASSUME NEW d \in Disks, NEW h \in Kinds
  PROVE  /\ PrimaryWritten(d, h) \in Disks
         /\ BackupWritten(d, h) \in Disks
         /\ WrittenAnywhere(d, h) \subseteq Disks
<1>1. NoEntries(h) \in Headers
  BY DEF NoEntries, Headers
<1>2. PrimaryWritten(d, h) \in Disks /\ BackupWritten(d, h) \in Disks
  BY <1>1 DEF PrimaryWritten, BackupWritten, Disks
<1>3. ASSUME NEW b \in Blocks
      PROVE  [d EXCEPT !.pe[b] = Junk] \in Disks /\ [d EXCEPT !.be[b] = Junk] \in Disks
  <2>1. /\ [d.pe EXCEPT ![b] = Junk] \in Tables
        /\ [d.be EXCEPT ![b] = Junk] \in Tables
    BY DEF Disks, Tables
  <2> QED BY <2>1 DEF Disks
<1> QED BY <1>2, <1>3 DEF WrittenAnywhere

LEMMA NextBlockType ==
  ASSUME TypeOK, NEW l, NextBlock(l)
  PROVE  k' \in Blocks /\ pc' \in {pc, l}
BY FirstBlock, BlocksAssumption DEF NextBlock, TypeOK, Blocks

LEMMA StepType == TypeOK /\ [Next]_vars => TypeOK'
<1> SUFFICES ASSUME TypeOK, [Next]_vars PROVE TypeOK'
  OBVIOUS
<1>1. ASSUME NEW new \in GoodTables, Update(new) PROVE TypeOK'
  <2>1. new \in Tables
    BY DEF GoodTables, Tables
  <2> QED BY <1>1, <2>1, DiskParts, StartSyncType DEF Update, TypeOK
<1>2. CASE Query
  BY <1>2, DiskParts, StartSyncType DEF Query, TypeOK
<1>3. CASE LoadFailsOnEntries
  BY <1>3, ZerosType, StartSyncType, LeftoversAssumption
  DEF LoadFailsOnEntries, ReadFails
<1>4. CASE LoadFailsOnBackup
  BY <1>4, DiskParts, StartSyncType, LeftoversAssumption
  DEF LoadFailsOnBackup, ReadFails
<1>5. CASE LoadRefusesHeader
  <2>1. ASSUME NEW h \in Kinds
        PROVE  /\ PrimaryWritten(seen, h) \in Disks
               /\ BackupWritten(seen, h) \in Disks
               /\ WrittenAnywhere(seen, h) \subseteq Disks
    BY WrittenType DEF TypeOK
  <2>2. ASSUME NEW d \in Disks, NEW h \in Leftovers
        PROVE  BackupWritten(d, h) \in Disks /\ WrittenAnywhere(d, h) \subseteq Disks
    BY WrittenType, LeftoversAssumption
  <2>3. seen' \in Disks
    <3>1. "badsig" \in Kinds /\ "junk" \in Kinds /\ seen \in Disks
      BY DEF Kinds, TypeOK
    <3>2. CASE seen.ph.kind = "badsig"
      <4>1. PrimaryWritten(seen, "badsig") \in Disks
        BY <2>1, <3>1
      <4>2. seen' \in {seen, PrimaryWritten(seen, "badsig")}
              \cup {BackupWritten(PrimaryWritten(seen, "badsig"), h) : h \in Leftovers}
        BY <1>5, <3>2 DEF LoadRefusesHeader, SyncWithoutEntries
      <4> QED BY <2>2, <3>1, <4>1, <4>2
    <3>3. CASE seen.ph.kind = "zero"
      BY <1>5, <3>1, <3>3 DEF LoadRefusesHeader, SyncWithoutEntries
    <3>4. CASE seen.ph.kind = "junk"
      <4>1. WrittenAnywhere(seen, "junk") \subseteq Disks
        BY <2>1, <3>1
      <4>2. seen' \in {seen} \cup WrittenAnywhere(seen, "junk")
              \cup UNION {WrittenAnywhere(d, h) :
                           d \in WrittenAnywhere(seen, "junk"), h \in Leftovers}
        BY <1>5, <3>4 DEF LoadRefusesHeader, SyncWithoutEntries
      <4> QED BY <2>2, <3>1, <4>1, <4>2
    <3>5. seen.ph.kind \in {"badsig", "zero", "junk"}
      BY <1>5 DEF LoadRefusesHeader
    <3> QED BY <3>2, <3>3, <3>4, <3>5
  <2>4. UNCHANGED <<faults, media, begun>> /\ Close("written")
    BY <1>5 DEF LoadRefusesHeader, SyncWithoutEntries
  <2> QED BY <2>3, <2>4, CloseType DEF TypeOK
<1>15. CASE HeaderUnread
  <2>1. \E h \in Leftovers :
          seen' \in {seen} \cup WrittenAnywhere(seen, h)
                    \cup UNION {WrittenAnywhere(d, b) :
                                 d \in WrittenAnywhere(seen, h), b \in Leftovers}
    BY <1>15 DEF HeaderUnread, SyncWithoutEntries
  <2>2. ASSUME NEW d \in Disks, NEW b \in Leftovers
        PROVE  WrittenAnywhere(d, b) \subseteq Disks
    BY WrittenType, LeftoversAssumption
  <2>3. seen' \in Disks
    BY <2>1, <2>2 DEF TypeOK
  <2>4. faults' = "none" /\ UNCHANGED <<media, begun>> /\ Close("written")
    BY <1>15 DEF HeaderUnread, ReadFails, SyncWithoutEntries
  <2> QED BY <2>3, <2>4, CloseType DEF TypeOK
<1>6. CASE WritePrimaryEntries
  <2>1. CASE /\ pc = "pe" /\ seen' = [seen EXCEPT !.pe[k] = ent[k]]
             /\ NextBlock("be") /\ UNCHANGED faults /\ UNCHANGED <<media, ent, bk, begun, last>>
    <3>1. [seen.pe EXCEPT ![k] = ent[k]] \in Tables
      BY DiskParts DEF TypeOK, Tables
    <3>2. seen' \in Disks
      BY <2>1, <3>1 DEF TypeOK, Disks
    <3> QED BY <2>1, <3>2, NextBlockType DEF TypeOK
  <2> QED BY <1>6, <2>1, FailsType DEF WritePrimaryEntries, TypeOK
<1>7. CASE WriteBackupEntries
  <2>1. CASE /\ pc = "be" /\ seen' = [seen EXCEPT !.be[k] = ent[k]]
             /\ NextBlock("bh") /\ UNCHANGED faults /\ UNCHANGED <<media, ent, bk, begun, last>>
    <3>1. [seen.be EXCEPT ![k] = ent[k]] \in Tables
      BY DiskParts DEF TypeOK, Tables
    <3>2. seen' \in Disks
      BY <2>1, <3>1 DEF TypeOK, Disks
    <3> QED BY <2>1, <3>2, NextBlockType DEF TypeOK
  <2> QED BY <1>7, <2>1, FailsType DEF WriteBackupEntries, TypeOK
<1>8. CASE MisplaceBackupEntries
  <2>1. [seen.pe EXCEPT ![1] = Junk] \in Tables
    BY DiskParts, FirstBlock DEF Tables
  <2>2. [kind |-> "junk", sum |-> NoTable] \in Headers
    BY DEF Headers, Kinds
  <2>3. seen' \in Disks
    BY <1>8, <2>1, <2>2 DEF MisplaceBackupEntries, TypeOK, Disks
  <2> QED BY <1>8, <2>3 DEF MisplaceBackupEntries, TypeOK
<1>9. CASE WriteBackupHeader
  <2>1. CASE /\ seen' = [seen EXCEPT !.bh = [kind |-> bk, sum |-> ent]]
             /\ pc' = "fsync" /\ UNCHANGED faults /\ UNCHANGED <<media, k, ent, bk, begun, last>>
    <3>1. [kind |-> bk, sum |-> ent] \in Headers
      BY DEF TypeOK, Headers
    <3>2. seen' \in Disks
      BY <2>1, <3>1 DEF TypeOK, Disks
    <3> QED BY <2>1, <3>2 DEF TypeOK
  <2> QED BY <1>9, <2>1, FailsType DEF WriteBackupHeader, TypeOK
<1>10. CASE Fsync
  <2>1. CASE media' = seen /\ begun' = 0 /\ Close("written") /\ UNCHANGED <<faults, seen>>
    BY <2>1, CloseType DEF TypeOK
  <2>2. CASE Close("unsynced") /\ UNCHANGED <<media, begun>> /\ UNCHANGED <<faults, seen>>
    BY <2>2, CloseType DEF TypeOK
  <2> QED BY <1>10, <2>1, <2>2 DEF Fsync
<1>11. CASE Kill
  BY <1>11, CloseType DEF Kill, TypeOK
<1>12. CASE WriteBack
  <2>1. /\ media.pe \in Tables /\ media.be \in Tables
        /\ seen.pe \in Tables /\ seen.be \in Tables
        /\ seen.ph \in Headers /\ seen.bh \in Headers
    BY DEF TypeOK, Disks
  <2>2. \A b \in Blocks : /\ [media.pe EXCEPT ![b] = seen.pe[b]] \in Tables
                          /\ [media.be EXCEPT ![b] = seen.be[b]] \in Tables
    BY <2>1 DEF Tables
  <2>3. media' \in Disks
    BY <1>12, <2>1, <2>2 DEF WriteBack, TypeOK, Disks
  <2> QED BY <1>12, <2>3 DEF WriteBack, TypeOK
<1>13. CASE PowerFails
  BY <1>13, CloseType DEF PowerFails, TypeOK
<1>14. CASE UNCHANGED vars
  BY <1>14 DEF vars, TypeOK
<1> QED
  BY <1>1, <1>2, <1>3, <1>4, <1>5, <1>6, <1>7, <1>8, <1>9, <1>10, <1>11,
     <1>12, <1>13, <1>14, <1>15 DEF Next

LEMMA InitType == Init => TypeOK
BY DisksAssumption, SwitchAssumption, ZerosType, FirstBlock DEF Init, TypeOK, Kinds

(* Every part of the GPT state has its type.                               *)
THEOREM GptTypeCorrect == Spec => []TypeOK
<1>1. Init => TypeOK
  BY InitType
<1>2. TypeOK /\ [Next]_vars => TypeOK'
  BY StepType
<1> QED BY <1>1, <1>2, PTL DEF Spec
-----------------------------------------------------------------------------
(***************************************************************************)
(* Why one copy survives.  A Sync that starts from two valid copies does   *)
(* not touch the backup before the primary is complete, and then does not  *)
(* touch the primary; where the Sync is says which of the two is valid.    *)
(* The blocks before k are the ones already written.  What is on the       *)
(* medium differs from what reads see only after a Sync began.             *)
(***************************************************************************)
KindsGood ==
  /\ seen.ph.kind = "good" /\ seen.bh.kind = "good"
  /\ media.ph.kind = "good" /\ media.bh.kind = "good"
  /\ pc # "closed" => bk = "good"

Progress ==
  /\ pc # "closed" => seen.ph.sum = ent
  /\ pc = "pe" => \A b \in Blocks : b < k => seen.pe[b] = ent[b]
  /\ pc \in {"be", "bh", "fsync"} => seen.pe = ent
  /\ pc = "be" => \A b \in Blocks : b < k => seen.be[b] = ent[b]
  /\ pc \in {"bh", "fsync"} => seen.be = ent
  /\ pc = "fsync" => seen.bh.sum = ent
  /\ pc \in {"closed", "bh", "fsync"} => k = 1

CopiesInv ==
  /\ KindsGood
  /\ Progress
  /\ begun = 0 => pc = "closed" /\ Healthy(seen) /\ media = seen
  /\ begun = 1 /\ pc = "pe" => BackupValid(seen)
  /\ begun = 1 /\ pc = "closed" => PrimaryValid(seen) \/ BackupValid(seen)
  /\ last \in {"written", "unsynced"} => pc = "closed" /\ Healthy(seen)

LEMMA CopiesValid == ASSUME TypeOK, CopiesInv PROVE OneValidCopy
BY DEF TypeOK, CopiesInv, KindsGood, Progress, OneValidCopy, PrimaryValid,
       BackupValid, Healthy

LEMMA InitCopies == ASSUME faults = "power", Init PROVE CopiesInv
BY DEF Init, CopiesInv, KindsGood, Progress, Healthy, PrimaryValid,
       BackupValid

(* The object is closed in the middle: what was valid stays valid.         *)
LEMMA CloseCopies ==
  ASSUME faults = "power", TypeOK, CopiesInv, NEW r \in {"none", "failed"}, Close(r),
         UNCHANGED <<seen, media, begun>>
  PROVE  CopiesInv'
<1>1. OneValidCopy
  BY CopiesValid
<1> QED
  BY <1>1 DEF Close, CopiesInv, KindsGood, Progress, OneValidCopy, PrimaryValid,
              BackupValid, Healthy, TypeOK

LEMMA StartSyncCopies ==
  ASSUME faults = "power", TypeOK, CopiesInv, NEW new \in Tables, StartSync(new, "good")
  PROVE  CopiesInv'
<1>1. CASE Close("nochange") /\ UNCHANGED <<seen, media, begun>> /\ pc = "closed"
  BY <1>1 DEF Close, CopiesInv, KindsGood, Progress, PrimaryValid, BackupValid,
              Healthy
<1>2. CASE /\ pc = "closed" /\ seen' = [seen EXCEPT !.ph.sum = new]
           /\ pc' = "pe" /\ ent' = new /\ bk' = "good"
           /\ begun' = IF begun < 2 THEN begun + 1 ELSE 2
           /\ last' = "none" /\ UNCHANGED <<media, k>>
  <2>1. /\ seen'.ph.kind = seen.ph.kind /\ seen'.ph.sum = new
        /\ seen'.pe = seen.pe /\ seen'.be = seen.be /\ seen'.bh = seen.bh
    BY <1>2 DEF TypeOK, Disks, Headers
  <2>2. k = 1
    BY <1>2 DEF CopiesInv, Progress
  <2> QED
    BY <1>2, <2>1, <2>2
    DEF CopiesInv, KindsGood, Progress, PrimaryValid, BackupValid, Healthy,
        TypeOK, Blocks
<1>3. CASE Fails
  BY <1>3, CloseCopies DEF Fails
<1> QED BY <1>1, <1>2, <1>3 DEF StartSync

LEMMA PrimaryEntriesCopies ==
  ASSUME faults = "power", TypeOK, CopiesInv, WritePrimaryEntries PROVE CopiesInv'
<1>1. CASE Fails
  BY <1>1, CloseCopies DEF Fails
<1>2. CASE /\ pc = "pe" /\ seen' = [seen EXCEPT !.pe[k] = ent[k]]
           /\ NextBlock("be") /\ UNCHANGED faults /\ UNCHANGED <<media, ent, bk, begun, last>>
  <2>1. /\ seen'.ph = seen.ph /\ seen'.be = seen.be /\ seen'.bh = seen.bh
        /\ seen'.pe = [seen.pe EXCEPT ![k] = ent[k]]
    BY <1>2 DEF TypeOK, Disks
  <2>2. ASSUME NEW b \in Blocks, b <= k PROVE seen'.pe[b] = ent[b]
    <3>1. seen.pe \in Tables
      BY DiskParts
    <3>2. CASE b = k
      BY <2>1, <3>1, <3>2 DEF Tables
    <3>3. CASE b < k
      <4>1. seen.pe[b] = ent[b]
        BY <1>2, <3>3 DEF CopiesInv, Progress
      <4> QED BY <2>1, <3>1, <3>3, <4>1 DEF Tables, Blocks
    <3> QED BY <2>2, <3>2, <3>3 DEF TypeOK, Blocks
  <2>3. begun # 0 /\ last \notin {"written", "unsynced"}
    BY <1>2 DEF CopiesInv
  <2>4. CASE k < NBlocks
    BY <1>2, <2>1, <2>2, <2>3, <2>4
    DEF NextBlock, TypeOK, Blocks, CopiesInv, KindsGood, Progress, BackupValid
  <2>5. CASE ~(k < NBlocks)
    <3>1. seen'.pe \in Tables
      BY <2>1, <1>2 DEF TypeOK, Disks, Tables
    <3>2. seen'.pe = ent
      BY <2>2, <2>5, <3>1, BlocksAssumption DEF TypeOK, Tables, Blocks
    <3>3. k' = 1 /\ pc' = "be"
      BY <1>2, <2>5 DEF NextBlock
    <3>4. KindsGood' /\ Progress'
      BY <1>2, <2>1, <3>2, <3>3
      DEF CopiesInv, KindsGood, Progress, Blocks
    <3> QED BY <1>2, <2>3, <3>3, <3>4 DEF CopiesInv
  <2> QED BY <2>4, <2>5
<1> QED BY <1>1, <1>2 DEF WritePrimaryEntries

LEMMA BackupEntriesCopies ==
  ASSUME faults = "power", TypeOK, CopiesInv, WriteBackupEntries PROVE CopiesInv'
<1>1. CASE Fails
  BY <1>1, CloseCopies DEF Fails
<1>2. CASE /\ pc = "be" /\ seen' = [seen EXCEPT !.be[k] = ent[k]]
           /\ NextBlock("bh") /\ UNCHANGED faults /\ UNCHANGED <<media, ent, bk, begun, last>>
  <2>1. /\ seen'.ph = seen.ph /\ seen'.pe = seen.pe /\ seen'.bh = seen.bh
        /\ seen'.be = [seen.be EXCEPT ![k] = ent[k]]
    BY <1>2 DEF TypeOK, Disks
  <2>2. ASSUME NEW b \in Blocks, b <= k PROVE seen'.be[b] = ent[b]
    <3>1. seen.be \in Tables
      BY DiskParts
    <3>2. CASE b = k
      BY <2>1, <3>1, <3>2 DEF Tables
    <3>3. CASE b < k
      <4>1. seen.be[b] = ent[b]
        BY <1>2, <3>3 DEF CopiesInv, Progress
      <4> QED BY <2>1, <3>1, <3>3, <4>1 DEF Tables, Blocks
    <3> QED BY <2>2, <3>2, <3>3 DEF TypeOK, Blocks
  <2>3. begun # 0 /\ last \notin {"written", "unsynced"}
    BY <1>2 DEF CopiesInv
  <2>4. CASE k < NBlocks
    BY <1>2, <2>1, <2>2, <2>3, <2>4
    DEF NextBlock, TypeOK, Blocks, CopiesInv, KindsGood, Progress
  <2>5. CASE ~(k < NBlocks)
    <3>1. seen'.be \in Tables
      BY <2>1, <1>2 DEF TypeOK, Disks, Tables
    <3>2. seen'.be = ent
      BY <2>2, <2>5, <3>1, BlocksAssumption DEF TypeOK, Tables, Blocks
    <3>3. k' = 1 /\ pc' = "bh"
      BY <1>2, <2>5 DEF NextBlock
    <3>4. KindsGood' /\ Progress'
      BY <1>2, <2>1, <3>2, <3>3
      DEF CopiesInv, KindsGood, Progress
    <3> QED BY <1>2, <2>3, <3>3, <3>4 DEF CopiesInv
  <2> QED BY <2>4, <2>5
<1> QED BY <1>1, <1>2 DEF WriteBackupEntries

LEMMA BackupHeaderCopies ==
  ASSUME faults = "power", TypeOK, CopiesInv, WriteBackupHeader PROVE CopiesInv'
<1>1. CASE Fails
  BY <1>1, CloseCopies DEF Fails
<1>2. CASE /\ pc = "bh" /\ seen' = [seen EXCEPT !.bh = [kind |-> bk, sum |-> ent]]
           /\ pc' = "fsync" /\ UNCHANGED faults /\ UNCHANGED <<media, k, ent, bk, begun, last>>
  <2>1. /\ seen'.ph = seen.ph /\ seen'.pe = seen.pe /\ seen'.be = seen.be
        /\ seen'.bh.kind = bk /\ seen'.bh.sum = ent
    BY <1>2 DEF TypeOK, Disks
  <2> QED BY <1>2, <2>1 DEF CopiesInv, KindsGood, Progress
<1> QED BY <1>1, <1>2 DEF WriteBackupHeader

LEMMA FsyncCopies == ASSUME faults = "power", TypeOK, CopiesInv, Fsync PROVE CopiesInv'
<1>1. Healthy(seen) /\ seen' = seen /\ begun # 0
  BY DEF Fsync, CopiesInv, KindsGood, Progress, Healthy, PrimaryValid, BackupValid
<1>2. KindsGood' /\ Progress'
  BY <1>1 DEF Fsync, Close, CopiesInv, KindsGood, Progress
<1> QED
  BY <1>1, <1>2 DEF Fsync, Close, CopiesInv, Healthy, PrimaryValid, BackupValid

LEMMA WriteBackCopies == ASSUME faults = "power", TypeOK, CopiesInv, WriteBack PROVE CopiesInv'
<1>1. media'.ph.kind = "good" /\ media'.bh.kind = "good"
  BY DEF WriteBack, TypeOK, Disks, CopiesInv, KindsGood
<1>2. ASSUME begun = 0 PROVE media' = seen
  <2>1. media = seen
    BY <1>2 DEF CopiesInv
  <2>2. seen.pe \in Tables /\ seen.be \in Tables
    BY DiskParts
  <2>3. \A b \in Blocks : /\ [seen.pe EXCEPT ![b] = seen.pe[b]] = seen.pe
                          /\ [seen.be EXCEPT ![b] = seen.be[b]] = seen.be
    BY <2>2 DEF Tables
  <2> QED BY <2>1, <2>3 DEF WriteBack, TypeOK, Disks
<1>3. UNCHANGED <<faults, seen, pc, k, ent, bk, begun, last>>
  BY DEF WriteBack
<1> QED
  BY <1>1, <1>2, <1>3
  DEF CopiesInv, KindsGood, Progress, PrimaryValid, BackupValid, Healthy

(* Nothing is lost when no Sync began; otherwise begun becomes 2.          *)
LEMMA PowerFailsCopies == ASSUME faults = "power", TypeOK, CopiesInv, PowerFails PROVE CopiesInv'
<1>1. seen' = media /\ media' = media /\ pc' = "closed" /\ k' = 1 /\ last' = "none"
  BY DEF PowerFails, Close
<1>2. KindsGood' /\ Progress'
  BY <1>1 DEF CopiesInv, KindsGood, Progress
<1>3. CASE seen = media
  <2>1. begun' = begun /\ seen' = seen
    BY <1>1, <1>3 DEF PowerFails
  <2>2. OneValidCopy
    BY CopiesValid
  <2> QED
    BY <1>1, <1>2, <1>3, <2>1, <2>2
    DEF CopiesInv, OneValidCopy, TypeOK, PrimaryValid, BackupValid, Healthy
<1>4. CASE seen # media
  <2>1. begun' = 2
    BY <1>4 DEF PowerFails
  <2> QED BY <1>1, <1>2, <2>1 DEF CopiesInv
<1> QED BY <1>3, <1>4

LEMMA StepCopies ==
  ASSUME faults = "power", TypeOK, CopiesInv, [Next]_vars PROVE CopiesInv'
<1>1. seen.ph.kind = "good" /\ seen.bh.kind = "good"
  BY DEF CopiesInv, KindsGood
<1>2. ASSUME NEW new \in GoodTables, Update(new) PROVE CopiesInv'
  <2>1. new \in Tables
    BY DEF GoodTables, Tables
  <2> QED BY <1>1, <1>2, <2>1, StartSyncCopies DEF Update
<1>3. CASE Query
  BY <1>1, <1>3, DiskParts, StartSyncCopies DEF Query
<1>4. CASE LoadFailsOnEntries \/ LoadFailsOnBackup
  BY <1>4 DEF LoadFailsOnEntries, LoadFailsOnBackup, ReadFails
<1>5. CASE LoadRefusesHeader \/ HeaderUnread
  BY <1>1, <1>5 DEF LoadRefusesHeader, HeaderUnread, ReadFails
<1>6. CASE WritePrimaryEntries
  BY <1>6, PrimaryEntriesCopies
<1>7. CASE WriteBackupEntries
  BY <1>7, BackupEntriesCopies
<1>8. CASE MisplaceBackupEntries
  BY <1>8 DEF MisplaceBackupEntries, CopiesInv, KindsGood
<1>9. CASE WriteBackupHeader
  BY <1>9, BackupHeaderCopies
<1>10. CASE Fsync
  BY <1>10, FsyncCopies
<1>11. CASE Kill
  BY <1>11, CloseCopies DEF Kill
<1>12. CASE WriteBack
  BY <1>12, WriteBackCopies
<1>13. CASE PowerFails
  BY <1>13, PowerFailsCopies
<1>14. CASE UNCHANGED vars
  BY <1>14 DEF vars, CopiesInv, KindsGood, Progress, PrimaryValid, BackupValid,
               Healthy
<1> QED
  BY <1>2, <1>3, <1>4, <1>5, <1>6, <1>7, <1>8, <1>9, <1>10, <1>11, <1>12, <1>13,
     <1>14
  DEF Next

(* Faults of one kind in a behaviour: they do not change, but for the one  *)
(* read that fails.                                                        *)
LEMMA SameFaults ==
  [Next]_vars => \/ UNCHANGED faults
                 \/ faults = "reads" /\ faults' = "none"
BY DEF Next, vars, Update, Query, LoadFailsOnEntries, LoadFailsOnBackup,
       LoadRefusesHeader, HeaderUnread, ReadFails, WritePrimaryEntries,
       WriteBackupEntries, MisplaceBackupEntries, WriteBackupHeader, Fsync,
       Kill, WriteBack, PowerFails

HealthyInv == TypeOK /\ (faults = "power" => CopiesInv)

LEMMA AlwaysHealthyInv == Spec => []HealthyInv
<1>1. Init => HealthyInv
  BY InitCopies, InitType DEF HealthyInv
<1>2. HealthyInv /\ [Next]_vars => HealthyInv'
  BY StepType, StepCopies, SameFaults DEF HealthyInv
<1> QED BY <1>1, <1>2, PTL DEF Spec

(***************************************************************************)
(* From healthy disks, whatever writes fail, wherever a Sync is killed and *)
(* the power lost: one valid copy is left unless two Syncs in a row were   *)
(* cut off or a write was lost.                                            *)
(***************************************************************************)
THEOREM OneCopySurvives == Spec => []OneValidCopy
<1>1. HealthyInv => OneValidCopy
  BY CopiesValid DEF HealthyInv, OneValidCopy
<1> QED BY <1>1, AlwaysHealthyInv, PTL

(* From healthy disks: a Sync that wrote everything leaves both copies     *)
(* valid and equal, whatever Syncs were cut off before.                    *)
THEOREM WrittenSyncRepairs == Spec => []WrittenSyncHeals
<1>1. HealthyInv => WrittenSyncHeals
  BY DEF HealthyInv, CopiesInv, WrittenSyncHeals
<1> QED BY <1>1, AlwaysHealthyInv, PTL

(* From healthy disks: what a Sync wrote is durable when its fsync         *)
(* succeeded.                                                              *)
THEOREM SyncsAreDurable == Spec => []SyncIsDurable
<1>1. HealthyInv => SyncIsDurable
  BY DEF HealthyInv, CopiesInv, SyncIsDurable
<1> QED BY <1>1, AlwaysHealthyInv, PTL
-----------------------------------------------------------------------------
(***************************************************************************)
(* A primary header that Load refuses.  The writes of entries need a Load  *)
(* that took the header, and when one of them overwrites it, with junk.    *)
(***************************************************************************)
OpenedInv ==
  pc # "closed" => seen.ph.kind \in {"good", "junk"}

LEMMA StepOpened ==
  ASSUME TypeOK, OpenedInv, [Next]_vars
  PROVE  OpenedInv'
<1> USE DEF OpenedInv
<1>1. ASSUME NEW new, NEW b, StartSync(new, b), seen.ph.kind = "good"
      PROVE  OpenedInv'
  <2>1. seen' = [seen EXCEPT !.ph.sum = new] => seen'.ph.kind = "good"
    BY <1>1 DEF TypeOK, Disks, Headers
  <2> QED BY <1>1, <2>1 DEF StartSync, Fails, Close
<1>2. CASE \/ \E new \in GoodTables : Update(new)
           \/ Query \/ LoadFailsOnEntries \/ LoadFailsOnBackup
  BY <1>1, <1>2 DEF Update, Query, LoadFailsOnEntries, LoadFailsOnBackup
<1>3. CASE LoadRefusesHeader \/ HeaderUnread
  BY <1>3 DEF LoadRefusesHeader, HeaderUnread, SyncWithoutEntries, Close
<1>4. CASE WritePrimaryEntries \/ WriteBackupEntries \/ WriteBackupHeader
  <2>1. pc' = "closed" \/ seen'.ph = seen.ph
    BY <1>4
    DEF WritePrimaryEntries, WriteBackupEntries, WriteBackupHeader, Fails,
        Close, TypeOK, Disks
  <2>2. pc # "closed"
    BY <1>4 DEF WritePrimaryEntries, WriteBackupEntries, WriteBackupHeader
  <2> QED BY <2>1, <2>2
<1>5. CASE MisplaceBackupEntries
  <2>1. CASE seen' = [seen EXCEPT !.ph = [kind |-> "junk", sum |-> NoTable],
                                  !.pe[1] = Junk]
    <3>1. seen'.ph = [kind |-> "junk", sum |-> NoTable]
      BY <2>1 DEF TypeOK, Disks
    <3> QED BY <3>1
  <2>2. CASE seen' = seen
    BY <1>5, <2>2 DEF MisplaceBackupEntries
  <2> QED BY <1>5, <2>1, <2>2 DEF MisplaceBackupEntries
<1>6. CASE Fsync \/ Kill \/ PowerFails
  BY <1>6 DEF Fsync, Kill, PowerFails, Close
<1>7. CASE WriteBack \/ UNCHANGED vars
  BY <1>7 DEF WriteBack, vars
<1> QED BY <1>2, <1>3, <1>4, <1>5, <1>6, <1>7 DEF Next

LEMMA RefusedStep ==
  ASSUME HealthyInv, OpenedInv, [Next]_vars, faults # "reads",
         seen.ph.kind \in {"badsig", "zero"}
  PROVE  seen'.pe = seen.pe /\ seen'.be = seen.be
<1>1. faults # "power" /\ pc = "closed"
  BY DEF HealthyInv, CopiesInv, KindsGood, OpenedInv
<1>2. CASE LoadRefusesHeader
  <2>1. \A h : /\ PrimaryWritten(seen, h).pe = seen.pe
               /\ PrimaryWritten(seen, h).be = seen.be
    BY DEF PrimaryWritten, HealthyInv, TypeOK, Disks
  <2>2. \A h, b : /\ BackupWritten(PrimaryWritten(seen, h), b).pe = seen.pe
                  /\ BackupWritten(PrimaryWritten(seen, h), b).be = seen.be
    BY DEF BackupWritten, PrimaryWritten, HealthyInv, TypeOK, Disks
  <2> QED BY <1>2, <2>1, <2>2 DEF LoadRefusesHeader, SyncWithoutEntries
<1>3. CASE UNCHANGED vars
  BY <1>3 DEF vars
<1> QED
  BY <1>1, <1>2, <1>3
  DEF Next, Update, Query, LoadFailsOnEntries, LoadFailsOnBackup, ReadFails,
      HeaderUnread, WritePrimaryEntries, WriteBackupEntries,
      MisplaceBackupEntries, WriteBackupHeader, Fsync, Kill, WriteBack, PowerFails

(***************************************************************************)
(* For every disk, damaged in whatever way, as long as no read fails: once *)
(* the primary header lost its signature or was zeroed, no sequence of     *)
(* calls changes either copy of the entries, though each destructor writes *)
(* headers.                                                                *)
(***************************************************************************)
THEOREM RefusedHeadersKeepEntries == Spec => RefusedHeaderKeepsEntries
<1>1. Init => OpenedInv
  BY DEF Init, OpenedInv
<1>2. HealthyInv /\ OpenedInv /\ [Next]_vars => OpenedInv'
  BY StepOpened DEF HealthyInv
<1>3. HealthyInv /\ OpenedInv /\ [Next]_vars =>
        [faults # "reads" /\ seen.ph.kind \in {"badsig", "zero"} =>
           seen'.pe = seen.pe /\ seen'.be = seen.be]_vars
  BY RefusedStep
<1> QED
  BY <1>1, <1>2, <1>3, AlwaysHealthyInv, PTL DEF Spec, RefusedHeaderKeepsEntries
-----------------------------------------------------------------------------
(***************************************************************************)
(* The cell.  A Sync that starts with both copies valid leaves the backup  *)
(* to be found; what is found becomes the new table when the last block    *)
(* that differs is written, and stays it.  Lost writes need a Sync begun.  *)
(***************************************************************************)
LEMMA FoundType ==
  ASSUME TypeOK
  PROVE  /\ Found(seen) \in Tables \cup {NoTable}
         /\ Found(media) \in Tables \cup {NoTable}
         /\ ent \in Tables /\ ent # NoTable
BY ValuesAssumption DEF TypeOK, Disks, Found

(* Where the Sync is past the primary entries, its table is found.         *)
LEMMA NewIsFound ==
  ASSUME faults = "power", HealthyInv, pc \in {"be", "bh", "fsync"}
  PROVE  PrimaryValid(seen) /\ Found(seen) = ent
BY DEF HealthyInv, CopiesInv, KindsGood, Progress, PrimaryValid, Found

(* The object is closed in the middle.                                     *)
LEMMA CutOffCell ==
  ASSUME faults = "power", HealthyInv, pc # "closed", pc' = "closed",
         UNCHANGED <<faults, seen, begun>>
  PROVE  Cell!CutOff
BY FoundType DEF HealthyInv, Cell!CutOff

LEMMA StartSyncCell ==
  ASSUME faults = "power", HealthyInv, NEW new \in Tables, StartSync(new, "good"),
         UNCHANGED faults
  PROVE  Cell!Start(new) \/ UNCHANGED Cell!cellvars
<1>1. pc = "closed" /\ UNCHANGED faults
  BY DEF StartSync
<1>2. CASE UNCHANGED <<seen, begun>> /\ pc' = "closed"
  BY <1>1, <1>2 DEF Cell!cellvars
<1>3. CASE /\ seen.ph.sum # new /\ seen' = [seen EXCEPT !.ph.sum = new]
           /\ pc' = "pe" /\ ent' = new
           /\ begun' = IF begun < 2 THEN begun + 1 ELSE 2
  <2>1. /\ seen'.ph.kind = seen.ph.kind /\ seen'.ph.sum = new
        /\ seen'.pe = seen.pe /\ seen'.be = seen.be /\ seen'.bh = seen.bh
        /\ seen' \in Disks
    BY <1>3 DEF HealthyInv, TypeOK, Disks, Headers
  <2>2. CASE begun = 0
    <3>1. Healthy(seen)
      BY <2>2 DEF HealthyInv, CopiesInv
    <3>2. Found(seen') = Found(seen)
      BY <1>3, <2>1, <3>1 DEF Healthy, PrimaryValid, BackupValid, Found
    <3> QED BY <1>1, <1>3, <2>2, <3>2 DEF Cell!Start
  <2>3. CASE begun # 0
    <3>1. begun' = 2
      BY <1>3, <2>3 DEF HealthyInv, TypeOK
    <3>2. Found(seen') \in Tables \cup {NoTable}
      BY <2>1 DEF Disks, Found
    <3> QED BY <1>1, <1>3, <2>3, <3>1, <3>2 DEF Cell!Start
  <2> QED BY <2>2, <2>3
<1> QED BY <1>2, <1>3 DEF StartSync, Fails, Close

(* A block is written: the copy it is in becomes the new table, or the     *)
(* other one is found as before.                                           *)
LEMMA PrimaryEntriesCell ==
  ASSUME faults = "power", HealthyInv, WritePrimaryEntries
  PROVE  Cell!Commit \/ Cell!CutOff \/ UNCHANGED Cell!cellvars
<1>1. CASE Fails
  BY <1>1, CutOffCell DEF WritePrimaryEntries, Fails, Close
<1>2. CASE /\ pc = "pe" /\ seen' = [seen EXCEPT !.pe[k] = ent[k]]
           /\ NextBlock("be") /\ UNCHANGED faults /\ UNCHANGED <<media, ent, bk, begun, last>>
  <2>1. /\ seen'.ph = seen.ph /\ seen'.be = seen.be /\ seen'.bh = seen.bh
        /\ seen'.pe = [seen.pe EXCEPT ![k] = ent[k]]
        /\ seen.pe \in Tables /\ seen.ph.sum = ent
    BY <1>2 DEF HealthyInv, TypeOK, Disks, CopiesInv, Progress
  <2>2. pc' \in {"pe", "be"}
    BY <1>2 DEF NextBlock
  <2>3. CASE PrimaryValid(seen')
    <3>1. Found(seen') = ent
      BY <2>1, <2>3 DEF PrimaryValid, Found
    <3> QED BY <1>2, <2>2, <3>1, FoundType DEF HealthyInv, Cell!Commit
  <2>4. CASE ~PrimaryValid(seen')
    <3>1. ~PrimaryValid(seen)
      <4>1. SUFFICES ASSUME PrimaryValid(seen) PROVE FALSE
        OBVIOUS
      <4>2. seen.pe = ent
        BY <2>1, <4>1 DEF PrimaryValid
      <4>3. seen'.pe = seen.pe
        BY <2>1, <4>2 DEF Tables
      <4> QED BY <2>1, <2>4, <4>1, <4>3 DEF PrimaryValid
    <3>2. Found(seen') = Found(seen)
      BY <2>1, <2>4, <3>1 DEF BackupValid, Found
    <3> QED BY <1>2, <2>2, <3>2 DEF Cell!cellvars
  <2> QED BY <2>3, <2>4
<1> QED BY <1>1, <1>2 DEF WritePrimaryEntries

LEMMA BackupCell ==
  ASSUME faults = "power", HealthyInv, WriteBackupEntries \/ WriteBackupHeader
  PROVE  Cell!CutOff \/ UNCHANGED Cell!cellvars
<1>1. CASE Fails
  BY <1>1, CutOffCell DEF WriteBackupEntries, WriteBackupHeader, Fails, Close
<1>2. CASE /\ pc \in {"be", "bh"} /\ pc' \in {"be", "bh", "fsync"}
           /\ seen'.ph = seen.ph /\ seen'.pe = seen.pe
           /\ UNCHANGED <<faults, ent, begun>>
  <2>1. PrimaryValid(seen)
    BY <1>2, NewIsFound
  <2>2. Found(seen') = Found(seen)
    BY <1>2, <2>1 DEF PrimaryValid, Found
  <2> QED BY <1>2, <2>2 DEF Cell!cellvars
<1>3. seen \in [ph : Headers, pe : Tables, be : Tables, bh : Headers]
  BY DEF HealthyInv, TypeOK, Disks
<1>4. CASE WriteBackupEntries
  BY <1>1, <1>2, <1>3, <1>4 DEF WriteBackupEntries, NextBlock
<1>5. CASE WriteBackupHeader
  BY <1>1, <1>2, <1>3, <1>5 DEF WriteBackupHeader
<1> QED BY <1>4, <1>5

LEMMA FsyncCell ==
  ASSUME faults = "power", HealthyInv, Fsync
  PROVE  Cell!Complete \/ Cell!CutOff
<1>1. CASE begun' = 0 /\ Close("written")
  <2>1. Found(seen) = ent /\ Found(seen') = ent
    BY NewIsFound DEF Fsync
  <2> QED BY <1>1, <2>1, FoundType DEF Fsync, Close, HealthyInv, Cell!Complete
<1>2. CASE Close("unsynced") /\ UNCHANGED begun
  BY <1>2, CutOffCell DEF Fsync, Close
<1> QED BY <1>1, <1>2 DEF Fsync

LEMMA PowerFailsCell ==
  ASSUME faults = "power", HealthyInv, PowerFails
  PROVE  Cell!WritesLost \/ Cell!CutOff \/ UNCHANGED Cell!cellvars
<1>1. pc' = "closed" /\ seen' = media /\ UNCHANGED faults
  BY DEF PowerFails, Close
<1>2. CASE seen = media
  <2>1. UNCHANGED <<seen, begun>>
    BY <1>1, <1>2 DEF PowerFails
  <2>2. CASE pc = "closed"
    BY <1>1, <2>1, <2>2 DEF Cell!cellvars
  <2>3. CASE pc # "closed"
    BY <1>1, <2>1, <2>3, CutOffCell
  <2> QED BY <2>2, <2>3
<1>3. CASE seen # media
  <2>1. begun # 0 /\ begun' = 2
    BY <1>3 DEF PowerFails, HealthyInv, CopiesInv
  <2> QED BY <1>1, <2>1, FoundType DEF HealthyInv, Cell!WritesLost
<1> QED BY <1>2, <1>3

LEMMA StepCell ==
  ASSUME HealthyInv, [Next]_vars PROVE [Cell!CellNext]_(Cell!cellvars)
<1>1. CASE faults # "power"
  BY <1>1, SameFaults DEF Cell!cellvars
<1>2. CASE faults = "power" /\ Next
  <2>1. seen.ph.kind = "good" /\ seen.bh.kind = "good"
    BY <1>2 DEF HealthyInv, CopiesInv, KindsGood
  <2>2. ASSUME NEW new \in GoodTables, Update(new)
        PROVE  [Cell!CellNext]_(Cell!cellvars)
    <3>1. new \in Tables
      BY DEF GoodTables, Tables
    <3> QED BY <1>2, <2>1, <2>2, <3>1, StartSyncCell DEF Update, Cell!CellNext
  <2>3. CASE Query
    <3>1. seen.pe \in Tables
      BY DiskParts DEF HealthyInv
    <3> QED BY <1>2, <2>1, <2>3, <3>1, StartSyncCell DEF Query, Cell!CellNext
  <2>4. CASE WritePrimaryEntries
    BY <1>2, <2>4, PrimaryEntriesCell DEF Cell!CellNext
  <2>5. CASE WriteBackupEntries \/ WriteBackupHeader
    BY <1>2, <2>5, BackupCell DEF Cell!CellNext
  <2>6. CASE Fsync
    BY <1>2, <2>6, FsyncCell DEF Cell!CellNext
  <2>7. CASE Kill
    BY <1>2, <2>7, CutOffCell DEF Kill, Close, Cell!CellNext
  <2>8. CASE PowerFails
    BY <1>2, <2>8, PowerFailsCell DEF Cell!CellNext
  <2>9. CASE WriteBack
    BY <2>9 DEF WriteBack, Cell!cellvars
  <2>10. ~(\/ LoadFailsOnEntries \/ LoadFailsOnBackup \/ LoadRefusesHeader
           \/ HeaderUnread \/ MisplaceBackupEntries)
    BY <1>2, <2>1
    DEF LoadFailsOnEntries, LoadFailsOnBackup, LoadRefusesHeader, HeaderUnread,
        ReadFails, MisplaceBackupEntries, HealthyInv, CopiesInv, KindsGood
  <2> QED
    BY <1>2, <2>2, <2>3, <2>4, <2>5, <2>6, <2>7, <2>8, <2>9, <2>10 DEF Next
<1>3. CASE UNCHANGED vars
  BY <1>3 DEF vars, Cell!cellvars
<1> QED BY <1>1, <1>2, <1>3

(***************************************************************************)
(* From healthy disks, whatever writes fail and wherever a Sync is cut off *)
(* or the power lost, as long as reads do not fail: the table that a       *)
(* reader finds who checks the CRCs and knows the backup (not Load) is an  *)
(* atomic cell.  A Sync that is cut off leaves the old table or the new    *)
(* one, and none of their mixtures is ever found, unless a Sync before it  *)
(* was cut off too.                                                        *)
(***************************************************************************)
THEOREM TablesChangeAtomically == Spec => ImplementsGptCell
<1>1. Init => Cell!CellInit
  <2> SUFFICES ASSUME Init PROVE Cell!CellInit
    OBVIOUS
  <2>1. faults = "power" => Found(seen) = seen.pe
    BY DEF Init, Healthy, Found
  <2>2. seen.pe \in Tables
    BY DisksAssumption DEF Init, Disks
  <2> QED BY <2>1, <2>2, ZerosType DEF Init, Cell!CellInit
<1>2. HealthyInv /\ [Next]_vars => [Cell!CellNext]_(Cell!cellvars)
  BY StepCell
<1> QED
  BY <1>1, <1>2, AlwaysHealthyInv, PTL DEF Spec, ImplementsGptCell, Cell!CellSpec
=============================================================================
