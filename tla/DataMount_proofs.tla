--------------------------- MODULE DataMount_proofs ---------------------------
(***************************************************************************)
(* Proofs about DataMount, for any file systems, flags and mounts on top   *)
(* of /data: the type invariant, that what was written survives, that only *)
(* other processes hold /data at the reboot, and the ciphers handed on.    *)
(***************************************************************************)
EXTENDS DataMount, TLAPS

(***************************************************************************)
(* Who uses /data, by the place TWRP's thread is at: nobody before the     *)
(* partition is mapped, and not what TWRP itself controls once it has      *)
(* cleared /data for the reboot.                                           *)
(***************************************************************************)
Users ==
  /\ thread \in {"start", "helper"} => ~isDecrypted
  /\ thread = "start" => ~mapper
  /\ thread = "opened" => mapper
  /\ ~mapper => unsaved = {} /\ ~mtp /\ ~shell
  /\ ~mounted => onTop = {}
  /\ thread = "cleared" /\ mounted => ~mtp /\ onTop = {}

(***************************************************************************)
(* Why no data is lost in silence: once the thread is past the decryption, *)
(* the checkpoint is enabled or the log warns, so that the sync before the *)
(* reboot has put everything on the disk or the log warns.                 *)
(***************************************************************************)
Safe ==
  /\ phone.fs # "f2fs" => checkpoint
  /\ /\ thread \in {"up", "asked", "synced", "cleared", "off"}
     /\ mapper /\ ~checkpoint
     => warned
  /\ "before" \in unsaved /\ thread \in {"synced", "cleared"} => warned
  /\ thread # "off" => lost = {} /\ ~lazy

IInv == TypeOK /\ Users /\ Safe /\ WrittenSurvives /\ OnlyOthersHoldData

-----------------------------------------------------------------------------
LEMMA IInvInit == Init => IInv
BY FsAssumption
DEF Init, IInv, TypeOK, Users, Safe, WrittenSurvives, OnlyOthersHoldData,
    Threads

(* The checkpoint after a mount or a probe that found the file system.     *)
LEMMA CommitIsSafe ==
  ASSUME IInv, CheckFsType, CommitCheckpoint
  PROVE  /\ checkpoint' \in BOOLEAN /\ warned' \in BOOLEAN
         /\ unsaved' \in {unsaved, {}}
         /\ warned => warned'
         /\ checkpoint => checkpoint'
         /\ checkpoint' \/ warned'
<1>1. CASE phone.fs = "f2fs"
  BY <1>1 DEF IInv, TypeOK, CheckFsType, CommitCheckpoint
<1>2. CASE phone.fs # "f2fs"
  BY <1>2 DEF IInv, TypeOK, Safe, CheckFsType, CommitCheckpoint
<1>3. QED BY <1>1, <1>2

LEMMA FlushedIs ==
  ASSUME IInv
  PROVE  Flushed \in {unsaved, {}} /\ (Flushed # {} => ~checkpoint)
BY DEF Flushed

LEMMA IInvStep == IInv /\ [Next]_vars => IInv'
<1> SUFFICES ASSUME IInv, [Next]_vars PROVE IInv'
  OBVIOUS
<1> USE DEF IInv, TypeOK, Threads, Users, Safe, WrittenSurvives,
            OnlyOthersHoldData
<1>0. phone.fs \in FileSystems /\ phone.fstab \in FileSystems
  BY DEF Phones
<1>1. CASE SkipDecrypt
  BY <1>0, <1>1 DEF SkipDecrypt, users
<1>2. CASE ForkHelper
  BY <1>0, <1>2 DEF ForkHelper, users
<1>3. CASE HelperFails
  BY <1>3 DEF HelperFails, fs, users
<1>4. CASE FinishDecrypt
  <2>1. CheckFsType /\ CommitCheckpoint
    BY <1>4 DEF FinishDecrypt, RestartMtp
  <2>2. QED BY <1>0, <1>4, <2>1, CommitIsSafe DEF FinishDecrypt, RestartMtp, CheckFsType
<1>5. CASE HelperMaps
  BY <1>5 DEF HelperMaps, users
<1>6. CASE HelperMounts
  BY <1>6 DEF HelperMounts, fs, users
<1>7. CASE HelperSucceeds
  BY <1>7 DEF HelperSucceeds, users
<1>8. CASE PostDecrypt
  <2>1. CASE mounted
    BY <1>0, <1>8, <2>1 DEF PostDecrypt, RestartMtp, CheckFsType, users
  <2>2. CASE ~mounted
    <3>1. CheckFsType /\ CommitCheckpoint
      BY <1>8, <2>2 DEF PostDecrypt, RestartMtp
    <3>2. QED BY <1>0, <1>8, <3>1, CommitIsSafe
              DEF PostDecrypt, RestartMtp, CheckFsType, users
  <2>3. QED BY <2>1, <2>2
<1>9. CASE UnMount
  BY <1>9, FlushedIs DEF UnMount, fs, users
<1>10. CASE Mount
  <2>1. CheckFsType /\ CommitCheckpoint
    BY <1>10 DEF Mount
  <2>2. QED BY <1>0, <1>10, <2>1, CommitIsSafe DEF Mount, CheckFsType, users
<1>11. CASE OpenFiles
  BY <1>11 DEF OpenFiles, fs
<1>12. CASE CloseFiles
  BY <1>12, FlushedIs DEF CloseFiles, fs
<1>13. CASE Write
  BY <1>13 DEF Write, fs, users
<1>14. ASSUME NEW p \in Packages, Install(p) PROVE IInv'
  BY <1>14
  DEF Install, PerformPowerwashIfRequired, SchedulePowerwash, fs, users
<1>15. CASE AskReboot
  BY <1>15 DEF AskReboot, fs, users
<1>16. CASE SyncBeforeReboot
  BY <1>16, FlushedIs DEF SyncBeforeReboot, Sync, fs, users
<1>17. CASE ClearBeforeReboot
  BY <1>17 DEF ClearBeforeReboot, ClearData, fs
<1>18. CASE Reboot
  <2>1. unsaved' \subseteq unsaved
    BY <1>18, FlushedIs DEF Reboot
  <2>2. "before" \in unsaved' => warned
    BY <1>18, <2>1 DEF Reboot
  <2>3. lazy' => shell /\ ~mtp
    BY <1>18 DEF Reboot, Busy
  <2>4. ASSUME "after" \in unsaved' PROVE shell \/ mtp \/ warned
    <3>1. CASE Busy
      <4>1. onTop = {}
        BY <1>18 DEF Reboot
      <4>2. QED BY <3>1, <4>1 DEF Busy
    <3>2. CASE ~Busy
      <4>1. ~checkpoint /\ mapper
        BY <1>18, <2>4, <3>2, FlushedIs DEF Reboot
      <4>2. QED BY <1>18, <4>1 DEF Reboot
    <3>3. QED BY <3>1, <3>2
  <2>5. lost' = unsaved'
    BY <1>18 DEF Reboot
  <2>6. lazy' \in BOOLEAN
    BY <1>18 DEF Reboot, Busy
  <2>7. QED BY <1>18, <2>1, <2>2, <2>3, <2>4, <2>5, <2>6
            DEF Reboot, fs, users
<1>19. CASE UNCHANGED vars
  BY <1>19 DEF vars, fs, users
<1>20. QED
  BY <1>1, <1>2, <1>3, <1>4, <1>5, <1>6, <1>7, <1>8, <1>9, <1>10, <1>11,
     <1>12, <1>13, <1>14, <1>15, <1>16, <1>17, <1>18, <1>19
  DEF Next, Decrypting, Helper, Rebooting

LEMMA IInvHolds == Spec => []IInv
BY IInvInit, IInvStep, PTL DEF Spec

-----------------------------------------------------------------------------
(* Nothing is mounted, and no user decrypted, without the device the       *)
(* helper maps, wherever the helper is killed.                             *)
THEOREM MountTypeCorrect == Spec => []TypeOK
BY IInvHolds, PTL DEF IInv

(* What was written before the reboot was asked for is there in the next   *)
(* boot, or the log warns: for any file systems, through the remounts of   *)
(* TWPartition::Mount and the steps of tw_reboot.                          *)
THEOREM WritesSurvive == Spec => []WrittenSurvives
BY IInvHolds, PTL DEF IInv

(* tw_reboot leaves /data attached to nothing that TWRP controls.          *)
THEOREM DataIsReleased == Spec => []OnlyOthersHoldData
BY IInvHolds, PTL DEF IInv

-----------------------------------------------------------------------------
LEMMA Prepended ==
  ASSUME NEW S, NEW s \in Seq(S), NEW e \in S
  PROVE  /\ <<e>> \o s \in Seq(S)
         /\ Len(<<e>> \o s) = Len(s) + 1
         /\ (<<e>> \o s)[1] = e
         /\ \A i \in 2 .. Len(s) + 1 : (<<e>> \o s)[i] = s[i - 1]
OBVIOUS

LEMMA Shortened ==
  ASSUME NEW S, NEW s \in Seq(S), s # <<>>
  PROVE  /\ Tail(s) \in Seq(S)
         /\ Len(s) \in Nat \ {0} /\ Len(Tail(s)) = Len(s) - 1
         /\ Head(s) = s[1] /\ s[1] \in S
         /\ \A i \in 1 .. Len(s) - 1 : Tail(s)[i] = s[i + 1]
OBVIOUS

Named(flag, i) ==
  IF i <= 2 /\ flag[i] = "" THEN <<"aes-256-xts", "aes-256-cts">>[i]
  ELSE flag[i]

LEMMA NamedAs ==
  ASSUME NEW flag
  PROVE  /\ \A i \in Nat : i > 2 => Named(flag, i) = flag[i]
         /\ Named(flag, 1) = OrDefault(flag[1], "aes-256-xts")
         /\ Named(flag, 2) = OrDefault(flag[2], "aes-256-cts")
<1>1. ASSUME NEW i \in Nat, i > 2 PROVE Named(flag, i) = flag[i]
  <2>1. ~(i <= 2)
    BY <1>1
  <2>2. QED BY <2>1, Zenon DEF Named
<1>2. Named(flag, 1) = OrDefault(flag[1], "aes-256-xts")
  BY DEF Named, OrDefault
<1>3. Named(flag, 2) = OrDefault(flag[2], "aes-256-cts")
  BY DEF Named, OrDefault
<1>4. QED BY <1>1, <1>2, <1>3

(* The names of ciphers; the provers do not know a literal for a string.   *)
Names == STRING \cup {"aes-256-xts", "aes-256-cts"}

LEMMA DefaultIsName ==
  ASSUME NEW name \in Names
  PROVE  /\ OrDefault(name, "aes-256-xts") \in Names
         /\ OrDefault(name, "aes-256-cts") \in Names
BY DEF OrDefault, Names

LEMMA StringsAreNames ==
  ASSUME NEW s \in Seq(STRING)
  PROVE  s \in Seq(Names)
BY DEF Names

LEMMA FilenamesOf ==
  ASSUME NEW flag \in Seq(Names), flag # <<>>
  PROVE  /\ Filenames(flag) \in Seq(Names)
         /\ Len(Filenames(flag)) = Len(flag) - 1
         /\ \A i \in 2 .. Len(flag) : Filenames(flag)[i - 1] = Named(flag, i)
<1> DEFINE rest == Tail(flag)
           first == OrDefault(Head(rest), "aes-256-cts")
           names == <<first>> \o Tail(rest)
<1>1. /\ rest \in Seq(Names)
      /\ Len(flag) \in Nat \ {0} /\ Len(rest) = Len(flag) - 1
      /\ \A i \in 1 .. Len(flag) - 1 : rest[i] = flag[i + 1]
  BY Shortened
<1>2. CASE rest = <<>>
  <2>1. Filenames(flag) = <<>>
    BY <1>2 DEF Filenames
  <2> HIDE DEF rest
  <2>2. Len(flag) = 1
    BY <1>1, <1>2
  <2>3. QED BY <2>1, <2>2
<1>3. CASE rest # <<>>
  <2>1. /\ Tail(rest) \in Seq(Names)
        /\ Len(rest) \in Nat \ {0} /\ Len(Tail(rest)) = Len(rest) - 1
        /\ Head(rest) = rest[1] /\ rest[1] \in Names
        /\ \A i \in 1 .. Len(rest) - 1 : Tail(rest)[i] = rest[i + 1]
    BY <1>1, <1>3, Shortened
  <2>2. Head(rest) = flag[2]
    BY <1>1, <2>1
  <2>3. first \in Names /\ first = Named(flag, 2)
    <3>1. first \in Names
      BY <2>1, DefaultIsName
    <3>2. first = Named(flag, 2)
      BY <2>2, NamedAs
    <3>3. QED BY <3>1, <3>2
  <2>4. Filenames(flag) = names
    BY <1>3 DEF Filenames
  <2> HIDE DEF rest, first
  <2>5. /\ names \in Seq(Names)
        /\ Len(names) = Len(Tail(rest)) + 1
        /\ names[1] = first
        /\ \A i \in 2 .. Len(Tail(rest)) + 1 : names[i] = Tail(rest)[i - 1]
    BY <2>1, <2>3, Prepended
  <2> HIDE DEF names
  <2>6. ASSUME NEW i \in 3 .. Len(flag) PROVE names[i - 1] = Named(flag, i)
    <3>1. names[i - 1] = Tail(rest)[i - 2]
      BY <1>1, <2>1, <2>5
    <3>2. Tail(rest)[i - 2] = rest[i - 1]
      BY <1>1, <2>1
    <3>3. rest[i - 1] = flag[i]
      BY <1>1
    <3>4. Named(flag, i) = flag[i]
      BY <1>1, NamedAs
    <3>5. QED BY <3>1, <3>2, <3>3, <3>4
  <2>7. \A i \in 2 .. Len(flag) : names[i - 1] = Named(flag, i)
    <3>1. ASSUME NEW i \in 2 .. Len(flag) PROVE i = 2 \/ i \in 3 .. Len(flag)
      BY <1>1
    <3>2. names[2 - 1] = Named(flag, 2)
      BY <2>3, <2>5
    <3>3. QED BY <2>6, <3>1, <3>2
  <2>8. Len(names) = Len(flag) - 1
    BY <1>1, <2>1, <2>5
  <2>9. QED BY <2>4, <2>5, <2>7, <2>8
<1>4. QED BY <1>2, <1>3

LEMMA CiphersOf ==
  ASSUME NEW flag \in Seq(Names), flag # <<>>
  PROVE  LET handedOn == <<Contents(flag)>> \o Filenames(flag)
         IN  /\ Len(handedOn) = Len(flag)
             /\ \A i \in 1 .. Len(flag) : handedOn[i] = Named(flag, i)
<1> DEFINE names == Filenames(flag)
           handedOn == <<Contents(flag)>> \o names
<1>1. Contents(flag) = Named(flag, 1) /\ Contents(flag) \in Names
  <2>1. flag[1] \in Names
    BY Shortened
  <2>2. Contents(flag) \in Names
    BY <2>1, DefaultIsName DEF Contents
  <2>3. Contents(flag) = Named(flag, 1)
    BY NamedAs DEF Contents
  <2>4. QED BY <2>2, <2>3
<1>2. /\ names \in Seq(Names)
      /\ Len(names) = Len(flag) - 1
      /\ \A i \in 2 .. Len(flag) : names[i - 1] = Named(flag, i)
  BY FilenamesOf
<1> HIDE DEF names
<1>3. /\ Len(handedOn) = Len(names) + 1
      /\ handedOn[1] = Contents(flag)
      /\ \A i \in 2 .. Len(names) + 1 : handedOn[i] = names[i - 1]
  BY <1>1, <1>2, Prepended
<1>4. Len(flag) \in Nat \ {0}
  BY Shortened
<1> HIDE DEF handedOn
<1>5. Len(handedOn) = Len(flag)
  BY <1>2, <1>3, <1>4
<1>6. ASSUME NEW i \in 1 .. Len(flag) PROVE handedOn[i] = Named(flag, i)
  <2>1. i = 1 \/ i \in 2 .. Len(flag)
    BY <1>4
  <2>2. QED BY <1>1, <1>2, <1>3, <1>4, <2>1
<1>7. QED BY <1>5, <1>6 DEF handedOn, names

(* Apply_TW_Flag fills in the names a flag leaves out, for every flag of   *)
(* any length, and hands the others on.                                    *)
THEOREM CiphersNamed == Spec => []CiphersAreNamed
<1>1. TypeOK => CiphersAreNamed
  <2>1. ASSUME TypeOK PROVE phone.flag \in Seq(STRING) /\ phone.flag # <<>>
    BY <2>1, FlagsAssumption DEF TypeOK, Phones
  <2>2. QED BY <2>1, StringsAreNames, CiphersOf DEF CiphersAreNamed, Named
<1>2. QED BY <1>1, MountTypeCorrect, PTL
=============================================================================
