---------------------------- MODULE FbeKeys_proofs ----------------------------
(***************************************************************************)
(* Proofs about FbeKeys, for any users, passwords and number of tries: the *)
(* type invariant, that a user shown as decrypted can be read, that a      *)
(* remount restores the keys, that a wrong password is tried once, and     *)
(* that an unmount of an unused /data releases the file system.            *)
(***************************************************************************)
EXTENDS FbeKeys, TLAPS

(***************************************************************************)
(* How the three accounts of the keys relate.  While /data is mounted,     *)
(* what TWRP believes is less than what vold believes, and that is less    *)
(* than what the kernel has.  While it is not, both believe nothing, for   *)
(* the kernel's keys go away without their notice when the last file of a  *)
(* detached mount is closed; and the next mount is asked for the keys.     *)
(***************************************************************************)
Accounts ==
  /\ mounted => /\ marked \subseteq ce /\ ce \subseteq kernel
                /\ de => DE \in kernel
                /\ marked # {} => DE \in kernel
  /\ ~mounted => marked = {} /\ ce = {} /\ ~de /\ rekey

(* Only a directory made anew is bound over an older layer.                *)
Layers == sdcard.fresh \/ sdcard.layers < MaxLayers

(* A password that failed on user 0 is not cached any more.                *)
Guesses ==
  /\ guesses \in {0, 1}
  /\ guesses = 1 => cached \in {NoPassword, secret[User0]}

(* An unmount in which nobody has files open goes through: the loop ends   *)
(* with no layer left, and then nothing keeps the file system.             *)
Releases ==
  /\ at # "idle" => mounted
  /\ 0 \in held => mounted
  /\ \A l \in held : l <= sdcard.layers
  /\ ~used => held = {} /\ ~gone
  /\ at = "data" /\ ~used => sdcard.layers = 0
  /\ ~mounted /\ ~used => sdcard.layers = 0 /\ kernel = {}

IInv == TypeOK /\ Accounts /\ Layers /\ Guesses /\ Releases

-----------------------------------------------------------------------------
LEMMA IInvInit == Init => IInv
<1> SUFFICES ASSUME Init PROVE IInv
  OBVIOUS
<1>1. sdcard \in [layers : 0 .. MaxLayers, fresh : BOOLEAN] /\ sdcard.fresh
  BY BoundAssumption DEF Init
<1>2. TypeOK
  <2>1. /\ mounted \in BOOLEAN /\ userDir \in BOOLEAN /\ held \subseteq 0 .. MaxLayers
        /\ gone \in BOOLEAN /\ at \in {"idle", "layers", "data"} /\ used \in BOOLEAN
        /\ de \in BOOLEAN /\ rekey \in BOOLEAN
    BY DEF Init
  <2>2. /\ secret \in [Users -> Secrets] /\ kernel \subseteq Users \cup {DE}
        /\ ce \subseteq Users /\ marked \subseteq Users
        /\ cached \in Secrets \cup {NoPassword}
    BY DEF Init
  <2>3. guesses \in 0 .. 2
    BY DEF Init
  <2>4. QED BY <1>1, <2>1, <2>2, <2>3 DEF TypeOK
<1>3. Accounts
  BY DEF Init, Accounts
<1>4. Layers /\ Guesses /\ Releases
  BY <1>1 DEF Init, Layers, Guesses, Releases
<1>5. QED BY <1>2, <1>3, <1>4 DEF IInv

(* What an installation of the keys of u and of others leaves.             *)
LEMMA DecryptedIs ==
  ASSUME NEW ks, NEW u \in Users, NEW p \in Secrets, NEW able \in SUBSET Users,
         Decrypted(ks, u, p, able), ce \subseteq Users, marked \subseteq ce,
         ce \subseteq ks, DE \in ks, ks \subseteq Users \cup {DE}
  PROVE  /\ kernel' \subseteq Users \cup {DE} /\ DE \in kernel'
         /\ ce' \subseteq Users /\ ce' \subseteq kernel' /\ marked' \subseteq ce'
         /\ u \in marked' /\ cached' = p
<1> DEFINE us == Opened(u, p, able)
<1>1. us \subseteq Users /\ u \in us
  BY DEF Opened
<1> HIDE DEF us
<1>2. /\ kernel' = ks \cup (us \ ce) /\ ce' = ce \cup us
      /\ marked' = marked \cup us /\ cached' = p
  BY DEF Decrypted, us
<1>3. QED BY <1>1, <1>2

LEMMA BindMountIs ==
  ASSUME TypeOK, Layers
  PROVE  /\ BindMount(sdcard) \in [layers : 0 .. MaxLayers, fresh : BOOLEAN]
         /\ BindMount(sdcard).fresh
BY BoundAssumption DEF TypeOK, Layers, BindMount

(* What the next mount does to the keys, when the device keys come back.   *)
LEMMA AutoDecryptIs ==
  ASSUME IInv, ~mounted, NEW able \in SUBSET Users, AutoDecrypt(able)
  PROVE  /\ kernel' \subseteq Users \cup {DE} /\ DE \in kernel'
         /\ ce' \subseteq Users /\ ce' \subseteq kernel' /\ marked' \subseteq ce'
         /\ cached' \in Secrets \cup {NoPassword}
         /\ guesses' \in {0, 1}
         /\ guesses' = 1 => cached' \in {NoPassword, secret[User0]}
         /\ cached = secret[User0] /\ User0 \in able => User0 \in marked'
<1> USE SecretAssumption, UserAssumption
<1>1. /\ DeviceKeysInstalled = kernel \cup {DE} /\ marked = {} /\ ce = {}
      /\ secret[User0] \in Secrets
  BY DEF IInv, TypeOK, Accounts, DeviceKeysInstalled
<1>2. CASE cached = NoPassword
  BY <1>1, <1>2 DEF AutoDecrypt, IInv, TypeOK, Guesses
<1>3. CASE /\ cached # NoPassword
           /\ Opens(DeviceKeysInstalled, User0, cached, able)
  <2>1. Decrypted(DeviceKeysInstalled, User0, cached, able) /\ guesses' = guesses
    BY <1>3 DEF AutoDecrypt
  <2>2. cached = secret[User0] /\ cached \in Secrets
    BY <1>3 DEF Opens, IInv, TypeOK
  <2>3. kernel \cup {DE} \subseteq Users \cup {DE}
    BY DEF IInv, TypeOK
  <2>4. QED BY <1>1, <2>1, <2>2, <2>3, DecryptedIs DEF IInv, Guesses
<1>4. CASE /\ cached # NoPassword
           /\ ~Opens(DeviceKeysInstalled, User0, cached, able)
  <2>1. CachedPasswordFails
    BY <1>4 DEF AutoDecrypt
  <2>2. ~(cached = secret[User0] /\ User0 \in able)
    BY <1>1, <1>4 DEF Opens
  <2>3. guesses' \in {0, 1}
    BY <1>4, <2>1 DEF CachedPasswordFails, IInv, Guesses
  <2>4. QED BY <1>1, <2>1, <2>2, <2>3
            DEF CachedPasswordFails, IInv, TypeOK
<1>5. QED BY <1>2, <1>3, <1>4

-----------------------------------------------------------------------------
LEMMA IInvStep == IInv /\ [Next]_vars => IInv'
<1> SUFFICES ASSUME IInv, [Next]_vars PROVE IInv'
  OBVIOUS
<1> USE UserAssumption, SecretAssumption, BoundAssumption
<1>0. sdcard.layers \in 0 .. MaxLayers /\ BindMount(sdcard).layers >= sdcard.layers
  BY DEF IInv, TypeOK, BindMount
<1>1. ASSUME NEW u \in Users, NEW p \in Secrets, NEW able \in SUBSET Users,
             DecryptDevice(u, p, able)
      PROVE  IInv'
  <2>1. /\ mounted /\ mounted' /\ at = "idle" /\ at' = at
        /\ DE \in kernel /\ guesses' = 0
        /\ Decrypted(kernel, u, p, able)
        /\ UNCHANGED <<secret, userDir, held, gone, used, de, rekey>>
    BY <1>1 DEF DecryptDevice, Opens, others, IInv, TypeOK
  <2>2. /\ kernel' \subseteq Users \cup {DE} /\ DE \in kernel'
        /\ ce' \subseteq Users /\ ce' \subseteq kernel' /\ marked' \subseteq ce'
        /\ cached' = p
    BY <2>1, DecryptedIs DEF IInv, TypeOK, Accounts
  <2>3. sdcard' \in {sdcard, BindMount(sdcard)}
    BY <1>1 DEF DecryptDevice
  <2>4. /\ sdcard' \in [layers : 0 .. MaxLayers, fresh : BOOLEAN]
        /\ sdcard'.fresh \/ sdcard'.layers < MaxLayers
        /\ sdcard'.layers >= sdcard.layers
    BY <1>0, <2>3, BindMountIs DEF IInv, TypeOK, Layers
  <2>5. TypeOK'
    BY <2>1, <2>2, <2>4 DEF IInv, TypeOK
  <2>6. Releases'
    BY <1>0, <2>1, <2>4 DEF IInv, Releases, TypeOK
  <2>7. QED BY <2>1, <2>2, <2>4, <2>5, <2>6 DEF IInv, Accounts, Layers, Guesses
<1>2. ASSUME NEW fails \in 0 .. Tries, NEW dirs \in BOOLEAN,
             NEW able \in SUBSET Users, Mount(fails, dirs, able)
      PROVE  IInv'
  <2>1. /\ ~mounted /\ mounted' = TRUE /\ sdcard' = BindMount(sdcard)
        /\ Reinstall(fails, dirs, able) /\ rekey
        /\ UNCHANGED <<secret, held, gone, used, at>>
    BY <1>2 DEF Mount, others, IInv, Accounts
  <2>2. /\ sdcard' \in [layers : 0 .. MaxLayers, fresh : BOOLEAN]
        /\ sdcard'.fresh /\ sdcard'.layers >= sdcard.layers
    BY <1>0, <2>1, BindMountIs DEF IInv
  <2>3. Releases'
    BY <1>0, <2>1, <2>2 DEF IInv, Releases, TypeOK
  <2>4. CASE DeviceKeysComeBack(fails, dirs)
    <3>1. AutoDecrypt(able) /\ de' = TRUE /\ rekey' = FALSE /\ userDir' = dirs
      BY <2>1, <2>4 DEF Reinstall, PrepareSpecialDirs
    <3>2. TypeOK'
      <4>1. /\ kernel' \subseteq Users \cup {DE} /\ ce' \subseteq Users
            /\ marked' \subseteq Users /\ cached' \in Secrets \cup {NoPassword}
            /\ guesses' \in 0 .. 2
        BY <2>1, <3>1, AutoDecryptIs
      <4>2. /\ secret' \in [Users -> Secrets] /\ held' \subseteq 0 .. MaxLayers
            /\ gone' \in BOOLEAN /\ used' \in BOOLEAN
            /\ at' \in {"idle", "layers", "data"}
        BY <2>1 DEF IInv, TypeOK
      <4>3. QED BY <2>1, <2>2, <3>1, <4>1, <4>2 DEF TypeOK
    <3>3. Accounts'
      BY <2>1, <3>1, AutoDecryptIs DEF Accounts
    <3>4. Layers' /\ Guesses'
      BY <2>1, <2>2, <3>1, AutoDecryptIs DEF Layers, Guesses
    <3>5. QED BY <2>3, <3>2, <3>3, <3>4 DEF IInv
  <2>5. CASE ~DeviceKeysComeBack(fails, dirs)
    <3>1. rekey' = FALSE /\ UNCHANGED <<userDir, keys>>
      BY <2>1, <2>5 DEF Reinstall
    <3>2. TypeOK' /\ Accounts'
      BY <2>1, <2>2, <3>1 DEF keys, IInv, TypeOK, Accounts
    <3>3. QED BY <2>1, <2>2, <2>3, <3>1, <3>2 DEF keys, IInv, Layers, Guesses
  <2>6. QED BY <2>4, <2>5
<1>3. CASE MountWithoutSdcard
  <2>1. mounted' = TRUE /\ ~mounted
        /\ UNCHANGED <<secret, sdcard, userDir, held, gone, used, at, rekey, keys>>
    BY <1>3 DEF MountWithoutSdcard, others
  <2>2. QED BY <2>1
            DEF keys, IInv, TypeOK, Accounts, Layers, Guesses, Releases
<1>4. CASE UnMount
  <2>1. /\ mounted /\ at' = "layers" /\ used' = (held # {} \/ gone)
        /\ UNCHANGED <<secret, mounted, sdcard, userDir, held, gone, rekey, keys>>
    BY <1>4 DEF UnMount
  <2>2. used' \in BOOLEAN
    BY <2>1
  <2>3. QED BY <2>1, <2>2
            DEF keys, IInv, TypeOK, Accounts, Layers, Guesses, Releases
<1>5. CASE TakeLayer
  <2>1. /\ at = "layers" /\ sdcard.layers > 0 /\ ~Busy(sdcard.layers)
        /\ sdcard' = [layers |-> sdcard.layers - 1, fresh |-> FALSE]
        /\ UNCHANGED <<secret, mounted, userDir, held, gone, used, at, rekey, keys>>
    BY <1>5 DEF TakeLayer, others
  <2>2. /\ sdcard' \in [layers : 0 .. MaxLayers, fresh : BOOLEAN]
        /\ sdcard'.layers = sdcard.layers - 1 /\ sdcard'.layers < MaxLayers
    BY <1>0, <2>1
  <2>3. \A l \in held : l <= sdcard'.layers
    BY <1>0, <2>1, <2>2 DEF Busy, IInv, TypeOK, Releases
  <2>4. mounted /\ mounted'
    BY <2>1 DEF IInv, Releases
  <2>5. TypeOK' /\ Accounts' /\ Layers' /\ Guesses'
    BY <2>1, <2>2 DEF keys, IInv, TypeOK, Accounts, Layers, Guesses
  <2>6. Releases'
    BY <2>1, <2>2, <2>3, <2>4 DEF IInv, Releases
  <2>7. QED BY <2>5, <2>6 DEF IInv
<1>6. CASE LayersDone
  <2>1. /\ at = "layers" /\ (sdcard.layers = 0 \/ Busy(sdcard.layers))
        /\ userDir' \in {FALSE, userDir} /\ at' = "data"
        /\ UNCHANGED <<secret, mounted, sdcard, held, gone, used, rekey, keys>>
    BY <1>6 DEF LayersDone, others
  <2>2. ~used => sdcard.layers = 0
    BY <2>1 DEF Busy, IInv, Releases
  <2>3. QED BY <2>1, <2>2
            DEF keys, IInv, TypeOK, Accounts, Layers, Guesses, Releases
<1>7. CASE UnMountData
  <2>1. /\ at = "data" /\ mounted' = FALSE /\ at' = "idle" /\ userDir' = FALSE
        /\ held' = held \ {0} /\ gone' = (gone \/ Busy(0))
        /\ kernel' = IF mounted' \/ sdcard.layers > 0 \/ gone' THEN kernel ELSE {}
        /\ de' = FALSE /\ ce' = {} /\ marked' = {} /\ rekey' = TRUE
        /\ UNCHANGED <<secret, sdcard, used, cached, guesses>>
    BY <1>7 DEF UnMountData, KernelKeeps, ResetFbeCaches,
                ResetUsersDecryptionStatus, AskForKeys
  <2>2. TypeOK'
    BY <2>1 DEF IInv, TypeOK, Busy
  <2>3. Accounts' /\ Layers' /\ Guesses'
    BY <2>1 DEF IInv, Accounts, Layers, Guesses
  <2>4. ASSUME ~used PROVE held' = {} /\ ~gone' /\ sdcard'.layers = 0 /\ kernel' = {}
    <3>1. held = {} /\ ~gone /\ ~Busy(0) /\ sdcard.layers = 0
      BY <2>1, <2>4 DEF IInv, Releases, Busy
    <3>2. ~gone'
      BY <2>1, <3>1, Zenon
    <3>3. ~mounted' /\ ~(sdcard.layers > 0)
      BY <2>1, <3>1
    <3>4. kernel' = {}
      BY <2>1, <3>2, <3>3
    <3>5. QED BY <2>1, <3>1, <3>2, <3>4
  <2>5. 0 \notin held' /\ (\A l \in held' : l <= sdcard'.layers) /\ used' = used
    BY <2>1 DEF IInv, Releases
  <2>6. Releases'
    BY <2>1, <2>4, <2>5 DEF Releases
  <2>7. QED BY <2>2, <2>3, <2>6 DEF IInv
<1>8. CASE UnMountFails
  <2>1. /\ at' = "idle"
        /\ UNCHANGED <<secret, mounted, sdcard, userDir, held, gone, used, rekey, keys>>
    BY <1>8 DEF UnMountFails, others
  <2>2. QED BY <2>1
            DEF keys, IInv, TypeOK, Accounts, Layers, Guesses, Releases
<1>9. ASSUME NEW l \in 0 .. MaxLayers, OpenFiles(l) PROVE IInv'
  <2>1. /\ (l = 0 /\ mounted) \/ (l > 0 /\ l = sdcard.layers)
        /\ held' = held \cup {l} /\ used' = TRUE
        /\ UNCHANGED <<secret, mounted, sdcard, userDir, gone, at, rekey, keys>>
    BY <1>9 DEF OpenFiles
  <2>2. \A m \in held' : m <= sdcard.layers
    BY <1>0, <2>1 DEF IInv, Releases
  <2>3. TypeOK' /\ Accounts' /\ Layers' /\ Guesses'
    BY <2>1 DEF keys, IInv, TypeOK, Accounts, Layers, Guesses
  <2>4. Releases'
    BY <2>1, <2>2 DEF IInv, Releases
  <2>5. QED BY <2>3, <2>4 DEF IInv
<1>10. ASSUME NEW l \in 0 .. MaxLayers, CloseFiles(l) PROVE IInv'
  <2>1. /\ l \in held /\ held' = held \ {l}
        /\ UNCHANGED <<secret, mounted, sdcard, userDir, gone, used, at, rekey, keys>>
    BY <1>10 DEF CloseFiles, Busy
  <2>2. TypeOK' /\ Accounts' /\ Layers' /\ Guesses'
    BY <2>1 DEF keys, IInv, TypeOK, Accounts, Layers, Guesses
  <2>3. held' \subseteq held
    BY <2>1
  <2>4. Releases'
    BY <2>1, <2>3 DEF keys, IInv, Releases
  <2>5. QED BY <2>2, <2>4 DEF IInv
<1>11. CASE CloseDetached
  <2>1. /\ gone /\ gone' = FALSE /\ mounted' = mounted
        /\ kernel' = IF mounted' \/ sdcard.layers > 0 \/ gone' THEN kernel ELSE {}
        /\ UNCHANGED <<secret, sdcard, userDir, held, used, at, rekey,
                       de, ce, marked, cached, guesses>>
    BY <1>11 DEF CloseDetached, KernelKeeps
  <2>2. TypeOK'
    BY <2>1 DEF IInv, TypeOK
  <2>3. QED BY <2>1, <2>2 DEF IInv, Accounts, Layers, Guesses, Releases
<1>12. CASE MediaRecreated
  <2>1. /\ sdcard.layers < MaxLayers /\ mounted
        /\ sdcard' = [sdcard EXCEPT !.fresh = FALSE]
        /\ UNCHANGED <<secret, mounted, userDir, held, gone, used, at, rekey, keys>>
    BY <1>12 DEF MediaRecreated, others
  <2>2. /\ sdcard' \in [layers : 0 .. MaxLayers, fresh : BOOLEAN]
        /\ sdcard'.layers = sdcard.layers
    BY <2>1 DEF IInv, TypeOK
  <2>3. QED BY <2>1, <2>2
            DEF keys, IInv, TypeOK, Accounts, Layers, Guesses, Releases
<1>13. CASE UNCHANGED vars
  BY <1>13 DEF vars, others, keys, IInv, TypeOK, Accounts, Layers, Guesses, Releases
<1>14. QED
  BY <1>1, <1>2, <1>3, <1>4, <1>5, <1>6, <1>7, <1>8, <1>9, <1>10, <1>11,
     <1>12, <1>13 DEF Next

LEMMA IInvHolds == Spec => []IInv
BY IInvInit, IInvStep, PTL DEF Spec

-----------------------------------------------------------------------------
(* Every part of the state has its type; /sdcard is never bound over       *)
(* itself, however often /data is unmounted and mounted.                   *)
THEOREM FbeTypeCorrect == Spec => []TypeOK
BY IInvHolds, PTL DEF IInv

(* A user TWRP marks as decrypted can be read, through every unmount, lazy *)
(* detach, and rekey of TWPartition::UnMount and Mount that failed.        *)
THEOREM MarkedUsersAreReadable == Spec => []MarkedIsReadable
<1>1. IInv => MarkedIsReadable
  BY DEF IInv, Accounts, MarkedIsReadable
<1>2. QED BY <1>1, IInvHolds, PTL

(* Mount tries a password that is not user 0's at most once on him.        *)
THEOREM OneWrongGuess == Spec => []OneGuess
<1>1. IInv => OneGuess
  BY DEF IInv, Guesses, OneGuess
<1>2. QED BY <1>1, IInvHolds, PTL

(* A remount whose tries for the device keys succeed once restores them,   *)
(* and user 0 when the cached password is his, whatever came before: the   *)
(* flag the mount looks at is set whenever /data is not mounted (Accounts),*)
(* also after a mount that cleared it without installing the keys.         *)
THEOREM RemountsRestore == Spec => RemountRestores
<1>1. ASSUME IInv, [Next]_vars
      PROVE  [\A fails \in 0 .. Tries - 1, dirs \in BOOLEAN,
                 able \in SUBSET Users :
                Mount(fails, dirs, able) =>
                  /\ DE \in kernel'
                  /\ cached = secret[User0] /\ User0 \in able =>
                       User0 \in marked' \cap kernel']_vars
  <2> SUFFICES ASSUME NEW fails \in 0 .. Tries - 1, NEW dirs \in BOOLEAN,
                      NEW able \in SUBSET Users, Mount(fails, dirs, able)
               PROVE  /\ DE \in kernel'
                      /\ cached = secret[User0] /\ User0 \in able =>
                           User0 \in marked' \cap kernel'
    OBVIOUS
  <2>1. fails < Tries /\ Tries \in 1 .. Tries
    BY BoundAssumption
  <2>2. DeviceKeysComeBack(fails, dirs)
    BY <2>1 DEF DeviceKeysComeBack, InitUser0
  <2>3. ~mounted /\ rekey
    BY <1>1 DEF Mount, IInv, Accounts
  <2>4. AutoDecrypt(able)
    BY <2>2, <2>3 DEF Mount, Reinstall
  <2>5. QED BY <1>1, <2>3, <2>4, AutoDecryptIs
<1>2. QED BY <1>1, IInvHolds, PTL DEF Spec, RemountRestores

(* After an unmount in which no process had files open, the file system is *)
(* released: UnMount_Main_Partition's loop ends only when umount2 fails,   *)
(* which it does on a busy layer or on none (Releases).                    *)
THEOREM UnMountsRelease == Spec => []UnMountReleases
<1>1. IInv => UnMountReleases
  BY DEF IInv, Releases, UnMountReleases
<1>2. QED BY <1>1, IInvHolds, PTL
=============================================================================
