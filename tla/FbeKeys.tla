------------------------------- MODULE FbeKeys -------------------------------
(***************************************************************************)
(* File-based encryption in the recovery: which keys the kernel has, which *)
(* ones vold and the recovery believe it has, and the mounts of /data that *)
(* decide how long they live (subpatch 0009, 0010, 0018, 0020).            *)
(*                                                                         *)
(* The kernel keeps the keys with the mounted file system: they are gone   *)
(* once its last mount is gone and its last file is closed, and survive an *)
(* unmount that only detached it.  vold keeps its own list of policies and *)
(* takes a policy in the list for an installed key; TWRP marks users as    *)
(* decrypted.  Unmounting /data clears both and asks for the keys to be    *)
(* installed again, which the next mount tries with the last password.     *)
(* Other processes open and close files between the steps of an unmount.   *)
(***************************************************************************)
EXTENDS Naturals

CONSTANTS
  Users, User0,   \* users of the phone; user 0, the owner
  Secrets,        \* passwords
  Default,        \* "!", the password of a user without a lock screen
  NoPassword,     \* no password is cached
  DE,             \* stands for all device keys
  Tries,          \* attempts of Mount to install them (3 in the code)
  MaxLayers       \* bound on how often /data/media/0 is made anew

ASSUME UserAssumption == User0 \in Users /\ DE \notin Users
ASSUME SecretAssumption == Default \in Secrets /\ NoPassword \notin Secrets
ASSUME BoundAssumption == Tries \in Nat \ {0} /\ MaxLayers \in Nat \ {0}

VARIABLES
  secret,     \* the password of each user
  mounted,    \* /data is mounted
  sdcard,     \* bind mounts on /sdcard, and: the top one shows /data/media/0
  userDir,    \* /data/user/0 is bind-mounted
  held,       \* mounts where others (MTP, a shell) have files open: 0 for /data,
              \* l for the l-th layer of /sdcard
  gone,       \* files are open in a /data that was detached
  at,         \* where UnMount is: "idle", taking "layers" off, or at "data"
  used,       \* (history) files were open since the last UnMount began
  kernel,     \* the keys the file system has
  de, ce,     \* vold: s_de_policies is filled; users in s_ce_policies
  marked,     \* TWRP: users marked as decrypted
  cached,     \* tw_fbe_cached_password
  rekey,      \* tw_fbe_rekey_needed
  guesses     \* wrong passwords tried for user 0 since one was typed in

keys == <<kernel, de, ce, marked, cached, guesses>>

others == <<held, gone, used>>

vars == <<secret, mounted, sdcard, userDir, others, at, rekey, keys>>

TypeOK ==
  /\ secret \in [Users -> Secrets]
  /\ mounted \in BOOLEAN
  /\ sdcard \in [layers : 0 .. MaxLayers, fresh : BOOLEAN]
  /\ userDir \in BOOLEAN
  /\ held \subseteq 0 .. MaxLayers
  /\ gone \in BOOLEAN
  /\ at \in {"idle", "layers", "data"}
  /\ used \in BOOLEAN
  /\ kernel \subseteq Users \cup {DE}
  /\ de \in BOOLEAN
  /\ ce \subseteq Users
  /\ marked \subseteq Users
  /\ cached \in Secrets \cup {NoPassword}
  /\ rekey \in BOOLEAN
  /\ guesses \in 0 .. 2

(* The recovery has mounted /data and installed the device keys.           *)
Init ==
  /\ secret \in [Users -> Secrets]
  /\ mounted = TRUE
  /\ sdcard = [layers |-> 1, fresh |-> TRUE]
  /\ userDir \in BOOLEAN
  /\ held = {}
  /\ gone = FALSE
  /\ at = "idle"
  /\ used = FALSE
  /\ kernel = {DE}
  /\ de = TRUE
  /\ ce = {}
  /\ marked = {}
  /\ cached = NoPassword
  /\ rekey = FALSE
  /\ guesses = 0

-----------------------------------------------------------------------------
(* A directory that /sdcard shows already is not bound again.              *)
BindMount(b) ==
  IF b.layers > 0 /\ b.fresh THEN b
  ELSE [layers |-> b.layers + 1, fresh |-> TRUE]

(* Mutant: the directories of the framework must be there.                 *)
InitUser0Strict(loaded, dirs) == loaded /\ dirs

(* fscrypt_init_user0 succeeds when the keys can be loaded; that the       *)
(* directories of the framework cannot be prepared is no failure.          *)
InitUser0(loaded, dirs) == loaded

(* Decrypt_DE is tried until it succeeds, Tries times at most; the keys    *)
(* cannot be loaded the first fails times.                                 *)
DeviceKeysComeBack(fails, dirs) ==
  \E try \in 1 .. Tries : InitUser0(fails < try, dirs)

(* /data/user/0 is bound when it can be.                                   *)
PrepareSpecialDirs(dirs) == userDir' = dirs

DeviceKeysInstalled == IF de THEN kernel ELSE kernel \cup {DE}

(***************************************************************************)
(* Decrypt_User: with the device keys in ks, for a user whose key Weaver   *)
(* and KeyMint give out now.  Storage that cannot be prepared is no        *)
(* failure.                                                                *)
(***************************************************************************)
Opens(ks, u, p, able) == DE \in ks /\ u \in able /\ secret[u] = p

(* With user 0 every other user is tried, with this password and with "!". *)
Opened(u, p, able) ==
  {u} \cup {w \in able \ {User0} : u = User0 /\ secret[w] \in {p, Default}}

(* Decrypt_Device succeeds.  A user whose policy vold has needs no key.    *)
Decrypted(ks, u, p, able) ==
  LET us == Opened(u, p, able) IN
  /\ kernel' = ks \cup (us \ ce)
  /\ ce' = ce \cup us
  /\ marked' = marked \cup us
  /\ cached' = p

(* The user enters a password.  Post_Decrypt binds /sdcard.                *)
DecryptDevice(u, p, able) ==
  /\ mounted /\ at = "idle"
  /\ u \notin marked
  /\ Opens(kernel, u, p, able)
  /\ Decrypted(kernel, u, p, able)
  /\ guesses' = 0
  /\ \/ u = User0 /\ sdcard' = BindMount(sdcard)
     \/ UNCHANGED sdcard
  /\ UNCHANGED <<secret, mounted, userDir, others, at, de, rekey>>

(* Mutant: a cached password that failed stays.                            *)
CachedPasswordFailsKept ==
  /\ kernel' = DeviceKeysInstalled
  /\ guesses' = IF cached # secret[User0] /\ guesses < 2 THEN guesses + 1
                ELSE guesses
  /\ UNCHANGED <<ce, marked, cached>>

CachedPasswordFails ==
  /\ kernel' = DeviceKeysInstalled
  /\ cached' = NoPassword
  /\ guesses' = IF cached # secret[User0] /\ guesses < 2 THEN guesses + 1
                ELSE guesses
  /\ UNCHANGED <<ce, marked>>

(* The device keys are back: user 0 next, with the cached password.        *)
AutoDecrypt(able) ==
  \/ /\ cached = NoPassword
     /\ kernel' = DeviceKeysInstalled
     /\ UNCHANGED <<ce, marked, cached, guesses>>
  \/ /\ cached # NoPassword
     /\ Opens(DeviceKeysInstalled, User0, cached, able)
     /\ Decrypted(DeviceKeysInstalled, User0, cached, able)
     /\ UNCHANGED guesses
  \/ /\ cached # NoPassword
     /\ ~Opens(DeviceKeysInstalled, User0, cached, able)
     /\ CachedPasswordFails

(***************************************************************************)
(* The keys are installed again when the flag is set, which is cleared     *)
(* then, whether or not the device keys could be installed.                *)
(***************************************************************************)
Reinstall(fails, dirs, able) ==
  IF rekey
  THEN /\ rekey' = FALSE
       /\ IF DeviceKeysComeBack(fails, dirs)
          THEN de' = TRUE /\ PrepareSpecialDirs(dirs) /\ AutoDecrypt(able)
          ELSE UNCHANGED <<userDir, keys>>
  ELSE UNCHANGED <<rekey, userDir, keys>>

(***************************************************************************)
(* TWPartition::Mount of /data, after the mount itself.  When the bind     *)
(* mount fails it returns at once and leaves the flag as it is.            *)
(***************************************************************************)
Mount(fails, dirs, able) ==
  /\ ~mounted
  /\ mounted' = TRUE
  /\ sdcard' = BindMount(sdcard)
  /\ Reinstall(fails, dirs, able)
  /\ UNCHANGED <<secret, others, at>>

MountWithoutSdcard ==
  /\ ~mounted
  /\ mounted' = TRUE
  /\ sdcard # BindMount(sdcard)
  /\ UNCHANGED <<secret, sdcard, userDir, others, at, rekey, keys>>

-----------------------------------------------------------------------------
(***************************************************************************)
(* TWPartition::UnMount of /data.                                          *)
(***************************************************************************)
UnMount ==
  /\ mounted /\ at = "idle"
  /\ at' = "layers"
  /\ used' = (held # {} \/ gone)
  /\ UNCHANGED <<secret, mounted, sdcard, userDir, held, gone, rekey, keys>>

Busy(l) == l \in held

(* Mutant: an if where the code has a while.                               *)
TakeLayerOnce ==
  /\ at = "layers"
  /\ sdcard.layers > 0 /\ ~Busy(sdcard.layers)
  /\ sdcard' = [layers |-> sdcard.layers - 1, fresh |-> FALSE]
  /\ userDir' \in IF Busy(0) THEN {FALSE, userDir} ELSE {FALSE}
  /\ at' = "data"
  /\ UNCHANGED <<secret, mounted, others, rekey, keys>>

(* umount2 takes the top layer off /sdcard, and the loop goes on; the one  *)
(* below does not show the directory of today.                             *)
TakeLayer ==
  /\ at = "layers"
  /\ sdcard.layers > 0 /\ ~Busy(sdcard.layers)
  /\ sdcard' = [layers |-> sdcard.layers - 1, fresh |-> FALSE]
  /\ UNCHANGED <<secret, mounted, userDir, others, at, rekey, keys>>

(* umount2 failed: nothing is left on /sdcard, or the top layer is busy.   *)
(* /data/user/0 is next.                                                   *)
LayersDone ==
  /\ at = "layers"
  /\ sdcard.layers = 0 \/ Busy(sdcard.layers)
  /\ userDir' \in IF Busy(0) THEN {FALSE, userDir} ELSE {FALSE}
  /\ at' = "data"
  /\ UNCHANGED <<secret, mounted, sdcard, others, rekey, keys>>

(* The keys stay with the file system, which stays while it has a mount or *)
(* an open file.                                                           *)
KernelKeeps == kernel' = IF mounted' \/ sdcard.layers > 0 \/ gone' THEN kernel ELSE {}

(* Mutant: the policies of the users stay.                                 *)
ResetFbeCachesKeepingUsers == de' = FALSE /\ UNCHANGED ce

ResetFbeCaches == de' = FALSE /\ ce' = {}

ResetUsersDecryptionStatus == marked' = {}

(* Mutant: keys are asked for only where they were installed.              *)
AskForKeysInstalled == rekey' = (rekey \/ de)

AskForKeys == rekey' = TRUE

(***************************************************************************)
(* /data is unmounted at once when nothing is in its way; if it is busy,   *)
(* or has a mount on it still, it is detached.  Both end in unmount_done.  *)
(***************************************************************************)
UnMountData ==
  /\ at = "data"
  /\ mounted' = FALSE
  /\ at' = "idle"
  /\ userDir' = FALSE
  /\ held' = held \ {0}
  /\ gone' = (gone \/ Busy(0))
  /\ KernelKeeps
  /\ ResetFbeCaches
  /\ ResetUsersDecryptionStatus
  /\ AskForKeys
  /\ UNCHANGED <<secret, sdcard, used, cached, guesses>>

(* /data is busy and umount -l fails too: what was on it is off.           *)
UnMountFails ==
  /\ at = "data"
  /\ Busy(0) \/ userDir
  /\ at' = "idle"
  /\ UNCHANGED <<secret, mounted, sdcard, userDir, others, rekey, keys>>

(* A file is opened in /data or in what /sdcard shows.                     *)
OpenFiles(l) ==
  /\ ~Busy(l)
  /\ \/ l = 0 /\ mounted
     \/ l > 0 /\ l = sdcard.layers
  /\ held' = held \cup {l}
  /\ used' = TRUE
  /\ UNCHANGED <<secret, mounted, sdcard, userDir, gone, at, rekey, keys>>

(* The last file open in a mount is closed.                                *)
CloseFiles(l) ==
  /\ Busy(l)
  /\ held' = held \ {l}
  /\ UNCHANGED <<secret, mounted, sdcard, userDir, gone, used, at, rekey, keys>>

CloseDetached ==
  /\ gone
  /\ gone' = FALSE
  /\ UNCHANGED mounted
  /\ KernelKeeps
  /\ UNCHANGED <<secret, sdcard, userDir, held, used, at, rekey,
                 de, ce, marked, cached, guesses>>

(* The internal storage is wiped: /data/media/0 is another directory.      *)
MediaRecreated ==
  /\ mounted /\ at = "idle"
  /\ 0 < sdcard.layers /\ sdcard.layers < MaxLayers
  /\ sdcard' = [sdcard EXCEPT !.fresh = FALSE]
  /\ UNCHANGED <<secret, mounted, userDir, others, at, rekey, keys>>

Next ==
  \/ \E u \in Users, p \in Secrets, able \in SUBSET Users :
       DecryptDevice(u, p, able)
  \/ \E fails \in 0 .. Tries, dirs \in BOOLEAN, able \in SUBSET Users :
       Mount(fails, dirs, able)
  \/ MountWithoutSdcard
  \/ UnMount
  \/ TakeLayer
  \/ LayersDone
  \/ UnMountData
  \/ UnMountFails
  \/ \E l \in 0 .. MaxLayers : OpenFiles(l) \/ CloseFiles(l)
  \/ CloseDetached
  \/ MediaRecreated

Spec == Init /\ [][Next]_vars
-----------------------------------------------------------------------------
(***************************************************************************)
(* A user the recovery shows as decrypted can be read: /data is mounted    *)
(* and has the keys of the device and of the user, whatever unmounts,      *)
(* lazily detached mounts and failed rekeys came before.                   *)
(***************************************************************************)
MarkedIsReadable ==
  marked # {} => mounted /\ DE \in kernel /\ marked \subseteq kernel

(***************************************************************************)
(* A remount gives back what it can: when the device keys can be had in    *)
(* one of the tries they are installed, and when the cached password is    *)
(* that of user 0, so is his, whether or not the directories of the        *)
(* framework can be prepared.  The mount asks only if the flag is set, and *)
(* a mount that failed to install the keys has cleared it; so every        *)
(* unmount, the next one included, must have set it again.                 *)
(***************************************************************************)
RemountRestores ==
  [][\A fails \in 0 .. Tries - 1, dirs \in BOOLEAN, able \in SUBSET Users :
       Mount(fails, dirs, able) =>
         /\ DE \in kernel'
         /\ cached = secret[User0] /\ User0 \in able =>
              User0 \in marked' \cap kernel']_vars

(***************************************************************************)
(* Weaver slows down after wrong passwords: a password typed in once is    *)
(* tried on user 0 at most once without him when it is not his.            *)
(***************************************************************************)
OneGuess == guesses <= 1

(***************************************************************************)
(* An unmount of /data during which nobody had files of it open has really *)
(* released the file system, and the keys with it: no layer of /sdcard is  *)
(* left, neither of this mount nor one that an earlier unmount had to      *)
(* leave, and no files in a mount detached before.                         *)
(***************************************************************************)
UnMountReleases == ~mounted /\ ~used => kernel = {} /\ sdcard.layers = 0
=============================================================================
