----------------------------- MODULE BootServices -----------------------------
(***************************************************************************)
(* Services and devices that come up late or never, and those who need     *)
(* them (init.recovery.pixel_common.rc, recovery_weaver, subpatch 0006,    *)
(* 0010, 0015, 0022, 0026, fox_build_callback.sh).                         *)
(*                                                                         *)
(* init waits for devices, each time for a while only, and starts the      *)
(* services.  KeyMint and Weaver are oneshot: one that stops stays so.     *)
(* The rc file starts both variants of KeyMint; the build takes the one    *)
(* that is not the platform's out of it.  The recovery looks at the state  *)
(* of the Rust variant before it decrypts the metadata, on all platforms.  *)
(* The keystore asks for KeyMint, vold's Weaver object for Weaver,         *)
(* fastbootd for two HALs that are declared and cannot run here, and the   *)
(* user interface for a vibrator.                                          *)
(***************************************************************************)
EXTENDS Naturals, Sequences, FiniteSets

CONSTANTS
  Tries,      \* checks for Weaver (15)
  Effects     \* effects the vibrator can store

ASSUME BoundAssumption ==
  Tries \in Nat \ {0} /\ Effects \in Nat \ {0}

VARIABLES
  devices,    \* device nodes and marks that are there
  line,       \* the command of the rc file init is at
  state,      \* of the services: "off", "running", "registered", "stopped"
  phone,      \* the variant and the version of its KeyMint, and which of
              \* fastbootd's lookups find a service
  metadata,   \* Decrypt_Data: "none", "asked" KeyMint, or "skipped" it
  keystore,   \* what the keystore uses: "none", "direct", "wrapped", "compat"
  vold,       \* vold's Weaver object
  fastbootd,  \* 0, the lookup its constructor is at, or 5 when it is done
  ff          \* the vibrator, and what vibrate_ff remembers of it

clients == <<metadata, keystore, vold, fastbootd, ff>>
vars == <<devices, line, state, phone, clients>>

Nodes == {"trusty-ipc-dev0", "gsc0", "haptics"}
Variants == {"rust", "cpp"}
Services == Variants \cup {"storageproxyd", "weaver"}

(* "on init"; the boot HAL and what is not a wait or a start is left out.  *)
(* Nothing here depends on the USB controller, dwc3.                       *)
Rc == <<[wait |-> "dwc3"],
        [wait |-> "trusty-ipc-dev0"], [start |-> "storageproxyd"],
        [wait |-> "recovery_sp_ready"], [start |-> "rust"], [start |-> "cpp"],
        [wait |-> "gsc0"], [start |-> "weaver"]>>

(* The lookups of fastbootd's constructor, in order.                       *)
Lookups == <<"health AIDL", "health HIDL", "fastboot AIDL", "fastboot HIDL">>

(* The AIDL services are declared; that they run is the other case.        *)
Phones == [variant : Variants, version : {200, 300}, hals : {{}, {1, 3}}]

TypeOK ==
  /\ devices \subseteq Nodes \cup {"recovery_sp_ready"}
  /\ line \in 1 .. Len(Rc) + 1
  /\ state \in [Services -> {"off", "running", "registered", "stopped"}]
  /\ phone \in Phones
  /\ metadata \in {"none", "asked", "skipped"}
  /\ keystore \in {"none", "direct", "wrapped", "compat"}
  /\ vold \in [at : {"idle", "check", "hidl", "done"}, tries : 0 .. Tries,
               found : BOOLEAN]
  /\ fastbootd \in 0 .. Len(Lookups) + 1
  /\ ff \in [open : BOOLEAN, effect : 0 .. Effects, stored : 0 .. Effects,
             playing : SUBSET (1 .. Effects), failed : BOOLEAN]

Init ==
  /\ devices \in SUBSET Nodes
  /\ line = 1
  /\ state = [s \in Services |-> "off"]
  /\ phone \in Phones
  /\ metadata = "none"
  /\ keystore = "none"
  /\ vold = [at |-> "idle", tries |-> 0, found |-> FALSE]
  /\ fastbootd = 0
  /\ ff = [open |-> FALSE, effect |-> 0, stored |-> 0, playing |-> {},
           failed |-> FALSE]

-----------------------------------------------------------------------------
(* init.                                                                   *)
Command == Rc[line]
Waits == line <= Len(Rc) /\ "wait" \in DOMAIN Command
Starts == line <= Len(Rc) /\ "start" \in DOMAIN Command

DeviceAppears(d) ==
  /\ d \notin devices
  /\ devices' = devices \cup {d}
  /\ UNCHANGED <<line, state, phone, clients>>

(* The file is there, or the time is over.                                 *)
WaitEnds ==
  /\ Waits
  /\ line' = line + 1
  /\ UNCHANGED <<devices, state, phone, clients>>

(* Mutant: the build leaves both variants in the rc file.                  *)
DisabledNowhere(s) == FALSE

(* The build comments out the start of the variant of other platforms.     *)
Disabled(s) == s \in Variants \ {phone.variant}

StartService ==
  /\ Starts
  /\ line' = line + 1
  /\ IF Disabled(Command.start) THEN UNCHANGED state
     ELSE state' = [state EXCEPT ![Command.start] = "running"]
  /\ UNCHANGED <<devices, phone, clients>>

(* The daemon has connected to Trusty, and tells so if it can.             *)
ProxyConnects ==
  /\ state["storageproxyd"] = "running"
  /\ "trusty-ipc-dev0" \in devices
  /\ state' = [state EXCEPT !["storageproxyd"] = "registered"]
  /\ devices' \in {devices, devices \cup {"recovery_sp_ready"}}
  /\ UNCHANGED <<line, phone, clients>>

(* init starts the daemon again when it dies.  Its mark stays.             *)
ProxyDies ==
  /\ state["storageproxyd"] = "registered"
  /\ state' = [state EXCEPT !["storageproxyd"] = "running"]
  /\ UNCHANGED <<devices, line, phone, clients>>

KeymintRegisters ==
  /\ state[phone.variant] = "running"
  /\ "trusty-ipc-dev0" \in devices
  /\ state' = [state EXCEPT ![phone.variant] = "registered"]
  /\ UNCHANGED <<devices, line, phone, clients>>

(* It needs its storage and its patch level, and has to fit Trusty.        *)
KeymintStops(v) ==
  /\ state[v] \in {"running", "registered"}
  /\ state' = [state EXCEPT ![v] = "stopped"]
  /\ UNCHANGED <<devices, line, phone, clients>>

(***************************************************************************)
(* main() of recovery_weaver.  It gives up when the chip's device cannot   *)
(* be opened, does not know the calls it makes, or the service cannot be   *)
(* registered.                                                             *)
(***************************************************************************)
WeaverSettles ==
  /\ state["weaver"] = "running"
  /\ \/ /\ "gsc0" \in devices
        /\ state' = [state EXCEPT !["weaver"] = "registered"]
     \/ state' = [state EXCEPT !["weaver"] = "stopped"]
  /\ UNCHANGED <<devices, line, phone, clients>>

-----------------------------------------------------------------------------
(* The recovery is started after "on init".                                *)
Up == line > Len(Rc)

(* Decrypt_Data.  init has no state for a service it never started.        *)
DecryptMetadata ==
  /\ Up
  /\ metadata' = IF state["rust"] \in {"off", "running", "registered"}
                 THEN "asked" ELSE "skipped"
  /\ UNCHANGED <<devices, line, state, phone, keystore, vold, fastbootd, ff>>

(* connect_keymint: KeyMint itself, behind a wrapper when it is older than *)
(* version 3; the compatibility service when it cannot be reached.         *)
ConnectKeymint ==
  /\ Up
  /\ keystore = "none"
  /\ keystore' = IF state[phone.variant] # "registered" THEN "compat"
                 ELSE IF phone.version >= 300 THEN "direct" ELSE "wrapped"
  /\ UNCHANGED <<devices, line, state, phone, metadata, vold, fastbootd, ff>>

WeaverBegins ==
  /\ Up
  /\ vold.at \in {"idle", "done"}
  /\ ~vold.found
  /\ vold' = [at |-> "check", tries |-> 0, found |-> FALSE]
  /\ UNCHANGED <<devices, line, state, phone, metadata, keystore,
                 fastbootd, ff>>

(* Mutant: waitForService, which returns with the service only.            *)
WeaverWaits ==
  /\ vold.at = "check"
  /\ state["weaver"] = "registered"
  /\ vold' = [vold EXCEPT !.at = "done", !.found = TRUE]
  /\ UNCHANGED <<devices, line, state, phone, metadata, keystore,
                 fastbootd, ff>>

(* One checkService; after the last the HIDL service is asked for.         *)
WeaverCheck ==
  /\ vold.at = "check"
  /\ vold' = IF state["weaver"] = "registered"
             THEN [vold EXCEPT !.at = "done", !.found = TRUE]
             ELSE [vold EXCEPT !.at = IF vold.tries + 1 = Tries THEN "hidl"
                                      ELSE "check",
                               !.tries = @ + 1]
  /\ UNCHANGED <<devices, line, state, phone, metadata, keystore,
                 fastbootd, ff>>

(* No Pixel has it; getService asks for about a second and returns.        *)
WeaverHidl ==
  /\ vold.at = "hidl"
  /\ vold' = [vold EXCEPT !.at = "done"]
  /\ UNCHANGED <<devices, line, state, phone, metadata, keystore,
                 fastbootd, ff>>

-----------------------------------------------------------------------------
(* fastbootd: a HAL is looked for as AIDL, then as HIDL.                   *)
FastbootdBegins ==
  /\ Up
  /\ fastbootd = 0
  /\ fastbootd' = 1
  /\ UNCHANGED <<devices, line, state, phone, metadata, keystore, vold, ff>>

(* checkService and tryGetService answer at once.                          *)
LookUp ==
  /\ fastbootd \in 1 .. Len(Lookups)
  /\ fastbootd' = IF fastbootd \in phone.hals \cap {1, 3} THEN fastbootd + 2
                  ELSE fastbootd + 1
  /\ UNCHANGED <<devices, line, state, phone, metadata, keystore, vold, ff>>

-----------------------------------------------------------------------------
(* Mutant: every vibration stores an effect of its own.                    *)
SlotOfItsOwn == ff.stored + 1

(***************************************************************************)
(* vibrate_ff.  The device is opened once.  An effect that was stored is   *)
(* stopped and stored anew in its place; effect 0 stands for none.  An     *)
(* effect plays on by itself for its time.                                 *)
(***************************************************************************)
Slot == IF ff.effect > 0 THEN ff.effect ELSE ff.stored + 1

Vibrate ==
  /\ Up
  /\ "haptics" \in devices
  /\ LET stopped == ff.playing \ {ff.effect} IN
     ff' = IF Slot > Effects
           THEN [ff EXCEPT !.open = TRUE, !.playing = stopped, !.failed = TRUE]
           ELSE [open |-> TRUE, effect |-> Slot, failed |-> FALSE,
                 stored |-> IF Slot > ff.stored THEN Slot ELSE ff.stored,
                 playing |-> stopped \cup {Slot}]
  /\ UNCHANGED <<devices, line, state, phone, metadata, keystore, vold,
                 fastbootd>>

EffectEnds(e) ==
  /\ e \in ff.playing
  /\ ff' = [ff EXCEPT !.playing = @ \ {e}]
  /\ UNCHANGED <<devices, line, state, phone, metadata, keystore, vold,
                 fastbootd>>

-----------------------------------------------------------------------------
InitSteps == WaitEnds \/ StartService
VoldSteps == WeaverCheck \/ WeaverHidl

Next ==
  \/ \E d \in Nodes : DeviceAppears(d)
  \/ InitSteps
  \/ ProxyConnects
  \/ ProxyDies
  \/ KeymintRegisters
  \/ \E v \in Variants : KeymintStops(v)
  \/ WeaverSettles
  \/ DecryptMetadata
  \/ ConnectKeymint
  \/ WeaverBegins
  \/ VoldSteps
  \/ FastbootdBegins
  \/ LookUp
  \/ Vibrate
  \/ \E e \in 1 .. Effects : EffectEnds(e)

Spec == Init /\ [][Next]_vars

(* init's time-outs pass, and the callers run; no device and no service    *)
(* has to come.                                                            *)
FairSpec ==
  /\ Spec
  /\ WF_vars(InitSteps)
  /\ WF_vars(VoldSteps)
  /\ WF_vars(LookUp)

-----------------------------------------------------------------------------
(***************************************************************************)
(* The recovery skips the decryption of the metadata only on a phone whose *)
(* own KeyMint has stopped, and then for good.  Decrypt_Data looks at the  *)
(* Rust variant alone, also on a phone with the other one: the build must  *)
(* have kept init from starting the variant that does not fit, stops at    *)
(* once, and would pass for a KeyMint that is gone.                        *)
(***************************************************************************)
SkippedOnlyWithoutKeymint ==
  metadata = "skipped" => state[phone.variant] = "stopped"

(***************************************************************************)
(* Nobody waits forever for a device or service that never comes: init     *)
(* starts everything, vold's Weaver object ends its constructor, and       *)
(* fastbootd gets to serve.                                                *)
(***************************************************************************)
NobodyWaitsForever ==
  /\ <>Up
  /\ vold.at = "check" ~> vold.at = "done"
  /\ fastbootd = 1 ~> fastbootd = Len(Lookups) + 1

(***************************************************************************)
(* The phone can vibrate as often as it likes: the places for effects are  *)
(* never used up, though none is ever removed.                             *)
(***************************************************************************)
VibratesAgain == ~ff.failed
=============================================================================
