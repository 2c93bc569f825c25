------------------------ MODULE BootServices_proofs ------------------------
(***************************************************************************)
(* Theorems about BootServices, for any number of checks for Weaver and of *)
(* places for effects.                                                     *)
(***************************************************************************)
EXTENDS BootServices, TLAPS

(* A command that starts something starts one of the services.             *)
LEMMA Commands ==
  ASSUME line \in 1 .. Len(Rc) + 1
  PROVE  /\ Waits \/ Starts => line + 1 \in 1 .. Len(Rc) + 1
         /\ Starts => Command.start \in Services
<1>1. Len(Rc) = 8
  BY DEF Rc
<1>2. /\ Rc[1] = [wait |-> "dwc3"] /\ Rc[2] = [wait |-> "trusty-ipc-dev0"]
      /\ Rc[3] = [start |-> "storageproxyd"]
      /\ Rc[4] = [wait |-> "recovery_sp_ready"]
      /\ Rc[5] = [start |-> "rust"] /\ Rc[6] = [start |-> "cpp"]
      /\ Rc[7] = [wait |-> "gsc0"] /\ Rc[8] = [start |-> "weaver"]
  BY DEF Rc
<1>3. Waits \/ Starts => line + 1 \in 1 .. Len(Rc) + 1
  BY <1>1 DEF Waits, Starts
<1>4. Starts => Command.start \in Services
  <2>1. CASE line \in {1, 2, 4, 7}
    BY <1>2, <2>1 DEF Starts, Command
  <2>2. /\ line = 3 => Command.start = "storageproxyd"
        /\ line = 5 => Command.start = "rust"
        /\ line = 6 => Command.start = "cpp"
        /\ line = 8 => Command.start = "weaver"
    BY <1>2 DEF Command
  <2>3. Starts => line \in 1 .. 8
    BY <1>1 DEF Starts
  <2> QED BY <2>1, <2>2, <2>3 DEF Services, Variants
<1> QED BY <1>3, <1>4

LEMMA LookupsLen == Len(Lookups) = 4
BY DEF Lookups

-----------------------------------------------------------------------------
(***************************************************************************)
(* Why a skip is a stop: the variant of KeyMint that is not the phone's is *)
(* never started, so what init says of the Rust variant is nothing at all  *)
(* on the other phones; and a service that has stopped stays so.           *)
(***************************************************************************)
OnlyOwnStarted == \A v \in Variants \ {phone.variant} : state[v] = "off"

SkipIsStop ==
  metadata = "skipped" => phone.variant = "rust" /\ state["rust"] = "stopped"

(* Decrypt_Data runs when init is done: no start comes after it, which     *)
(* would undo a stop.                                                      *)
DecryptedAfterInit ==
  /\ metadata # "none" => line = 9
  /\ line \in 1 .. 9

(* The constructor of vold's Weaver object ends its loop at the last try.  *)
Checking == vold.at = "check" => vold.tries < Tries

(* The one effect of vibrate_ff is in the first place it was given.        *)
OneEffect == ff.effect = 0 => ff.stored = 0

BootInv ==
  /\ TypeOK /\ OnlyOwnStarted /\ SkipIsStop /\ DecryptedAfterInit
  /\ Checking /\ OneEffect /\ VibratesAgain

LEMMA InitBoot == Init => BootInv
<1> SUFFICES ASSUME Init PROVE BootInv
  OBVIOUS
<1>1. Len(Rc) = 8 /\ Len(Lookups) = 4
  BY LookupsLen DEF Rc
<1>2. TypeOK
  <2>1. vold \in [at : {"idle", "check", "hidl", "done"}, tries : 0 .. Tries,
                  found : BOOLEAN]
    BY BoundAssumption DEF Init
  <2>2. ff \in [open : BOOLEAN, effect : 0 .. Effects, stored : 0 .. Effects,
                playing : SUBSET (1 .. Effects), failed : BOOLEAN]
    BY BoundAssumption DEF Init
  <2>3. state \in [Services -> {"off", "running", "registered", "stopped"}]
    BY DEF Init
  <2> QED BY <1>1, <2>1, <2>2, <2>3 DEF Init, TypeOK
<1>3. OnlyOwnStarted /\ SkipIsStop /\ DecryptedAfterInit
  BY DEF Init, Services, OnlyOwnStarted, SkipIsStop, DecryptedAfterInit
<1> QED
  BY <1>2, <1>3 DEF Init, BootInv, Checking, OneEffect, VibratesAgain

-----------------------------------------------------------------------------
(* init and the services.                                                  *)
LEMMA ServiceBoot ==
  ASSUME BootInv,
         devices' \subseteq Nodes \cup {"recovery_sp_ready"},
         line' = line,
         UNCHANGED <<phone, metadata, keystore, vold, fastbootd, ff>>,
         state' \in [Services -> {"off", "running", "registered", "stopped"}],
         OnlyOwnStarted', state["rust"] = "stopped" => state'["rust"] = "stopped"
  PROVE  BootInv'
<1>1. TypeOK'
  BY DEF BootInv, TypeOK
<1> QED
  BY <1>1
  DEF BootInv, SkipIsStop, DecryptedAfterInit, Checking, OneEffect, VibratesAgain

LEMMA DeviceBoot ==
  ASSUME BootInv, NEW d \in Nodes, DeviceAppears(d) PROVE BootInv'
<1>1. devices' = devices \cup {d} /\ UNCHANGED <<line, state, phone, clients>>
  BY DEF DeviceAppears
<1>2. OnlyOwnStarted' /\ devices' \subseteq Nodes \cup {"recovery_sp_ready"}
  BY <1>1 DEF BootInv, TypeOK, OnlyOwnStarted
<1> QED BY <1>1, <1>2, ServiceBoot DEF BootInv, TypeOK, clients

LEMMA WaitBoot == ASSUME BootInv, WaitEnds PROVE BootInv'
<1>1. /\ Waits /\ line' = line + 1
      /\ UNCHANGED <<devices, state, phone, metadata, keystore, vold, fastbootd, ff>>
  BY DEF WaitEnds, clients
<1>2. line' \in 1 .. Len(Rc) + 1 /\ Len(Rc) = 8 /\ line <= Len(Rc)
  BY <1>1, Commands DEF BootInv, TypeOK, Rc, Waits
<1>3. TypeOK'
  BY <1>1, <1>2 DEF BootInv, TypeOK
<1>4. DecryptedAfterInit' /\ metadata = "none"
  BY <1>1, <1>2 DEF BootInv, DecryptedAfterInit, TypeOK
<1> QED
  BY <1>1, <1>3, <1>4
  DEF BootInv, OnlyOwnStarted, SkipIsStop, Checking, OneEffect, VibratesAgain

(* The start of the other variant is disabled; metadata is not decrypted   *)
(* before init is done, so no start undoes a stop the recovery has seen.   *)
LEMMA StartBoot == ASSUME BootInv, StartService PROVE BootInv'
<1>1. /\ Starts /\ line' = line + 1
      /\ IF Disabled(Command.start) THEN state' = state
         ELSE state' = [state EXCEPT ![Command.start] = "running"]
      /\ UNCHANGED <<devices, phone, metadata, keystore, vold, fastbootd, ff>>
  BY DEF StartService, clients
<1>2. /\ line' \in 1 .. Len(Rc) + 1 /\ Len(Rc) = 8 /\ line <= Len(Rc)
      /\ Command.start \in Services
  BY <1>1, Commands DEF BootInv, TypeOK, Rc, Starts
<1>3. /\ state' \in [Services -> {"off", "running", "registered", "stopped"}]
      /\ \A s \in Services : Disabled(s) => state'[s] = state[s]
  BY <1>1, <1>2 DEF BootInv, TypeOK
<1>4. OnlyOwnStarted'
  BY <1>1, <1>3 DEF BootInv, OnlyOwnStarted, Disabled, Services
<1>5. TypeOK'
  BY <1>1, <1>2, <1>3 DEF BootInv, TypeOK
<1>6. DecryptedAfterInit' /\ metadata = "none"
  BY <1>1, <1>2 DEF BootInv, DecryptedAfterInit, TypeOK
<1> QED
  BY <1>1, <1>4, <1>5, <1>6
  DEF BootInv, SkipIsStop, Checking, OneEffect, VibratesAgain

LEMMA ProxyBoot == ASSUME BootInv, ProxyConnects \/ ProxyDies PROVE BootInv'
<1>1. /\ \/ state' = [state EXCEPT !["storageproxyd"] = "registered"]
         \/ state' = [state EXCEPT !["storageproxyd"] = "running"]
      /\ devices' \in {devices, devices \cup {"recovery_sp_ready"}}
      /\ UNCHANGED <<line, phone, metadata, keystore, vold, fastbootd, ff>>
  BY DEF ProxyConnects, ProxyDies, clients
<1>2. /\ \A v \in Variants : state'[v] = state[v]
      /\ state' \in [Services -> {"off", "running", "registered", "stopped"}]
  BY <1>1 DEF BootInv, TypeOK, Services, Variants
<1>3. devices' \subseteq Nodes \cup {"recovery_sp_ready"}
  BY <1>1 DEF BootInv, TypeOK
<1>4. OnlyOwnStarted'
  BY <1>1, <1>2 DEF BootInv, OnlyOwnStarted
<1> QED BY <1>1, <1>2, <1>3, <1>4, ServiceBoot DEF Variants

(* Only a variant that was started registers or stops.                     *)
LEMMA KeymintBoot ==
  ASSUME BootInv, KeymintRegisters \/ (\E v \in Variants : KeymintStops(v))
  PROVE  BootInv'
<1>1. PICK v \in Variants :
        /\ \/ /\ state[v] = "running" /\ v = phone.variant
              /\ state' = [state EXCEPT ![v] = "registered"]
           \/ /\ state[v] \in {"running", "registered"}
              /\ state' = [state EXCEPT ![v] = "stopped"]
        /\ UNCHANGED <<devices, line, phone, metadata, keystore, vold, fastbootd, ff>>
  BY DEF KeymintRegisters, KeymintStops, clients, BootInv, TypeOK, Phones
<1>2. v = phone.variant
  BY <1>1 DEF BootInv, OnlyOwnStarted
<1>3. /\ state' \in [Services -> {"off", "running", "registered", "stopped"}]
      /\ \A w \in Services \ {v} : state'[w] = state[w]
      /\ state["rust"] = "stopped" => state'["rust"] = "stopped"
  BY <1>1 DEF BootInv, TypeOK, Services, Variants
<1>4. OnlyOwnStarted'
  BY <1>1, <1>2, <1>3 DEF BootInv, OnlyOwnStarted, Services
<1>5. devices' \subseteq Nodes \cup {"recovery_sp_ready"}
  BY <1>1 DEF BootInv, TypeOK
<1> QED BY <1>1, <1>3, <1>4, <1>5, ServiceBoot

LEMMA WeaverBoot == ASSUME BootInv, WeaverSettles PROVE BootInv'
<1>1. /\ \/ state' = [state EXCEPT !["weaver"] = "registered"]
         \/ state' = [state EXCEPT !["weaver"] = "stopped"]
      /\ UNCHANGED <<devices, line, phone, metadata, keystore, vold, fastbootd, ff>>
  BY DEF WeaverSettles, clients
<1>2. /\ \A v \in Variants : state'[v] = state[v]
      /\ state' \in [Services -> {"off", "running", "registered", "stopped"}]
  BY <1>1 DEF BootInv, TypeOK, Services, Variants
<1>3. devices' \subseteq Nodes \cup {"recovery_sp_ready"}
  BY <1>1 DEF BootInv, TypeOK
<1>4. OnlyOwnStarted'
  BY <1>1, <1>2 DEF BootInv, OnlyOwnStarted
<1> QED BY <1>1, <1>2, <1>3, <1>4, ServiceBoot DEF Variants

-----------------------------------------------------------------------------
(* What init says of the Rust variant is true of the phone's KeyMint, when *)
(* it says that it has stopped.                                            *)
LEMMA MetadataBoot == ASSUME BootInv, DecryptMetadata PROVE BootInv'
<1>1. /\ Up /\ metadata' \in {"asked", "skipped"}
      /\ metadata' = "skipped" =>
           state["rust"] \notin {"off", "running", "registered"}
      /\ UNCHANGED <<devices, line, state, phone, keystore, vold, fastbootd, ff>>
  BY DEF DecryptMetadata
<1>2. state["rust"] \in {"off", "running", "registered", "stopped"}
  BY DEF BootInv, TypeOK, Services, Variants
<1>3. state["rust"] # "off" => phone.variant = "rust"
  BY DEF BootInv, OnlyOwnStarted, Variants
<1>4. SkipIsStop'
  BY <1>1, <1>2, <1>3 DEF SkipIsStop
<1>5. TypeOK'
  BY <1>1 DEF BootInv, TypeOK
<1>6. Len(Rc) = 8
  BY DEF Rc
<1>7. DecryptedAfterInit'
  BY <1>1, <1>6 DEF BootInv, DecryptedAfterInit, Up
<1> QED
  BY <1>1, <1>4, <1>5, <1>7
  DEF BootInv, OnlyOwnStarted, Checking, OneEffect, VibratesAgain

(* The clients change nothing but their own part.                          *)
LEMMA ClientBoot ==
  ASSUME BootInv, UNCHANGED <<devices, line, state, phone, metadata>>,
         keystore' \in {"none", "direct", "wrapped", "compat"},
         vold' \in [at : {"idle", "check", "hidl", "done"}, tries : 0 .. Tries,
                    found : BOOLEAN],
         fastbootd' \in 0 .. Len(Lookups) + 1,
         ff' \in [open : BOOLEAN, effect : 0 .. Effects, stored : 0 .. Effects,
                  playing : SUBSET (1 .. Effects), failed : BOOLEAN],
         Checking', OneEffect', VibratesAgain'
  PROVE  BootInv'
<1>1. TypeOK'
  BY DEF BootInv, TypeOK
<1> QED BY <1>1 DEF BootInv, OnlyOwnStarted, SkipIsStop, DecryptedAfterInit

LEMMA KeystoreBoot == ASSUME BootInv, ConnectKeymint PROVE BootInv'
<1>1. keystore' \in {"none", "direct", "wrapped", "compat"}
  BY DEF ConnectKeymint
<1>2. UNCHANGED <<devices, line, state, phone, metadata, vold, fastbootd, ff>>
  BY DEF ConnectKeymint
<1> QED
  BY <1>1, <1>2, ClientBoot
  DEF BootInv, TypeOK, Checking, OneEffect, VibratesAgain

(* A check that is not the last leaves at least one more.                  *)
LEMMA VoldBoot ==
  ASSUME BootInv, WeaverBegins \/ WeaverCheck \/ WeaverHidl PROVE BootInv'
<1>1. UNCHANGED <<devices, line, state, phone, metadata, keystore, fastbootd, ff>>
  BY DEF WeaverBegins, WeaverCheck, WeaverHidl
<1>2. /\ vold.tries \in Nat /\ vold.tries <= Tries
      /\ vold.at = "check" => vold.tries < Tries
      /\ vold = [at |-> vold.at, tries |-> vold.tries, found |-> vold.found]
      /\ vold.found \in BOOLEAN
  BY BoundAssumption DEF BootInv, TypeOK, Checking
<1>3. /\ vold' \in [at : {"idle", "check", "hidl", "done"}, tries : 0 .. Tries,
                    found : BOOLEAN]
      /\ vold'.at = "check" => vold'.tries < Tries
  <2>1. CASE WeaverBegins
    BY <2>1, BoundAssumption DEF WeaverBegins
  <2>2. CASE WeaverCheck
    <3>1. CASE state["weaver"] = "registered"
      <4>1. vold' = [at |-> "done", tries |-> vold.tries, found |-> TRUE]
        BY <1>2, <2>2, <3>1 DEF WeaverCheck
      <4> QED BY <1>2, <4>1, BoundAssumption
    <3>2. CASE state["weaver"] # "registered"
      <4>1. vold' = [at |-> IF vold.tries + 1 = Tries THEN "hidl" ELSE "check",
                     tries |-> vold.tries + 1, found |-> vold.found]
        BY <1>2, <2>2, <3>2 DEF WeaverCheck
      <4> QED BY <1>2, <2>2, <4>1, BoundAssumption DEF WeaverCheck
    <3> QED BY <3>1, <3>2
  <2>3. CASE WeaverHidl
    <3>1. vold' = [at |-> "done", tries |-> vold.tries, found |-> vold.found]
      BY <1>2, <2>3 DEF WeaverHidl
    <3> QED BY <1>2, <3>1, BoundAssumption
  <2> QED BY <2>1, <2>2, <2>3
<1> QED
  BY <1>1, <1>3, ClientBoot
  DEF BootInv, TypeOK, Checking, OneEffect, VibratesAgain

LEMMA FastbootdBoot ==
  ASSUME BootInv, FastbootdBegins \/ LookUp PROVE BootInv'
<1>1. UNCHANGED <<devices, line, state, phone, metadata, keystore, vold, ff>>
  BY DEF FastbootdBegins, LookUp
<1>2. fastbootd' \in 0 .. Len(Lookups) + 1
  BY LookupsLen DEF FastbootdBegins, LookUp
<1> QED
  BY <1>1, <1>2, ClientBoot
  DEF BootInv, TypeOK, Checking, OneEffect, VibratesAgain

(* The first vibration takes the first place, and all others take it again.*)
LEMMA VibrateBoot == ASSUME BootInv, Vibrate PROVE BootInv'
<1>1. UNCHANGED <<devices, line, state, phone, metadata, keystore, vold, fastbootd>>
  BY DEF Vibrate
<1>2. /\ ff.effect \in 0 .. Effects /\ ff.stored \in 0 .. Effects
      /\ ff.playing \subseteq 1 .. Effects
      /\ ff.effect = 0 => ff.stored = 0
  BY DEF BootInv, TypeOK, OneEffect
<1>3. Slot \in 1 .. Effects
  BY <1>2, BoundAssumption DEF Slot
<1>4. ~(Slot > Effects)
  BY <1>3, BoundAssumption
<1>5. ff' = [open |-> TRUE, effect |-> Slot, failed |-> FALSE,
             stored |-> IF Slot > ff.stored THEN Slot ELSE ff.stored,
             playing |-> (ff.playing \ {ff.effect}) \cup {Slot}]
  BY <1>4 DEF Vibrate
<1>6. /\ (ff.playing \ {ff.effect}) \cup {Slot} \subseteq 1 .. Effects
      /\ (IF Slot > ff.stored THEN Slot ELSE ff.stored) \in 0 .. Effects
      /\ Slot \in 0 .. Effects /\ Slot # 0
  BY <1>2, <1>3, BoundAssumption
<1>7. /\ ff' \in [open : BOOLEAN, effect : 0 .. Effects, stored : 0 .. Effects,
                  playing : SUBSET (1 .. Effects), failed : BOOLEAN]
      /\ ff'.effect # 0 /\ ~ff'.failed
  BY <1>5, <1>6
<1> QED
  BY <1>1, <1>7, ClientBoot
  DEF BootInv, TypeOK, Checking, OneEffect, VibratesAgain

LEMMA EffectEndsBoot ==
  ASSUME BootInv, NEW e \in 1 .. Effects, EffectEnds(e) PROVE BootInv'
<1>1. UNCHANGED <<devices, line, state, phone, metadata, keystore, vold, fastbootd>>
  BY DEF EffectEnds
<1>2. ff' = [open |-> ff.open, effect |-> ff.effect, stored |-> ff.stored,
             playing |-> ff.playing \ {e}, failed |-> ff.failed]
  BY DEF EffectEnds, BootInv, TypeOK
<1>3. ff' \in [open : BOOLEAN, effect : 0 .. Effects, stored : 0 .. Effects,
               playing : SUBSET (1 .. Effects), failed : BOOLEAN]
  BY <1>2 DEF BootInv, TypeOK
<1> QED
  BY <1>1, <1>2, <1>3, ClientBoot
  DEF BootInv, TypeOK, Checking, OneEffect, VibratesAgain

LEMMA StepBoot == BootInv /\ [Next]_vars => BootInv'
<1> SUFFICES ASSUME BootInv, [Next]_vars PROVE BootInv'
  OBVIOUS
<1>1. CASE UNCHANGED vars
  BY <1>1
  DEF vars, clients, BootInv, TypeOK, OnlyOwnStarted, SkipIsStop,
      DecryptedAfterInit, Checking, OneEffect, VibratesAgain
<1> QED
  BY <1>1, DeviceBoot, WaitBoot, StartBoot, ProxyBoot, KeymintBoot, WeaverBoot,
     MetadataBoot, KeystoreBoot, VoldBoot, FastbootdBoot, VibrateBoot, EffectEndsBoot
  DEF Next, InitSteps, VoldSteps

LEMMA AlwaysBoot == Spec => []BootInv
BY InitBoot, StepBoot, PTL DEF Spec

-----------------------------------------------------------------------------
(* Every part of the state has its type.                                   *)
THEOREM BootTypeCorrect == Spec => []TypeOK
<1>1. BootInv => TypeOK
  BY DEF BootInv
<1> QED BY <1>1, AlwaysBoot, PTL

(* Decrypt_Data skips the metadata only where the phone's own KeyMint has  *)
(* stopped, though it asks for the state of the Rust variant on all.       *)
THEOREM SkipsAreStops == Spec => []SkippedOnlyWithoutKeymint
<1>1. BootInv => SkippedOnlyWithoutKeymint
  BY DEF BootInv, SkipIsStop, SkippedOnlyWithoutKeymint
<1> QED BY <1>1, AlwaysBoot, PTL

(* vibrate_ff never runs out of places for effects, however few the        *)
(* vibrator has.                                                           *)
THEOREM AlwaysVibrates == Spec => []VibratesAgain
<1>1. BootInv => VibratesAgain
  BY DEF BootInv
<1> QED BY <1>1, AlwaysBoot, PTL
=============================================================================
