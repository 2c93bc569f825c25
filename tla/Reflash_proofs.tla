--------------------------- MODULE Reflash_proofs ---------------------------
(* What holds of Reflash for every set of files and every number of failed *)
(* copies.                                                                 *)
EXTENDS Reflash, TLAPS

(* A ramdisk with other facts or other files is a ramdisk, and its fields  *)
(* are what they were set to.                                              *)
LEMMA RamdiskFields ==
  ASSUME NEW r \in Ramdisks
  PROVE  /\ r.files \in [Files -> Forms]
         /\ r.dfe \in BOOLEAN /\ r.flag \in BOOLEAN /\ r.listed \in BOOLEAN
  BY DEF Ramdisks

LEMMA RamdiskSymbols == None \notin Ramdisks /\ Broken \notin Ramdisks
  BY SymbolsAssumption

LEMMA EditedIsRamdisk ==
  ASSUME NEW s \in Ramdisks, root \in Ramdisks, sdFlag \in BOOLEAN
  PROVE  Edited(s) \in Ramdisks
  BY DEF Edited, Ramdisks

LEMMA PartlyEditedAreRamdisks ==
  ASSUME NEW s \in Ramdisks, root \in Ramdisks, sdFlag \in BOOLEAN
  PROVE  PartlyEdited(s) \subseteq Ramdisks
  BY DEF PartlyEdited, Ramdisks

(* The steps of Next, with the healing flag set to any value.              *)
LEMMA StepCases ==
  ASSUME TypeOK, [Next]_vars
  PROVE  \/ \E s \in Slots : Boot(s)
         \/ TakeSnapshot
         \/ Decompress
         \/ \E on \in BOOLEAN : HealingSwitch(on)
         \/ Prepare
         \/ Pack
         \/ OpenSlot
         \/ FillSlot
         \/ \E s \in Slots : Verify(s)
         \/ Report
         \/ PowerOff
         \/ UNCHANGED vars
<1>1. Switches[errors] \subseteq BOOLEAN
  BY ErrorsAssumption DEF TypeOK
<1> QED
  BY <1>1 DEF Next

-----------------------------------------------------------------------------
(***************************************************************************)
(* Every reachable state has the types of TypeOK: no step of boot or       *)
(* script works on a snapshot or an image that is not there.               *)
(***************************************************************************)
LEMMA InitType == Init => TypeOK
<1> SUFFICES ASSUME Init PROVE TypeOK
  OBVIOUS
<1>1. errors \in 0 .. CopyErrors /\ begun \in 0 .. 2
  BY ErrorsAssumption DEF Init
<1>2. slots \in [Slots -> Ramdisks \cup {Broken}]
  BY DEF Init, Built
<1>4. orig \in [Files -> Forms]
  BY DEF Init, AsBuilt, Forms
<1>3. res \in [Slots -> {"none", "ok", "fail"}] /\ dev \in Slots
  BY DEF Init, NoResults, Slots
<1> QED
  BY <1>1, <1>2, <1>3, <1>4 DEF Init, TypeOK

LEMMA StepType == TypeOK /\ [Next]_vars => TypeOK'
<1> SUFFICES ASSUME TypeOK, [Next]_vars PROVE TypeOK'
  OBVIOUS
<1> USE RamdiskSymbols, ErrorsAssumption
<1>1. ASSUME NEW s \in Slots, Boot(s) PROVE TypeOK'
  <2>1. slots[s] \in Ramdisks
    BY <1>1 DEF TypeOK, Boot
  <2>2. slots[s].files \in [Files -> Forms]
    BY <2>1, RamdiskFields
  <2> QED
    BY <1>1, <2>1, <2>2 DEF TypeOK, Boot, BootChain, script
<1>2. CASE TakeSnapshot
  <2>1. PICK fails \in BOOLEAN :
          /\ fails => errors < CopyErrors
          /\ errors' = IF fails THEN errors + 1 ELSE errors
          /\ \/ \E c \in [Files -> Forms] : snap' = [root EXCEPT !.files = c, !.flag = FALSE]
             \/ UNCHANGED snap
    BY <1>2 DEF TakeSnapshot
  <2>2. errors' \in 0 .. CopyErrors
    <3>1. errors \in Nat /\ errors <= CopyErrors
      BY DEF TypeOK
    <3>2. (errors' = errors + 1 /\ errors < CopyErrors) \/ errors' = errors
      BY <2>1, Zenon
    <3> QED
      BY <3>1, <3>2
  <2>3. root \in Ramdisks
    BY <1>2 DEF TypeOK, TakeSnapshot
  <2>4. snap' \in Ramdisks \cup {None}
    <3>1. ASSUME NEW c \in [Files -> Forms], snap' = [root EXCEPT !.files = c, !.flag = FALSE]
          PROVE snap' \in Ramdisks
      BY <2>3, <3>1 DEF Ramdisks
    <3>2. snap \in Ramdisks \cup {None}
      BY DEF TypeOK
    <3> QED
      BY <2>1, <3>1, <3>2
  <2> QED
    BY <1>2, <2>2, <2>4 DEF TypeOK, TakeSnapshot, BootChain, script
<1>3. CASE Decompress
  <2>1. root \in Ramdisks
    BY <1>3 DEF TypeOK, Decompress
  <2>2. PICK some \in SUBSET (Files \ {Manifest, List}) :
          root' = [root EXCEPT !.files =
                     [f \in Files |-> IF f \in some /\ @[f] = "built" THEN "plain" ELSE @[f]]]
    BY <1>3 DEF Decompress
  <2>3. root' \in Ramdisks
    BY <2>1, <2>2 DEF Ramdisks, Forms
  <2> QED
    BY <1>3, <2>3 DEF TypeOK, Decompress, BootChain, script
<1>4. ASSUME NEW on \in BOOLEAN, HealingSwitch(on) PROVE TypeOK'
  <2>1. root' \in Ramdisks /\ sdFlag' \in BOOLEAN
    BY <1>4 DEF TypeOK, HealingSwitch, Ramdisks
  <2> QED
    BY <1>4, <2>1 DEF TypeOK, HealingSwitch, script
<1>5. CASE Prepare
  <2>1. root \in Ramdisks /\ sdFlag \in BOOLEAN
    BY <1>5 DEF TypeOK, Prepare
  <2>2. snap' \in Ramdisks \cup {None} /\ (pc' = "pack" => snap' # None)
    BY <1>5, <2>1, EditedIsRamdisk, PartlyEditedAreRamdisks DEF TypeOK, Prepare, Die, End
  <2>3. CASE Die
    BY <1>5, <2>2, <2>3 DEF TypeOK, Prepare, Die, End, Slots
  <2>4. CASE pc' = "pack" /\ out' = "none" /\ UNCHANGED <<slots, script, begun>>
    BY <1>5, <2>2, <2>4 DEF TypeOK, Prepare, script
  <2> QED
    BY <1>5, <2>3, <2>4 DEF Prepare
<1>6. CASE Pack
  <2>1. snap \in Ramdisks
    BY <1>6 DEF TypeOK, Pack
  <2>2. CASE Die
    BY <1>6, <2>2 DEF TypeOK, Pack, Die, End, Slots
  <2>3. ASSUME NEW names \in Named,
               img' = [snap EXCEPT
                         !.files = [f \in Files |-> IF f \in names THEN @[f] ELSE "absent"],
                         !.flag = snap.listed],
               pc' = "open", UNCHANGED <<slots, dev, checking, res, out, begun>>
        PROVE TypeOK'
    <3>1. img' \in Ramdisks
      BY <2>1, <2>3 DEF Ramdisks, Forms
    <3> QED
      BY <1>6, <2>3, <3>1 DEF TypeOK, Pack, Slots
  <2> QED
    BY <1>6, <2>2, <2>3 DEF Pack
<1>7. CASE OpenSlot
  <2>1. CASE Die
    BY <1>7, <2>1 DEF TypeOK, OpenSlot, Die, End, Slots
  <2>2. CASE /\ slots' = [slots EXCEPT ![dev] = Broken]
             /\ pc' = "fill"
             /\ begun' = IF dev = "a" /\ begun < 2 THEN begun + 1 ELSE begun
             /\ UNCHANGED <<script, out>>
    BY <1>7, <2>2 DEF TypeOK, OpenSlot, script
  <2> QED
    BY <1>7, <2>1, <2>2 DEF OpenSlot
<1>8. CASE FillSlot
  <2>1. CASE Die
    BY <1>8, <2>1 DEF TypeOK, FillSlot, Die, End, Slots
  <2>2. CASE slots' = [slots EXCEPT ![dev] = img] /\ UNCHANGED <<img, res, out>>
    <3>1. img \in Ramdisks
      BY <1>8 DEF TypeOK, FillSlot
    <3>2. slots' \in [Slots -> Ramdisks \cup {Broken}]
      BY <2>2, <3>1 DEF TypeOK
    <3>3. CASE dev = "a" /\ pc' = "open" /\ dev' = "b" /\ UNCHANGED <<checking, begun>>
      BY <1>8, <2>2, <3>1, <3>2, <3>3 DEF TypeOK, FillSlot, Slots
    <3>4. CASE dev = "b" /\ BothWritten
      BY <1>8, <2>2, <3>1, <3>2, <3>4 DEF TypeOK, FillSlot, BothWritten, Slots
    <3>5. CASE Die
      BY <2>1, <3>5
    <3> QED
      BY <1>8, <2>2, <3>3, <3>4, <3>5 DEF FillSlot
  <2> QED
    BY <1>8, <2>1, <2>2 DEF FillSlot
<1>9. ASSUME NEW s \in Slots, Verify(s) PROVE TypeOK'
  BY <1>9 DEF TypeOK, Verify
<1>10. CASE Report
  BY <1>10 DEF TypeOK, Report, End, Slots
<1>11. CASE PowerOff
  <2>1. orig' \in [Files -> Forms] /\ res' \in [Slots -> {"none", "ok", "fail"}]
    BY <1>11 DEF PowerOff, AsBuilt, Forms, NoResults
  <2> QED
    BY <1>11, <2>1 DEF TypeOK, PowerOff, Slots
<1>12. CASE UNCHANGED vars
  BY <1>12 DEF TypeOK, vars
<1> QED
  BY <1>1, <1>2, <1>3, <1>4, <1>5, <1>6, <1>7, <1>8, <1>9, <1>10, <1>11, <1>12, StepCases

THEOREM TypeCorrect == Spec => []TypeOK
  BY InitType, StepType, PTL DEF Spec

-----------------------------------------------------------------------------
(***************************************************************************)
(* One slot can be booted unless two runs in a row were cut off.  While    *)
(* slot b is written, slot a is whole; while slot a is written by the      *)
(* first run, slot b is whole.                                             *)
(***************************************************************************)
Wholeness ==
  /\ begun = 0 => \A s \in Slots : slots[s] # Broken
  /\ OneBootable
  /\ pc = "fill" => begun \in {1, 2}
  /\ pc = "fill" /\ dev = "a" /\ begun = 1 => slots["b"] # Broken
  /\ pc \in {"open", "fill"} /\ dev = "b" => begun \in {1, 2} /\ slots["a"] # Broken
  /\ pc \notin {"open", "fill", "verify"} => dev = "a"

LEMMA InitWholeness == Init => Wholeness
  BY RamdiskSymbols DEF Init, Wholeness, OneBootable, Built, Slots

LEMMA StepWholeness ==
  TypeOK /\ Wholeness /\ [Next]_vars => Wholeness'
<1> SUFFICES ASSUME TypeOK, Wholeness, [Next]_vars PROVE Wholeness'
  OBVIOUS
<1>1. ASSUME NEW s \in Slots, Boot(s) PROVE Wholeness'
  BY <1>1 DEF Wholeness, OneBootable, Boot, BootChain, script
<1>2. CASE TakeSnapshot
  BY <1>2 DEF Wholeness, OneBootable, TakeSnapshot, BootChain, script
<1>3. CASE Decompress
  BY <1>3 DEF Wholeness, OneBootable, Decompress, BootChain, script
<1>4. ASSUME NEW on \in BOOLEAN, HealingSwitch(on) PROVE Wholeness'
  BY <1>4 DEF Wholeness, OneBootable, HealingSwitch, script
<1>5. CASE Prepare
  BY <1>5 DEF Wholeness, OneBootable, Prepare, Die, End, script
<1>6. CASE Pack
  BY <1>6 DEF Wholeness, OneBootable, Pack, Die, End
<1>7. CASE OpenSlot
  <2>1. CASE Die
    BY <1>7, <2>1 DEF Wholeness, OneBootable, OpenSlot, Die, End
  <2>2. CASE /\ slots' = [slots EXCEPT ![dev] = Broken]
             /\ pc' = "fill"
             /\ begun' = IF dev = "a" /\ begun < 2 THEN begun + 1 ELSE begun
             /\ UNCHANGED <<script, out>>
    <3>1. dev' = dev /\ slots \in [Slots -> Ramdisks \cup {Broken}] /\ begun \in 0 .. 2
      BY <1>7, <2>2 DEF OpenSlot, script, TypeOK
    <3>2. CASE dev = "a"
      <4>1. begun' \in {1, 2} /\ (begun' = 1 => begun = 0)
        BY <2>2, <3>1, <3>2
      <4>2. slots'["b"] = slots["b"]
        BY <2>2, <3>1, <3>2 DEF Slots
      <4> QED
        BY <2>2, <3>1, <3>2, <4>1, <4>2 DEF Wholeness, OneBootable, Slots
    <3>3. CASE dev = "b"
      <4>1. slots'["a"] = slots["a"] /\ begun' = begun
        BY <2>2, <3>1, <3>3 DEF Slots
      <4> QED
        BY <1>7, <2>2, <3>1, <3>3, <4>1 DEF Wholeness, OneBootable, Slots, OpenSlot
    <3> QED
      BY <3>2, <3>3 DEF TypeOK, Slots
  <2> QED
    BY <1>7, <2>1, <2>2 DEF OpenSlot
<1>8. CASE FillSlot
  <2>1. img # Broken /\ slots \in [Slots -> Ramdisks \cup {Broken}] /\ dev \in Slots
    BY <1>8, RamdiskSymbols DEF FillSlot, TypeOK
  <2>2. CASE Die
    BY <1>8, <2>2 DEF Wholeness, OneBootable, Die, End
  <2>3. CASE /\ slots' = [slots EXCEPT !["a"] = img] /\ dev = "a"
             /\ pc' = "open" /\ dev' = "b" /\ UNCHANGED begun
    <3>1. slots'["a"] = img /\ slots'["b"] = slots["b"]
      BY <2>1, <2>3 DEF Slots
    <3> QED
      BY <1>8, <2>1, <2>3, <3>1 DEF Wholeness, OneBootable, Slots, FillSlot
  <2>4. CASE /\ slots' = [slots EXCEPT !["b"] = img] /\ dev = "b"
             /\ pc' = "verify" /\ dev' = "b" /\ begun' = 0
    <3>1. slots'["a"] = slots["a"] /\ slots'["b"] = img
      BY <2>1, <2>4 DEF Slots
    <3> QED
      BY <1>8, <2>1, <2>4, <3>1 DEF Wholeness, OneBootable, Slots, FillSlot
  <2> QED
    BY <1>8, <2>1, <2>2, <2>3, <2>4 DEF FillSlot, BothWritten, Slots
<1>9. ASSUME NEW s \in Slots, Verify(s) PROVE Wholeness'
  BY <1>9 DEF Wholeness, OneBootable, Verify
<1>10. CASE Report
  BY <1>10 DEF Wholeness, OneBootable, Report, End
<1>11. CASE PowerOff
  BY <1>11 DEF Wholeness, OneBootable, PowerOff
<1>12. CASE UNCHANGED vars
  BY <1>12 DEF Wholeness, OneBootable, vars
<1> QED
  BY <1>1, <1>2, <1>3, <1>4, <1>5, <1>6, <1>7, <1>8, <1>9, <1>10, <1>11, <1>12, StepCases

(***************************************************************************)
(* The order of the two dd in reflash_twrp.sh:139-149 keeps one slot whole *)
(* through any one run that is cut off or fails.                           *)
(***************************************************************************)
THEOREM OneSlotBootable == Spec => []OneBootable
<1>1. Wholeness => OneBootable
  BY DEF Wholeness
<1> QED
  BY <1>1, TypeCorrect, InitWholeness, StepWholeness, PTL DEF Spec

-----------------------------------------------------------------------------
(***************************************************************************)
(* No decompressed file gets into a slot: none is in the ramdisk when the  *)
(* snapshot is taken, and image and slots only hold what was in it.        *)
(***************************************************************************)
NoPlain(r) == \A f \in Files : r.files[f] # "plain"

Packed ==
  /\ SlotsStayPacked
  /\ snap # None => NoPlain(snap)
  /\ img # None => NoPlain(img)
  /\ pc = "snapshot" => NoPlain(root)

LEMMA InitPacked == Init => Packed
  BY DEF Init, Packed, SlotsStayPacked, Built, AsBuilt

LEMMA StepPacked == TypeOK /\ Packed /\ [Next]_vars => Packed'
<1> SUFFICES ASSUME TypeOK, Packed, [Next]_vars PROVE Packed'
  OBVIOUS
<1>1. ASSUME NEW s \in Slots, Boot(s) PROVE Packed'
  BY <1>1 DEF Packed, SlotsStayPacked, NoPlain, Boot, script
<1>2. CASE TakeSnapshot
  <2>1. NoPlain(root) /\ root \in Ramdisks /\ pc' # "snapshot"
    BY <1>2 DEF TakeSnapshot, Packed, TypeOK, BootChain
  <2>2. ASSUME NEW fails \in BOOLEAN, NEW c \in [Files -> Forms],
               \A f \in Files : c[f] \in Copies(f, fails),
               snap' = [root EXCEPT !.files = c, !.flag = FALSE]
        PROVE NoPlain(snap')
    <3>1. snap'.files = c
      BY <2>1, <2>2 DEF Ramdisks
    <3>2. ASSUME NEW f \in Files PROVE c[f] # "plain"
      <4>1. c[f] \in {root.files[f], "torn", "absent"}
        BY <2>2 DEF Copies
      <4> QED
        BY <2>1, <4>1 DEF NoPlain
    <3> QED
      BY <3>1, <3>2 DEF NoPlain
  <2>3. UNCHANGED snap \/ NoPlain(snap')
    BY <1>2, <2>2 DEF TakeSnapshot
  <2> QED
    BY <1>2, <2>1, <2>3 DEF TakeSnapshot, Packed, SlotsStayPacked, NoPlain, script
<1>3. CASE Decompress
  BY <1>3 DEF Packed, SlotsStayPacked, NoPlain, Decompress, BootChain, script
<1>4. ASSUME NEW on \in BOOLEAN, HealingSwitch(on) PROVE Packed'
  BY <1>4 DEF Packed, SlotsStayPacked, NoPlain, HealingSwitch, script
<1>5. CASE Prepare
  <2>1. CASE UNCHANGED snap
    BY <1>5, <2>1 DEF Packed, SlotsStayPacked, NoPlain, Prepare, Die, End, script
  <2>2. CASE snap # None /\ snap' \in {Edited(snap)} \cup PartlyEdited(snap)
    <3>1. snap \in Ramdisks /\ NoPlain(snap)
      BY <2>2 DEF TypeOK, Packed
    <3>2. snap'.files = snap.files
      BY <2>2, <3>1 DEF Edited, PartlyEdited, Ramdisks
    <3> QED
      BY <1>5, <3>1, <3>2 DEF Packed, SlotsStayPacked, NoPlain, Prepare, Die, End, script
  <2> QED
    BY <1>5, <2>1, <2>2 DEF Prepare
<1>6. CASE Pack
  <2>1. CASE Die
    BY <1>6, <2>1 DEF Packed, SlotsStayPacked, NoPlain, Pack, Die, End
  <2>2. ASSUME NEW names \in Named, pc' = "open", UNCHANGED slots,
               img' = [snap EXCEPT
                         !.files = [f \in Files |-> IF f \in names THEN @[f] ELSE "absent"],
                         !.flag = snap.listed]
        PROVE Packed'
    <3>1. snap \in Ramdisks /\ NoPlain(snap)
      BY <1>6 DEF Pack, TypeOK, Packed
    <3>2. ASSUME NEW f \in Files PROVE img'.files[f] \in {snap.files[f], "absent"}
      BY <2>2, <3>1 DEF Ramdisks
    <3>3. NoPlain(img')
      BY <3>1, <3>2 DEF NoPlain
    <3> QED
      BY <1>6, <2>2, <3>3 DEF Packed, SlotsStayPacked, NoPlain, Pack
  <2> QED
    BY <1>6, <2>1, <2>2 DEF Pack
<1>7. CASE OpenSlot
  <2>1. \A s \in Slots : slots'[s] \in {slots[s], Broken}
    BY <1>7 DEF OpenSlot, Die, TypeOK
  <2> QED
    BY <1>7, <2>1 DEF Packed, SlotsStayPacked, NoPlain, OpenSlot, Die, End, script
<1>8. CASE FillSlot
  <2>1. \A s \in Slots : slots'[s] \in {slots[s], img}
    BY <1>8 DEF FillSlot, Die, TypeOK
  <2>2. img # None
    BY <1>8 DEF FillSlot, TypeOK
  <2> QED
    BY <1>8, <2>1, <2>2 DEF Packed, SlotsStayPacked, NoPlain, FillSlot, BothWritten, Die, End
<1>9. ASSUME NEW s \in Slots, Verify(s) PROVE Packed'
  BY <1>9 DEF Packed, SlotsStayPacked, NoPlain, Verify
<1>10. CASE Report
  BY <1>10 DEF Packed, SlotsStayPacked, NoPlain, Report, End
<1>11. CASE PowerOff
  BY <1>11 DEF Packed, SlotsStayPacked, NoPlain, PowerOff
<1>12. CASE UNCHANGED vars
  BY <1>12 DEF Packed, SlotsStayPacked, NoPlain, vars
<1> QED
  BY <1>1, <1>2, <1>3, <1>4, <1>5, <1>6, <1>7, <1>8, <1>9, <1>10, <1>11, <1>12, StepCases

(***************************************************************************)
(* The order of snapshot and decompression in 0014_init.cpp.py:45-112      *)
(* keeps decompressed files out of both slots, whatever copies fail.       *)
(***************************************************************************)
THEOREM SlotsPacked == Spec => []SlotsStayPacked
<1>1. Packed => SlotsStayPacked
  BY DEF Packed
<1> QED
  BY <1>1, TypeCorrect, InitPacked, StepPacked, PTL DEF Spec

-----------------------------------------------------------------------------
(***************************************************************************)
(* As long as no copy failed every ramdisk is as it was built, from boot   *)
(* to boot; from Pack on the image has the healing flag of the running        *)
(* recovery, and a slot that was written holds the image.                  *)
(***************************************************************************)
Pristine(r) == r.files = AsBuilt

AllPristine ==
  /\ \A s \in Slots : slots[s] # Broken => Pristine(slots[s])
  /\ snap # None => Pristine(snap)
  /\ img # None => Pristine(img)
  /\ orig = AsBuilt
  /\ pc = "snapshot" => Pristine(root)

Unchecked == ~root.flag /\ ~sdFlag

Carried ==
  /\ pc \notin {"open", "fill", "verify"} => dev = "a"
  /\ pc = "pack" => snap.listed = root.flag /\ (Unchecked => ~snap.dfe)
  /\ pc \in {"open", "fill", "verify"} => img.flag = root.flag /\ (Unchecked => ~img.dfe)
  /\ pc \in {"open", "fill"} /\ dev = "b" => slots["a"] = img
  /\ pc = "verify" => \A s \in Slots : slots[s] = img
  /\ out = "ok" =>
       /\ pc = "idle"
       /\ \A s \in Slots : /\ slots[s] # Broken
                           /\ slots[s].flag = root.flag
                           /\ Unchecked => ~slots[s].dfe

LEMMA InitPristine == Init => AllPristine
  BY DEF Init, AllPristine, Pristine, Built

LEMMA ErrorsGrow == TypeOK /\ [Next]_vars /\ errors' = 0 => errors = 0
<1> SUFFICES ASSUME TypeOK, [Next]_vars, errors' = 0 PROVE errors = 0
  OBVIOUS
<1>1. errors \in Nat
  BY DEF TypeOK
<1>2. CASE TakeSnapshot
  <2>1. errors' = errors + 1 \/ errors' = errors
    BY <1>2, Zenon DEF TakeSnapshot
  <2> QED
    BY <1>1, <2>1
<1>3. CASE ~TakeSnapshot
  <2>1. errors' = errors
    BY <1>3, StepCases DEF Boot, Decompress, HealingSwitch, Prepare, Pack, OpenSlot,
                           FillSlot, Verify, Report, PowerOff, vars
  <2> QED
    BY <2>1
<1> QED
  BY <1>2, <1>3

LEMMA StepPristine ==
  TypeOK /\ AllPristine /\ [Next]_vars /\ errors' = 0 => AllPristine'
<1> SUFFICES ASSUME TypeOK, AllPristine, [Next]_vars, errors' = 0 PROVE AllPristine'
  OBVIOUS
<1>1. ASSUME NEW s \in Slots, Boot(s) PROVE AllPristine'
  BY <1>1 DEF AllPristine, Pristine, Boot, script
<1>2. CASE TakeSnapshot
  <2>1. PICK fails \in BOOLEAN :
          /\ errors' = IF fails THEN errors + 1 ELSE errors
          /\ \/ /\ root.files[Manifest] # "absent"
                /\ \E c \in [Files -> Forms] :
                     /\ \A f \in Files : c[f] \in Copies(f, fails)
                     /\ snap' = [root EXCEPT !.files = c, !.flag = FALSE]
             \/ /\ fails \/ root.files[Manifest] = "absent"
                /\ UNCHANGED snap
    BY <1>2, Zenon DEF TakeSnapshot
  <2>2. errors' # errors + 1
    BY DEF TypeOK
  <2>3. ~fails
    BY <2>1, <2>2, Zenon
  <2>4. Pristine(root) /\ root \in Ramdisks /\ pc' # "snapshot"
    BY <1>2 DEF TakeSnapshot, AllPristine, TypeOK, BootChain
  <2>5. root.files[Manifest] = "built"
    BY <2>4, FilesAssumption DEF Pristine, AsBuilt
  <2>6. PICK c \in [Files -> Forms] :
          /\ \A f \in Files : c[f] \in Copies(f, FALSE)
          /\ snap' = [root EXCEPT !.files = c, !.flag = FALSE]
    <3>1. root.files[Manifest] # "absent"
      BY <2>5
    <3>2. fails = FALSE
      BY <2>3, Zenon
    <3> QED
      BY <2>1, <3>1, <3>2, Zenon
  <2>7. \A f \in Files : c[f] = "built"
    BY <2>4, <2>5, <2>6 DEF Copies, Pristine, AsBuilt
  <2>8. c = AsBuilt
    BY <2>7 DEF AsBuilt
  <2>9. Pristine(snap')
    BY <2>4, <2>6, <2>8 DEF Pristine, Ramdisks
  <2> QED
    BY <1>2, <2>4, <2>9 DEF TakeSnapshot, AllPristine, Pristine, script
<1>3. CASE Decompress
  BY <1>3 DEF AllPristine, Pristine, Decompress, BootChain, script
<1>4. ASSUME NEW on \in BOOLEAN, HealingSwitch(on) PROVE AllPristine'
  BY <1>4 DEF AllPristine, Pristine, HealingSwitch, script
<1>5. CASE Prepare
  <2>1. CASE UNCHANGED snap
    BY <1>5, <2>1 DEF AllPristine, Pristine, Prepare, Die, End, script
  <2>2. CASE snap # None /\ snap' \in {Edited(snap)} \cup PartlyEdited(snap)
    <3>1. snap \in Ramdisks /\ Pristine(snap)
      BY <2>2 DEF TypeOK, AllPristine
    <3>2. snap'.files = snap.files
      BY <2>2, <3>1 DEF Edited, PartlyEdited, Ramdisks
    <3> QED
      BY <1>5, <3>1, <3>2 DEF AllPristine, Pristine, Prepare, Die, End, script
  <2> QED
    BY <1>5, <2>1, <2>2 DEF Prepare
<1>6. CASE Pack
  <2>1. CASE Die
    BY <1>6, <2>1 DEF AllPristine, Pristine, Pack, Die, End
  <2>2. ASSUME NEW names \in Named, pc' = "open", UNCHANGED slots,
               img' = [snap EXCEPT
                         !.files = [f \in Files |-> IF f \in names THEN @[f] ELSE "absent"],
                         !.flag = snap.listed]
        PROVE AllPristine'
    <3>1. snap \in Ramdisks /\ Pristine(snap)
      BY <1>6 DEF Pack, TypeOK, AllPristine
    <3>2. names = Files
      BY <2>2, <3>1, FilesAssumption DEF Named, Pristine, AsBuilt
    <3>3. img'.files = [f \in Files |-> snap.files[f]]
      BY <2>2, <3>1, <3>2 DEF Ramdisks
    <3>4. Pristine(img')
      BY <3>1, <3>3 DEF Pristine, AsBuilt
    <3> QED
      BY <1>6, <2>2, <3>4 DEF AllPristine, Pristine, Pack
  <2> QED
    BY <1>6, <2>1, <2>2 DEF Pack
<1>7. CASE OpenSlot
  <2>1. \A s \in Slots : slots'[s] \in {slots[s], Broken}
    BY <1>7 DEF OpenSlot, Die, TypeOK
  <2> QED
    BY <1>7, <2>1 DEF AllPristine, Pristine, OpenSlot, Die, End, script
<1>8. CASE FillSlot
  <2>1. \A s \in Slots : slots'[s] \in {slots[s], img}
    BY <1>8 DEF FillSlot, Die, TypeOK
  <2>2. img # None
    BY <1>8 DEF FillSlot, TypeOK
  <2> QED
    BY <1>8, <2>1, <2>2 DEF AllPristine, Pristine, FillSlot, BothWritten, Die, End
<1>9. ASSUME NEW s \in Slots, Verify(s) PROVE AllPristine'
  BY <1>9 DEF AllPristine, Pristine, Verify
<1>10. CASE Report
  BY <1>10 DEF AllPristine, Pristine, Report, End
<1>11. CASE PowerOff
  BY <1>11 DEF AllPristine, Pristine, PowerOff
<1>12. CASE UNCHANGED vars
  BY <1>12 DEF AllPristine, Pristine, vars
<1> QED
  BY <1>1, <1>2, <1>3, <1>4, <1>5, <1>6, <1>7, <1>8, <1>9, <1>10, <1>11, <1>12, StepCases

LEMMA InitCarried == Init => Carried
  BY DEF Init, Carried

LEMMA StepCarried == TypeOK /\ Carried /\ [Next]_vars => Carried'
<1> SUFFICES ASSUME TypeOK, Carried, [Next]_vars PROVE Carried'
  OBVIOUS
<1>1. ASSUME NEW s \in Slots, Boot(s) PROVE Carried'
  BY <1>1 DEF Carried, Boot, BootChain, script
<1>2. CASE TakeSnapshot
  BY <1>2 DEF Carried, TakeSnapshot, BootChain, script
<1>3. CASE Decompress
  BY <1>3 DEF Carried, Decompress, BootChain, script
<1>4. ASSUME NEW on \in BOOLEAN, HealingSwitch(on) PROVE Carried'
  BY <1>4 DEF Carried, HealingSwitch, script
<1>5. CASE Prepare
  <2>1. CASE Die
    BY <1>5, <2>1 DEF Carried, Die, End
  <2>2. CASE snap # None /\ snap' = Edited(snap) /\ pc' = "pack" /\ out' = "none"
             /\ UNCHANGED <<slots, script, begun>>
    <3>1. snap'.listed = root.flag /\ (Unchecked => ~snap'.dfe)
      BY <2>2 DEF TypeOK, Edited, Ramdisks, Unchecked
    <3> QED
      BY <1>5, <2>2, <3>1 DEF Carried, Unchecked, Prepare, script
  <2> QED
    BY <1>5, <2>1, <2>2 DEF Prepare
<1>6. CASE Pack
  <2>1. CASE Die
    BY <1>6, <2>1 DEF Carried, Die, End
  <2>2. ASSUME NEW names \in Named, pc' = "open",
               UNCHANGED <<slots, dev, checking, res, out, begun>>,
               img' = [snap EXCEPT
                         !.files = [f \in Files |-> IF f \in names THEN @[f] ELSE "absent"],
                         !.flag = snap.listed]
        PROVE Carried'
    <3>1. img'.flag = root.flag /\ (Unchecked => ~img'.dfe)
      BY <1>6, <2>2 DEF Pack, TypeOK, Carried, Ramdisks
    <3> QED
      BY <1>6, <2>2, <3>1 DEF Carried, Unchecked, Pack
  <2> QED
    BY <1>6, <2>1, <2>2 DEF Pack
<1>7. CASE OpenSlot
  <2>1. CASE Die
    BY <1>7, <2>1 DEF Carried, Die, End
  <2>2. CASE slots' = [slots EXCEPT ![dev] = Broken] /\ pc' = "fill" /\ UNCHANGED <<script, out>>
    <3>1. dev = "b" => slots'["a"] = slots["a"]
      BY <2>2 DEF TypeOK, Slots
    <3> QED
      BY <1>7, <2>2, <3>1 DEF Carried, Unchecked, OpenSlot, script
  <2> QED
    BY <1>7, <2>1, <2>2 DEF OpenSlot
<1>8. CASE FillSlot
  <2>1. CASE Die
    BY <1>8, <2>1 DEF Carried, Die, End
  <2>2. CASE slots' = [slots EXCEPT ![dev] = img] /\ UNCHANGED <<img, res, out>>
    <3>1. slots'[dev] = img /\ (dev = "b" => slots'["a"] = slots["a"])
      BY <2>2 DEF TypeOK, Slots
    <3>2. CASE dev = "a" /\ pc' = "open" /\ dev' = "b"
      BY <1>8, <2>2, <3>1, <3>2 DEF Carried, Unchecked, FillSlot
    <3>3. CASE dev = "b" /\ BothWritten
      BY <1>8, <2>2, <3>1, <3>3 DEF Carried, Unchecked, FillSlot, BothWritten, Slots
    <3>4. CASE Die
      BY <2>1, <3>4
    <3> QED
      BY <1>8, <3>2, <3>3, <3>4 DEF FillSlot
  <2> QED
    BY <1>8, <2>1, <2>2 DEF FillSlot
<1>9. ASSUME NEW s \in Slots, Verify(s) PROVE Carried'
  BY <1>9 DEF Carried, Unchecked, Verify
<1>10. CASE Report
  <2>1. img \in Ramdisks
    BY <1>10 DEF Report, TypeOK
  <2> QED
    BY <1>10, <2>1, RamdiskSymbols DEF Carried, Unchecked, Report, End
<1>11. CASE PowerOff
  BY <1>11 DEF Carried, PowerOff
<1>12. CASE UNCHANGED vars
  BY <1>12 DEF Carried, Unchecked, vars
<1> QED
  BY <1>1, <1>2, <1>3, <1>4, <1>5, <1>6, <1>7, <1>8, <1>9, <1>10, <1>11, <1>12, StepCases

(***************************************************************************)
(* As long as no copy to the snapshot failed, the run that tells the user  *)
(* that both slots were written (reflash_twrp.sh:189-190) has written what *)
(* the phone booted, with the healing flag of the running recovery.        *)
(***************************************************************************)
THEOREM SuccessFaithful == Spec => []SuccessIsWhatBooted
<1> DEFINE Intact == errors = 0 => AllPristine
<1>1. Intact /\ Carried => SuccessIsWhatBooted
  BY DEF AllPristine, Pristine, Carried, SuccessIsWhatBooted
<1>2. Init => Intact
  BY InitPristine
<1>3. TypeOK /\ Intact /\ [Next]_vars => Intact'
  BY StepPristine, ErrorsGrow
<1> HIDE DEF Intact
<1> QED
  BY <1>1, <1>2, <1>3, TypeCorrect, InitCarried, StepCarried, PTL DEF Spec

(***************************************************************************)
(* Whatever copies failed: with the healing check off the run that reports *)
(* success has taken the line of DFE-Neo from both fstabs (68-76).         *)
(***************************************************************************)
THEOREM SuccessHeals == Spec => []SuccessHealsFstab
<1>1. Carried => SuccessHealsFstab
  BY DEF Carried, Unchecked, SuccessHealsFstab
<1> QED
  BY <1>1, TypeCorrect, InitCarried, StepCarried, PTL DEF Spec
=============================================================================
