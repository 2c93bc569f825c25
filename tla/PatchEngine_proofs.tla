-------------------------- MODULE PatchEngine_proofs --------------------------
(***************************************************************************)
(* Proofs about PatchEngine, for any files and any number of changes: the  *)
(* type invariant, what a build without a printed error contains, and that *)
(* a file is not written twice.                                            *)
(***************************************************************************)
EXTENDS PatchEngine, TLAPS

NothingToPatch(t) == \A s \in Sites : t[s] # "original"
AllModified(t) == \A s \in Sites : t[s] = "modified"

(***************************************************************************)
(* What a run without a printed error has reached, file by file, and what  *)
(* holds of the files a run has dealt with.                                *)
(***************************************************************************)
Reached ==
  /\ run # "idle" /\ ~reported =>
       /\ loaded = Files \ skipped
       /\ \A f \in Files \ (touched \cup todo \cup skipped) :
            IF f = file THEN AllModified(text)
            ELSE f \notin missing /\ AllModified(tree[f])
  /\ run = "build" => todo = {} /\ file = None
  /\ writing => file \notin missing
  /\ file # None => NothingToPatch(text)

Settled == \A f \in settled : f # file /\ ~Writes(f)

(* The steps of fix_crlf and of git, which leave the tree alone.           *)
FixStep ==
  \/ \E f \in Files : FixFile(f)
  \/ FixWrites
  \/ FixFails
  \/ \E f \in Files, ends \in {"lf", "crlf"} : Checkout(f, ends)

IInv == TypeOK /\ Reached /\ Settled

-----------------------------------------------------------------------------
LEMMA PatchedType ==
  ASSUME NEW t \in Texts
  PROVE  Patched(t) \in Texts /\ NothingToPatch(Patched(t))
BY DEF Patched, Texts, FindAndCheckInText, NothingToPatch

LEMMA PatchedNothing ==
  ASSUME NEW t \in Texts
  PROVE  Patched(t) = t <=> NothingToPatch(t)
<1>1. ASSUME NothingToPatch(t) PROVE Patched(t) = t
  BY <1>1 DEF Patched, Texts, FindAndCheckInText, NothingToPatch
<1>2. ASSUME Patched(t) = t PROVE NothingToPatch(t)
  BY <1>2, PatchedType
<1>3. QED BY <1>1, <1>2

LEMMA PatchedAll ==
  ASSUME NEW t \in Texts, ~Fails(t)
  PROVE  AllModified(Patched(t))
BY DEF Patched, Texts, Fails, FindAndCheckInText, AllModified

LEMMA AppliedIsModified ==
  ASSUME NEW t \in Texts
  PROVE  Verdict(t) = "applied" <=> AllModified(t)
<1> DEFINE open == {s \in Sites : FindAndCheckInText(t, s) # "ALREADY_APPLIED"}
<1>1. open = {} <=> AllModified(t)
  BY DEF Texts, FindAndCheckInText, AllModified
<1>2. open # {} => Verdict(t) # "applied"
  BY DEF Verdict
<1>3. open = {} => Verdict(t) = "applied"
  BY DEF Verdict
<1>4. QED BY <1>1, <1>2, <1>3

LEMMA ModifiedIsDone ==
  ASSUME NEW t \in Texts
  PROVE  AllModified(t) <=> Patched(t) = t /\ ~Fails(t)
<1>1. AllModified(t) => NothingToPatch(t) /\ ~Fails(t)
  BY DEF AllModified, NothingToPatch, Fails, FindAndCheckInText
<1>2. Patched(t) = t /\ ~Fails(t) => AllModified(t)
  BY PatchedAll
<1>3. QED BY <1>1, <1>2, PatchedNothing

-----------------------------------------------------------------------------
LEMMA TypeInit == Init => TypeOK
<1> SUFFICES ASSUME Init PROVE TypeOK
  OBVIOUS
<1>1. Empty \in Texts
  BY DEF Empty, Texts
<1>2. tree \in [Files -> Texts]
  BY DEF Init, Texts
<1>3. QED BY <1>1, <1>2 DEF Init, TypeOK

LEMMA TypeStep == TypeOK /\ [Next]_vars => TypeOK'
<1> SUFFICES ASSUME TypeOK, [Next]_vars PROVE TypeOK'
  OBVIOUS
<1> USE NoneAssumption
<1>0. Empty \in Texts
  BY DEF Empty, Texts
<1>1. ASSUME NEW fs \in SUBSET Files, Start(fs) PROVE TypeOK'
  BY <1>1 DEF TypeOK, Start, LoadSubpatches, Readable
<1>2. ASSUME NEW f \in Files, Mod(f) PROVE TypeOK'
  <2>1. Patched(tree[f]) \in Texts
    BY PatchedType DEF TypeOK
  <2>2. reported' \in BOOLEAN
    BY <1>2 DEF Mod, TypeOK, Reports, Fails
  <2>3. CASE Writes(f)
    BY <1>2, <2>1, <2>2, <2>3 DEF TypeOK, Mod, subpatches
  <2>4. CASE ~Writes(f)
    BY <1>2, <2>2, <2>4 DEF TypeOK, Mod, subpatches
  <2>5. QED BY <2>3, <2>4
<1>3. CASE Truncate
  BY <1>0, <1>3 DEF TypeOK, Truncate, subpatches
<1>4. CASE WriteText
  BY <1>0, <1>4 DEF TypeOK, WriteText, subpatches
<1>5. CASE Finish
  BY <1>5 DEF TypeOK, Finish, work, subpatches
<1>6. CASE NextBuild
  BY <1>6 DEF TypeOK, NextBuild, work, subpatches
<1>7. CASE Kill
  BY <1>0, <1>7 DEF TypeOK, Kill, subpatches
<1>8. ASSUME NEW f \in Files, NEW t \in Upstream, NEW there \in BOOLEAN,
             Sync(f, t, there)
      PROVE  TypeOK'
  <2>1. t \in Texts
    BY DEF Upstream, Texts
  <2>2. QED BY <1>8, <2>1 DEF TypeOK, Sync, work, subpatches
<1>9. CASE UNCHANGED vars
  BY <1>9 DEF TypeOK, vars, work, subpatches
<1>10. CASE FixStep
  BY <1>10 DEF FixStep, FixFile, FixWrites, FixFails, Checkout, TypeOK,
               patching, work
<1>11. QED
  BY <1>1, <1>2, <1>3, <1>4, <1>5, <1>6, <1>7, <1>8, <1>9, <1>10
  DEF Next, FixStep

(* Whatever runs are killed and whatever is synced, the state has its      *)
(* type: a run works on a file it has loaded, and only a run writes.       *)
THEOREM PatchTypeCorrect == Spec => []TypeOK
<1>1. QED BY TypeInit, TypeStep, PTL DEF Spec

-----------------------------------------------------------------------------
LEMMA ReachedStep == IInv /\ TypeOK' /\ [Next]_vars => Reached'
<1> SUFFICES ASSUME IInv, TypeOK', [Next]_vars PROVE Reached'
  OBVIOUS
<1> USE NoneAssumption DEF IInv
<1>1. ASSUME NEW fs \in SUBSET Files, Start(fs) PROVE Reached'
  BY <1>1 DEF Reached, TypeOK, Start, LoadSubpatches, Readable
<1>2. ASSUME NEW f \in Files, Mod(f) PROVE Reached'
  <2>1. tree[f] \in Texts
    BY DEF TypeOK
  <2>2. CASE Writes(f)
    <3>1. ASSUME ~reported' PROVE AllModified(text')
      BY <1>2, <2>1, <2>2, <3>1, PatchedAll DEF Mod, Reports
    <3>2. NothingToPatch(text')
      BY <1>2, <2>1, <2>2, PatchedType DEF Mod
    <3>3. file' = f /\ file = None /\ run' = "mod" /\ ~writing'
      BY <1>2, <2>2 DEF Mod, TypeOK
    <3>4. QED BY <1>2, <3>1, <3>2, <3>3 DEF Mod, Reached, TypeOK,
                                                  subpatches
  <2>3. CASE ~Writes(f)
    <3>1. ASSUME ~reported' PROVE f \notin missing /\ AllModified(tree[f])
      BY <1>2, <2>1, <2>3, <3>1, ModifiedIsDone DEF Mod, Reports, Writes
    <3>2. file' = None /\ file = None /\ run' = "mod" /\ ~writing'
      BY <1>2, <2>3 DEF Mod, TypeOK
    <3>3. QED BY <1>2, <3>1, <3>2 DEF Mod, Reached, TypeOK,
                                                  subpatches
  <2>4. QED BY <2>2, <2>3
<1>3. CASE Truncate
  BY <1>3 DEF Reached, TypeOK, Truncate, subpatches
<1>4. CASE WriteText
  <2>1. file \in Files /\ tree' = [tree EXCEPT ![file] = text]
    BY <1>4 DEF WriteText, TypeOK
  <2>2. ASSUME NEW f \in Files, f # file PROVE tree'[f] = tree[f]
    BY <2>1, <2>2 DEF TypeOK
  <2>3. tree'[file] = text
    BY <2>1 DEF TypeOK
  <2>4. file \notin missing
    BY <1>4 DEF WriteText, Reached
  <2>5. file' = None /\ run = "mod"
    BY <1>4, <2>1 DEF WriteText, TypeOK
  <2>6. QED BY <1>4, <2>2, <2>3, <2>4, <2>5 DEF WriteText, Reached, subpatches
<1>5. CASE Finish
  BY <1>5 DEF Reached, TypeOK, Finish, work, subpatches
<1>6. CASE NextBuild
  BY <1>6 DEF Reached, TypeOK, NextBuild, work, subpatches
<1>7. CASE Kill
  BY <1>7 DEF Reached, TypeOK, Kill, subpatches
<1>8. ASSUME NEW f \in Files, NEW t \in Upstream, NEW there \in BOOLEAN,
             Sync(f, t, there)
      PROVE  Reached'
  <2>1. ASSUME NEW g \in Files, g # f
        PROVE  tree'[g] = tree[g] /\ (g \in missing' <=> g \in missing)
    BY <1>8, <2>1 DEF Sync, TypeOK
  <2>2. run # "build" /\ run' = run /\ ~writing'
    BY <1>8 DEF Sync, work, TypeOK
  <2>3. QED BY <1>8, <2>1, <2>2 DEF Sync, work, Reached, subpatches
<1>9. CASE UNCHANGED vars
  BY <1>9 DEF Reached, vars, work, subpatches
<1>10. CASE FixStep
  <2>1. UNCHANGED <<patching, skipped>>
    BY <1>10 DEF FixStep, FixFile, FixWrites, FixFails, Checkout
  <2>2. QED BY <2>1 DEF patching, work, Reached
<1>11. QED
  BY <1>1, <1>2, <1>3, <1>4, <1>5, <1>6, <1>7, <1>8, <1>9, <1>10
  DEF Next, FixStep

LEMMA SettledStep == IInv /\ TypeOK' /\ [Next]_vars => Settled'
<1> SUFFICES ASSUME IInv, TypeOK', [Next]_vars PROVE Settled'
  OBVIOUS
<1> USE NoneAssumption DEF IInv
<1>1. ASSUME NEW fs \in SUBSET Files, Start(fs) PROVE Settled'
  BY <1>1 DEF Settled, Start, Writes
<1>2. ASSUME NEW f \in Files, Mod(f) PROVE Settled'
  <2>1. CASE Writes(f)
    BY <1>2, <2>1 DEF Mod, Settled, Writes
  <2>2. CASE ~Writes(f)
    BY <1>2, <2>2 DEF Mod, Settled, Writes
  <2>3. QED BY <2>1, <2>2
<1>3. CASE Truncate
  <2>1. ASSUME NEW f \in settled
        PROVE  tree'[f] = tree[f] /\ (f \in missing' <=> f \in missing)
    BY <1>3, <2>1 DEF Truncate, TypeOK, Settled
  <2>2. QED BY <1>3, <2>1 DEF Truncate, Settled, Writes
<1>4. CASE WriteText
  <2>1. file \in Files /\ text \in Texts /\ file' = None
    BY <1>4 DEF WriteText, TypeOK
  <2>2. ASSUME NEW f \in settled' PROVE f # file' /\ ~Writes(f)'
    <3>1. f \in Files
      BY DEF TypeOK
    <3>2. CASE f = file
      <4>1. Patched(tree'[f]) = tree'[f]
        BY <1>4, <2>1, <3>2, PatchedNothing DEF WriteText, TypeOK, Reached
      <4>2. QED BY <2>1, <3>1, <4>1 DEF Writes
    <3>3. CASE f # file
      <4>1. f \in settled /\ tree'[f] = tree[f] /\ missing' = missing
        BY <1>4, <2>1, <3>1, <3>3 DEF WriteText, TypeOK
      <4>2. QED BY <2>1, <3>1, <4>1 DEF Writes, Settled
    <3>4. QED BY <3>2, <3>3
  <2>3. QED BY <2>2 DEF Settled
<1>5. CASE Finish
  BY <1>5 DEF Settled, Finish, work, Writes
<1>6. CASE NextBuild
  BY <1>6 DEF Settled, NextBuild, work, Writes
<1>7. CASE Kill
  BY <1>7 DEF Settled, Kill, Writes, TypeOK
<1>8. ASSUME NEW f \in Files, NEW t \in Upstream, NEW there \in BOOLEAN,
             Sync(f, t, there)
      PROVE  Settled'
  <2>1. ASSUME NEW g \in settled'
        PROVE  /\ g \in settled /\ tree'[g] = tree[g]
               /\ g \in missing' <=> g \in missing
    BY <1>8, <2>1 DEF Sync, TypeOK
  <2>2. QED BY <1>8, <2>1 DEF Sync, work, Settled, Writes
<1>9. CASE UNCHANGED vars
  BY <1>9 DEF Settled, vars, work, Writes
<1>10. CASE FixStep
  <2>1. UNCHANGED patching
    BY <1>10 DEF FixStep, FixFile, FixWrites, FixFails, Checkout
  <2>2. QED BY <2>1 DEF patching, work, Settled, Writes
<1>11. QED
  BY <1>1, <1>2, <1>3, <1>4, <1>5, <1>6, <1>7, <1>8, <1>9, <1>10
  DEF Next, FixStep

LEMMA IInvInit == Init => IInv
<1>1. Init => Reached /\ Settled
  BY NoneAssumption DEF Init, Reached, Settled
<1>2. QED BY <1>1, TypeInit DEF IInv

LEMMA IInvHolds == Spec => []IInv
<1>1. IInv /\ [Next]_vars => IInv'
  BY TypeStep, ReachedStep, SettledStep DEF IInv
<1>2. QED BY <1>1, IInvInit, PTL DEF Spec

-----------------------------------------------------------------------------
(* A build whose run printed no error has every change in its sources, for *)
(* any files, but for those synced during the run: mod() of patch.py       *)
(* reports whatever it leaves unpatched.                                   *)
THEOREM BuildsAreComplete == Spec => []AppliedOrReported
<1>1. IInv => AppliedOrReported
  <2> SUFFICES ASSUME IInv, run = "build", ~reported,
                      NEW f \in Files \ (touched \cup skipped)
               PROVE  f \notin missing /\ Verdict(tree[f]) = "applied"
    BY DEF AppliedOrReported
  <2>1. f \notin missing /\ AllModified(tree[f])
    BY NoneAssumption DEF IInv, Reached
  <2>2. tree[f] \in Texts
    BY DEF IInv, TypeOK
  <2>3. QED BY <2>1, <2>2, AppliedIsModified
<1>2. QED BY <1>1, IInvHolds, PTL

(* A file a run has dealt with is not opened for writing again until it is *)
(* synced: killed runs leave no file both settled and half written.        *)
THEOREM NothingPatchedTwice == Spec => PatchedOnce
<1>1. IInv /\ [Next]_vars => [writing' /\ ~writing => file \notin settled]_vars
  <2> SUFFICES ASSUME IInv PROVE file \notin settled
    OBVIOUS
  <2>1. QED BY DEF IInv, Settled
<1>2. QED BY <1>1, IInvHolds, PTL DEF Spec, PatchedOnce
=============================================================================
