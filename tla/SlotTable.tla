----------------------------- MODULE SlotTable -----------------------------
(***************************************************************************)
(* The A/B slot metadata both stores of the boot control HAL hold: the     *)
(* devinfo partition (DevInfo.h) and the attribute bits of the boot_a and  *)
(* boot_b GPT entries (BootControl.cpp:53-66).  Both encode the same       *)
(* fields, and the HAL changes both in the same three ways, so one set of  *)
(* operators serves the two paths of every handler.                        *)
(*                                                                         *)
(* Left out: fastboot_ok and the GPT priority.  The HAL writes them only   *)
(* as part of activating a slot and never reads them.                      *)
(***************************************************************************)
EXTENDS Naturals

CONSTANT MaxRetry        \* AB_ATTR_MAX_RETRY_COUNT, 3 in the code

ASSUME MaxRetryAssumption == MaxRetry \in Nat \ {0}

Slots == 0 .. 1

Other(s) == 1 - s

SlotData == [active : BOOLEAN, successful : BOOLEAN, unbootable : BOOLEAN,
             retry : 0 .. MaxRetry]

Tables == [Slots -> SlotData]

(* Exactly one slot is the one to boot from.                               *)
OneActiveIn(t) == t[0].active # t[1].active

SaneTables == {t \in Tables : OneActiveIn(t)}

(* Mutant: one retry too many.                                             *)
FreshSlotOneMore == [active |-> TRUE, successful |-> FALSE, unbootable |-> FALSE,
                     retry |-> MaxRetry + 1]

FreshSlot == [active |-> TRUE, successful |-> FALSE, unbootable |-> FALSE,
              retry |-> MaxRetry]

(* Mutant: the other slot keeps its active flag.                           *)
ActivatedKeepingOther(t, s) == [t EXCEPT ![s] = FreshSlot]

Activated(t, s) == [t EXCEPT ![Other(s)].active = FALSE, ![s] = FreshSlot]

Succeeded(t, s) == [t EXCEPT ![s].successful = TRUE]

Unbooted(t, s) == [t EXCEPT ![s].unbootable = TRUE]
=============================================================================
