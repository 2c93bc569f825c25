----------------------------- MODULE MCGptSync -----------------------------
(* Instances of GptSync for TLC.                                           *)
EXTENDS GptSync

HealthyDisk(t) ==
  [ph |-> [kind |-> "good", sum |-> t], pe |-> t,
   be |-> t, bh |-> [kind |-> "good", sum |-> t]]

HealthyDisks == {HealthyDisk(t) : t \in GoodTables}

(* A header block was zeroed or lost its signature.                        *)
BackupDamaged ==
  {[d EXCEPT !.bh.kind = b] : d \in HealthyDisks, b \in {"badsig", "zero"}}

PrimaryDamaged ==
  {[d EXCEPT !.ph.kind = p] : d \in HealthyDisks, p \in {"badsig", "zero"}}

AllDisks == HealthyDisks \cup BackupDamaged \cup PrimaryDamaged
=============================================================================
