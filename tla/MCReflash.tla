----------------------------- MODULE MCReflash -----------------------------
(* Instances of Reflash for TLC.                                           *)
EXTENDS Reflash

(* Both ways until a snapshot fails, only on afterwards.                   *)
OnAfterErrors == [e \in 0 .. CopyErrors |-> IF e = 0 THEN BOOLEAN ELSE {TRUE}]
=============================================================================
