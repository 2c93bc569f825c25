------------------------ MODULE BootControlRegister ------------------------
(***************************************************************************)
(* The refinement mapping from BootControl, with the one process Proc, to  *)
(* the abstract SlotRegister.                                              *)
(***************************************************************************)
EXTENDS BootControl

CONSTANT Proc       \* the process of a single-process instance

(* The table the process works with: its own copy once it has read one.    *)
WorkingTable == IF cache[Proc].valid THEN cache[Proc].slots ELSE devinfo

Register == INSTANCE SlotRegister
              WITH durable <- devinfo, working <- WorkingTable

(* One process on devinfo implements the register: every change of the     *)
(* disk is a request applied to the process's view, whatever the order of  *)
(* failed syncs, restarts and reboots.                                     *)
ImplementsRegister == Register!RegSpec
=============================================================================
