---------------------------- MODULE SlotRegister ----------------------------
(***************************************************************************)
(* What the boot control HAL promises about devinfo when one process uses  *)
(* it: a durable table, and the table the process works with.  A request   *)
(* changes the working table; the durable one becomes the working table or *)
(* stays as it is.  Nothing but a request ever changes the durable table,  *)
(* and after a restart the process works with what is durable.             *)
(***************************************************************************)
EXTENDS SlotTable

CONSTANT InitTables

VARIABLES durable, working

regvars == <<durable, working>>

RegInit == durable \in InitTables /\ working = durable

Request(new) ==
  /\ working' = new
  /\ durable' \in {durable, new}

Activate(s) == Request(Activated(working, s))

MarkSuccessful(s) == Request(Succeeded(working, s))

MarkUnbootable(s) == Request(Unbooted(working, s))

Reload == working' = durable /\ UNCHANGED durable

RegNext ==
  \/ Reload
  \/ \E s \in Slots :
       Activate(s) \/ MarkSuccessful(s) \/ MarkUnbootable(s)

RegSpec == RegInit /\ [][RegNext]_regvars
=============================================================================
