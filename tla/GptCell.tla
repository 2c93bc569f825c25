------------------------------ MODULE GptCell ------------------------------
(***************************************************************************)
(* What the GPT promises to readers who check its CRCs and fall back on    *)
(* the backup, as a boot loader or the kernel do (GptUtils::Load does      *)
(* neither): a cell for a table whose update is all or nothing, as long    *)
(* as one update at most was cut off since the last complete one.  Cut     *)
(* off, it leaves the old table or the new one; without an update begun,   *)
(* a power loss changes nothing.  After two, any table or none may be      *)
(* found until an update completes.                                        *)
(***************************************************************************)
EXTENDS Naturals

CONSTANTS
  Contents,       \* tables
  NoTable         \* no valid table is found

VARIABLES
  table,      \* the table that is found
  wanted,     \* the one that is being written, or NoTable
  begun       \* updates begun since the last complete one (0, 1, 2 or more)

cellvars == <<table, wanted, begun>>

CellInit == table \in Contents /\ wanted = NoTable /\ begun = 0

Start(t) ==
  /\ wanted = NoTable
  /\ wanted' = t
  /\ \/ begun = 0 /\ begun' = 1 /\ UNCHANGED table
     \/ begun # 0 /\ begun' = 2 /\ table' \in Contents \cup {NoTable}

Commit ==
  /\ wanted # NoTable
  /\ table' = wanted
  /\ UNCHANGED <<wanted, begun>>

Complete ==
  /\ wanted # NoTable
  /\ table = wanted
  /\ wanted' = NoTable
  /\ begun' = 0
  /\ UNCHANGED table

CutOff ==
  /\ wanted # NoTable
  /\ wanted' = NoTable
  /\ UNCHANGED <<table, begun>>

WritesLost ==
  /\ begun # 0
  /\ table' \in Contents \cup {NoTable}
  /\ wanted' = NoTable
  /\ begun' = 2

CellNext ==
  \/ \E t \in Contents : Start(t)
  \/ Commit
  \/ Complete
  \/ CutOff
  \/ WritesLost

CellSpec == CellInit /\ [][CellNext]_cellvars
=============================================================================
