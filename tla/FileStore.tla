----------------------------- MODULE FileStore -----------------------------
(***************************************************************************)
(* What the storage proxy promises to its client Trusty: a directory of    *)
(* files under names, of which the client has some open.  A request that   *)
(* is answered well has had its effect, once, on the file it names; one    *)
(* that is refused had none, but that a failed write may leave a part; one *)
(* that is lost with its connection had its effect once or not at all.  No *)
(* other file ever changes, and no file is opened against its flags.  That *)
(* files have descriptors, and that numbers are used again, is not to be   *)
(* noticed.                                                                *)
(***************************************************************************)
CONSTANTS
  Names,          \* files
  Requests,       \* each has an op and a name, a write a val, an open its flags
  None,           \* no request
  Absent, Empty, Torn \* no such file; no contents; a part of a failed write

VARIABLES
  files,          \* contents
  opened,         \* files the client has open
  request,        \* the one that is not answered yet
  connected       \* the client hears answers

storevars == <<files, opened, request, connected>>

StoreInit ==
  /\ files = [n \in Names |-> Absent]
  /\ opened = {}
  /\ request = None
  /\ connected = FALSE

(* May the file be opened that way?                                        *)
Opens(r, c) == IF c = Absent THEN r.create ELSE ~(r.create /\ r.excl)

(* What request r, answered ok or not, may make of contents c.             *)
Results(r, ok, c) ==
  CASE ~ok /\ r.op = "write"   -> {c, Torn, r.val}
    [] ~ok /\ r.op # "write"   -> {c}
    [] ok /\ r.op = "write"    -> {r.val}
    [] ok /\ r.op = "truncate" -> {Empty}
    [] ok /\ r.op = "delete"   -> {Absent} \ {c}
    [] ok /\ r.op = "open"     -> IF ~Opens(r, c) THEN {}
                                  ELSE IF c = Absent \/ r.trunc THEN {Empty} ELSE {c}
    [] OTHER                   -> {c}

Begin ==
  /\ ~connected /\ request = None
  /\ connected' = TRUE
  /\ UNCHANGED <<files, opened, request>>

Ask(r) ==
  /\ connected /\ request = None
  /\ r.op \in {"open", "delete"} <=> r.name \notin opened
  /\ request' = r
  /\ UNCHANGED <<files, opened, connected>>

CarryOut(ok) ==
  /\ request # None
  /\ LET n == request.name IN
     /\ \E c \in Results(request, ok, files[n]) : files' = [files EXCEPT ![n] = c]
     /\ opened' = CASE connected /\ ok /\ request.op = "open"  -> opened \cup {n}
                    [] connected /\ ok /\ request.op = "close" -> opened \ {n}
                    [] OTHER                                   -> opened
  /\ request' = None
  /\ UNCHANGED connected

(* What the client has asked may be carried out yet, or is lost.           *)
End ==
  /\ connected' = FALSE
  /\ opened' = {}
  /\ request' \in {request, None}
  /\ UNCHANGED files

StoreNext ==
  \/ Begin
  \/ \E r \in Requests : Ask(r)
  \/ \E ok \in BOOLEAN : CarryOut(ok)
  \/ End

StoreSpec == StoreInit /\ [][StoreNext]_storevars
=============================================================================
