---------------------------- MODULE StorageProxy ----------------------------
(***************************************************************************)
(* recovery_storageproxyd (selfcode/recovery_storageproxyd): the daemon    *)
(* that keeps the files of Trusty's secure storage, for KeyMint and        *)
(* Gatekeeper.  It has one thread: connect to Trusty's port, answer        *)
(* requests one by one, on any error close the connection and connect      *)
(* again.  init starts it again when it exits.  A handle it gives out is   *)
(* the file descriptor, the lowest free one; a connection that ends leaves *)
(* its files open.                                                         *)
(*                                                                         *)
(* Trusty is the environment.  It sends one request at a time, uses only   *)
(* handles the current connection gave it, and forgets them when the       *)
(* connection ends.  The data directory is in /tmp: a reboot starts        *)
(* everything anew and is not an action.  A file holds one value, which a  *)
(* write replaces (write_full and read_full loop over partial transfers);  *)
(* a write that fails may have written a part.                             *)
(***************************************************************************)
EXTENDS Naturals, FiniteSets, FiniteSetsExt

CONSTANTS
  Names,          \* files
  Vals,           \* contents a write may give a file
  Absent, Empty, Torn, \* no such file; no contents; a part of a failed write
  Free, Rpmb, Tipc, Gone, \* what a descriptor that is no file of Names is open on
  None,           \* no descriptor, no request
  NFds,           \* descriptors the daemon may have open (RLIMIT_NOFILE)
  MaxFailures     \* failed connects before it sleeps, 100 in the code

Fds == 1 .. NFds

ASSUME FdsAssumption == NFds \in Nat /\ NFds >= 3
ASSUME FailuresAssumption == MaxFailures \in Nat
ASSUME SymbolsAssumption ==
  /\ {Absent, Empty, Torn} \cap Vals = {} /\ None \notin Fds
  /\ {Free, Rpmb, Tipc, Gone} \cap Names = {}
  /\ Free \notin {Rpmb, Tipc, Gone} /\ Rpmb # Tipc /\ Gone \notin {Rpmb, Tipc}

Contents == {Empty, Torn} \cup Vals

Requests ==
  [op : {"open"}, name : Names, create : BOOLEAN, excl : BOOLEAN, trunc : BOOLEAN]
  \cup [op : {"write"}, name : Names, fd : Fds, val : Vals]
  \cup [op : {"close", "truncate", "ask"}, name : Names, fd : Fds]
  \cup [op : {"delete"}, name : Names]

VARIABLES
  files,          \* the data directory
  table,          \* descriptors of the daemon
  daemon,         \* where main is: not running, connecting, in proxy_loop
  tipc,           \* tipc_fd
  failures,       \* connect_failures
  first,          \* first_connect
  ready,          \* /dev/.recovery_sp_ready exists
  port,           \* Trusty accepts connections on its port
  session,        \* Trusty's end of the connection is open
  sent,           \* the request Trusty waits for the answer of
  held,           \* Trusty: the handle it has for a file
  believed,       \* Trusty: contents by its requests and their answers
  certain         \* Trusty: no request about this file failed or was lost

vars == <<files, table, daemon, tipc, failures, first, ready, port, session,
          sent, held, believed, certain>>

trusty == <<session, sent, held, believed, certain>>

TypeOK ==
  /\ files \in [Names -> Contents \cup {Absent}]
  /\ table \in [Fds -> Names \cup {Free, Rpmb, Tipc, Gone}]
  /\ daemon \in {"down", "connecting", "serving"}
  /\ tipc \in Fds \cup {None}
  /\ failures \in 0 .. MaxFailures
  /\ first \in BOOLEAN
  /\ ready \in BOOLEAN
  /\ port \in BOOLEAN
  /\ session \in BOOLEAN
  /\ sent \in Requests \cup {None}
  /\ held \in [Names -> Fds \cup {None}]
  /\ believed \in [Names -> Contents \cup {Absent}]
  /\ certain \in [Names -> BOOLEAN]

NoHandles == [n \in Names |-> None]

Init ==
  /\ files = [n \in Names |-> Absent]
  /\ table = [f \in Fds |-> Free]
  /\ daemon = "down"
  /\ tipc = None
  /\ failures = 0
  /\ first = TRUE
  /\ ready = FALSE
  /\ port \in BOOLEAN
  /\ session = FALSE
  /\ sent = None
  /\ held = NoHandles
  /\ believed = files
  /\ certain = [n \in Names |-> TRUE]

FreeFds == {f \in Fds : table[f] = Free}

LowestFree == Min(FreeFds)
-----------------------------------------------------------------------------
(* Trusty's end when the connection is over: a request without an answer   *)
(* may be carried out or not.                                              *)
SessionEnds ==
  /\ session' = FALSE
  /\ held' = NoHandles
  /\ certain' = IF sent = None THEN certain ELSE [certain EXCEPT ![sent.name] = FALSE]
  /\ UNCHANGED believed

(* main, up to the loop.  Without the RPMB device it exits at once.        *)
StartDaemon ==
  /\ daemon = "down"
  /\ daemon' = "connecting"
  /\ table' = [f \in Fds |-> IF f = 1 THEN Rpmb ELSE Free]
  /\ failures' = 0
  /\ first' = TRUE
  /\ UNCHANGED <<files, tipc, ready, port, trusty>>

(* Mutant: the descriptor of a failed ioctl stays open.                    *)
ConnectFailsLeaking ==
  /\ daemon = "connecting"
  /\ ~port \/ FreeFds = {}
  /\ table' = [f \in Fds |-> IF f \in FreeFds /\ f = LowestFree THEN Gone ELSE table[f]]
  /\ failures' = IF failures < MaxFailures THEN failures + 1 ELSE 0
  /\ UNCHANGED <<files, daemon, tipc, first, ready, port, trusty>>

(* tipc_connect fails in open or in the ioctl, where it closes what it     *)
(* opened.  After MaxFailures in a row the daemon sleeps and counts anew.  *)
ConnectFails ==
  /\ daemon = "connecting"
  /\ ~port \/ FreeFds = {}
  /\ failures' = IF failures < MaxFailures THEN failures + 1 ELSE 0
  /\ UNCHANGED <<files, table, daemon, tipc, first, ready, port, trusty>>

(* Creating the ready file takes a descriptor for a moment; without one it *)
(* is not created, and first_connect is reset all the same.                *)
Connect ==
  /\ daemon = "connecting" /\ port /\ FreeFds # {}
  /\ tipc' = LowestFree
  /\ table' = [table EXCEPT ![LowestFree] = Tipc]
  /\ daemon' = "serving"
  /\ failures' = 0
  /\ first' = FALSE
  /\ ready' = (ready \/ (first /\ Cardinality(FreeFds) > 1))
  /\ session' = TRUE
  /\ UNCHANGED <<files, port, sent, held, believed, certain>>

(* Mutant: the connection is not closed.                                   *)
DisconnectLeaking ==
  /\ table' = [table EXCEPT ![tipc] = Gone]
  /\ tipc' = None
  /\ daemon' = "connecting"

(* proxy_loop returned: main closes the connection.                        *)
Disconnect ==
  /\ table' = [table EXCEPT ![tipc] = Free]
  /\ tipc' = None
  /\ daemon' = "connecting"

(* readv fails, or the message is not whole.                               *)
ReceiveFails ==
  /\ daemon = "serving"
  /\ Disconnect
  /\ SessionEnds
  /\ sent' = None
  /\ UNCHANGED <<files, failures, first, ready, port>>

(* The daemon exits or is killed: the kernel closes its descriptors.       *)
DaemonDies ==
  /\ daemon # "down"
  /\ daemon' = "down"
  /\ table' = [f \in Fds |-> Free]
  /\ tipc' = None
  /\ SessionEnds
  /\ sent' = None
  /\ UNCHANGED <<files, failures, first, ready, port>>
-----------------------------------------------------------------------------
(* What request r makes of a file with contents c.                         *)
Effect(r, c) ==
  CASE r.op = "write"    -> r.val
    [] r.op = "truncate" -> Empty
    [] r.op = "delete"   -> Absent
    [] r.op = "open"     -> IF c = Absent \/ r.trunc THEN Empty ELSE c
    [] OTHER             -> c

(* Trusty hears the answer to its request; fd is the handle in it.         *)
TrustyHears(ok, fd) ==
  LET n == sent.name IN
  /\ held' = CASE ok /\ sent.op = "open"  -> [held EXCEPT ![n] = fd]
               [] ok /\ sent.op = "close" -> [held EXCEPT ![n] = None]
               [] OTHER                   -> held
  /\ believed' = IF ok THEN [believed EXCEPT ![n] = Effect(sent, @)] ELSE believed
  /\ certain' = IF sent.op \in {"write", "truncate"} THEN [certain EXCEPT ![n] = ok]
                ELSE certain

(* The answer to the request in hand reaches Trusty, or nobody: writev     *)
(* fails on a closed connection, and proxy_loop returns.                   *)
Reply(ok, fd, newTable) ==
  /\ sent' = None
  /\ \/ /\ session
        /\ table' = newTable
        /\ TrustyHears(ok, fd)
        /\ UNCHANGED <<daemon, tipc, session>>
     \/ /\ ~session
        /\ table' = [newTable EXCEPT ![tipc] = Free]
        /\ tipc' = None
        /\ daemon' = "connecting"
        /\ UNCHANGED <<session, held, believed, certain>>
  /\ UNCHANGED <<failures, first, ready, port>>

Refuse == Reply(FALSE, None, table) /\ UNCHANGED files

Serving(op) == daemon = "serving" /\ sent # None /\ sent.op = op

(* Mutant: creating a file that exists empties it.                         *)
ServeOpenEmptying ==
  /\ Serving("open")
  /\ LET n == sent.name IN
     IF \/ FreeFds = {}
        \/ files[n] = Absent /\ ~sent.create
        \/ files[n] # Absent /\ sent.create /\ sent.excl
     THEN Refuse
     ELSE /\ files' = [files EXCEPT ![n] =
                         IF sent.create THEN Empty ELSE Effect(sent, @)]
          /\ Reply(TRUE, LowestFree, [table EXCEPT ![LowestFree] = n])

(* Mutant: O_EXCL is forgotten.                                            *)
ServeOpenNotExclusive ==
  /\ Serving("open")
  /\ LET n == sent.name IN
     IF FreeFds = {} \/ (files[n] = Absent /\ ~sent.create)
     THEN Refuse
     ELSE /\ files' = [files EXCEPT ![n] = Effect(sent, @)]
          /\ Reply(TRUE, LowestFree, [table EXCEPT ![LowestFree] = n])

ServeOpen ==
  /\ Serving("open")
  /\ LET n == sent.name IN
     IF \/ FreeFds = {}
        \/ files[n] = Absent /\ ~sent.create
        \/ files[n] # Absent /\ sent.create /\ sent.excl
     THEN Refuse
     ELSE /\ files' = [files EXCEPT ![n] = Effect(sent, @)]
          /\ Reply(TRUE, LowestFree, [table EXCEPT ![LowestFree] = n])

(* write, and set_size to nothing (other sizes leave the value): the file  *)
(* the descriptor is open on changes.  A write that fails may have written *)
(* nothing, a part or everything.                                          *)
ServeChange ==
  /\ Serving("write") \/ Serving("truncate")
  /\ LET n == table[sent.fd] IN
     \/ /\ n \in Names
        /\ files' = [files EXCEPT ![n] = Effect(sent, @)]
        /\ Reply(TRUE, None, table)
     \/ /\ n \in Names /\ sent.op = "write"
        /\ \E part \in {Torn, sent.val} : files' = [files EXCEPT ![n] = part]
        /\ Reply(FALSE, None, table)
     \/ n = Gone /\ Reply(TRUE, None, table) /\ UNCHANGED files
     \/ Refuse

(* Mutant: a result of fsync that is not 0 is answered after the close.    *)
ServeCloseAnsweringFsync ==
  /\ Serving("close")
  /\ IF table[sent.fd] = Free
     THEN Refuse
     ELSE /\ \E synced \in BOOLEAN :
               Reply(synced, None, [table EXCEPT ![sent.fd] = Free])
          /\ UNCHANGED files

ServeClose ==
  /\ Serving("close")
  /\ IF table[sent.fd] = Free
     THEN Refuse
     ELSE /\ Reply(TRUE, None, [table EXCEPT ![sent.fd] = Free])
          /\ UNCHANGED files

(* unlink: a descriptor open on the file stays, on a file without a name.  *)
ServeDelete ==
  /\ Serving("delete")
  /\ LET n == sent.name IN
     IF files[n] = Absent THEN Refuse
     ELSE /\ files' = [files EXCEPT ![n] = Absent]
          /\ Reply(TRUE, None,
                   [f \in Fds |-> IF table[f] = n THEN Gone ELSE table[f]])

(* Mutant: a command the daemon does not know is not answered.             *)
ServeAskSilently == Serving("ask") /\ UNCHANGED vars

(* read, get_size, get_max_size, RPMB requests (module RpmbSend), and the  *)
(* commands the daemon does not know.                                      *)
ServeAsk == Serving("ask") /\ \E ok \in BOOLEAN : Reply(ok, None, table) /\ UNCHANGED files

Serve == ServeOpen \/ ServeChange \/ ServeClose \/ ServeDelete \/ ServeAsk
-----------------------------------------------------------------------------
(* Trusty asks: it opens a file it has no handle for, uses the handles it  *)
(* has, and deletes files it has closed.                                   *)
Send(r) ==
  /\ session
  /\ sent = None
  /\ IF r.op \in {"open", "delete"} THEN held[r.name] = None ELSE held[r.name] = r.fd
  /\ sent' = r
  /\ UNCHANGED <<files, table, daemon, tipc, failures, first, ready, port,
                 session, held, believed, certain>>

(* Trusty closes its end.  The daemon may have read the request already.   *)
TrustyCloses ==
  /\ session
  /\ SessionEnds
  /\ UNCHANGED <<files, table, daemon, tipc, failures, first, ready, port, sent>>

PortChanges ==
  /\ port' = ~port
  /\ UNCHANGED <<files, table, daemon, tipc, failures, first, ready, trusty>>

Next ==
  \/ StartDaemon
  \/ ConnectFails
  \/ Connect
  \/ ReceiveFails
  \/ DaemonDies
  \/ Serve
  \/ \E r \in Requests : Send(r)
  \/ TrustyCloses
  \/ PortChanges

(***************************************************************************)
(* init starts a service without "oneshot" again whenever it exits; the    *)
(* daemon's thread goes on as long as it can, and readv returns when the   *)
(* other end has closed.  Nothing is assumed of Trusty.                    *)
(***************************************************************************)
Fairness ==
  /\ WF_vars(StartDaemon)
  /\ WF_vars(Connect)
  /\ WF_vars(Serve)
  /\ WF_vars(~session /\ ReceiveFails)

Spec == Init /\ [][Next]_vars

FairSpec == Spec /\ Fairness
-----------------------------------------------------------------------------
(***************************************************************************)
(* A handle Trusty has is open on the file it was given out for, however   *)
(* many descriptors earlier connections left open and however often a      *)
(* number was closed and given out again.                                  *)
(***************************************************************************)
HandleRefersToItsFile ==
  \A n \in Names : held[n] # None => table[held[n]] = n

(***************************************************************************)
(* A file holds what the answers told Trusty, through reconnects, restarts *)
(* of the daemon and requests lost with their connection, unless the last  *)
(* request that would change it failed or was never answered.              *)
(***************************************************************************)
AnsweredIsStored ==
  \A n \in Names : certain[n] => files[n] = believed[n]

(***************************************************************************)
(* Trusty may forget about descriptors: it has a store of named files.     *)
(* Each request has its effect on the file it names, at most once, and on  *)
(* no other, also when the connection ends before, in or after it; and a   *)
(* file is opened and deleted only if its name and the flags allow it.     *)
(***************************************************************************)
Store == INSTANCE FileStore
           WITH opened    <- {n \in Names : held[n] # None},
                request   <- sent,
                connected <- session

ImplementsFileStore == Store!StoreSpec

(***************************************************************************)
(* Descriptors leaked by earlier connections may use up all the others,    *)
(* but never the one the next connection needs.                            *)
(***************************************************************************)
RoomToReconnect == daemon = "connecting" => FreeFds # {}

(***************************************************************************)
(* Whenever the daemon serves, the mark that init and the Keymint service  *)
(* wait for is there.  main tries to create it after the first connection  *)
(* of a process only and never tries again, so that the descriptor this    *)
(* takes must be free just then.                                           *)
(***************************************************************************)
ServingIsMarked == daemon = "serving" => ready

(***************************************************************************)
(* "Reconnects to Trusty in a tight loop on disconnect"                    *)
(* (recovery_storageproxyd.c:9): once Trusty accepts connections for good, *)
(* and the daemon is no longer killed, it is connected again and again.    *)
(***************************************************************************)
Reconnects ==
  <>[]port /\ <>[][~DaemonDies]_vars => []<>(daemon = "serving" /\ ready)

(* Every request is answered, or lost with its connection.                 *)
RequestsEnd == sent # None ~> sent = None
=============================================================================
