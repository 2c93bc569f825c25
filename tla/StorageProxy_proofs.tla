------------------------ MODULE StorageProxy_proofs ------------------------
(***************************************************************************)
(* Theorems about recovery_storageproxyd: first StorageProxy, for any      *)
(* files, contents, number of descriptors and number of failures before    *)
(* the daemon sleeps; then RpmbSend, for any retry counts and any number   *)
(* of requests.                                                            *)
(***************************************************************************)
EXTENDS StorageProxy, RpmbSend, FiniteSetTheorems, WellFoundedInduction, TLAPS

(***************************************************************************)
(* Why a file never differs from what Trusty was told.  The connection     *)
(* belongs to a daemon in proxy_loop, and a request is in hand only there. *)
(* A request names the handle Trusty has, and that handle stays open on    *)
(* the file even when the connection has ended meanwhile; so a request     *)
(* changes no file but the one Trusty knows it may change.                 *)
(***************************************************************************)
ConnectionInv ==
  /\ daemon # "serving" => tipc = None /\ ~session /\ sent = None
  /\ daemon = "serving" => tipc \in Fds /\ table[tipc] = Tipc

UsesHandle(r) == r.op \in {"write", "close", "truncate", "ask"}

RequestInv ==
  sent # None =>
    /\ UsesHandle(sent) => table[sent.fd] = sent.name
    /\ session /\ UsesHandle(sent) => held[sent.name] = sent.fd
    /\ session /\ ~UsesHandle(sent) => held[sent.name] = None
    /\ ~session => ~certain[sent.name]

SessionInv == ~session => held = NoHandles

ProxyInv ==
  /\ TypeOK
  /\ ConnectionInv
  /\ RequestInv
  /\ SessionInv
  /\ RoomToReconnect
  /\ HandleRefersToItsFile
  /\ AnsweredIsStored
-----------------------------------------------------------------------------
LEMMA FdsAreNaturals == Fds \subseteq Nat /\ 1 \in Fds
BY FdsAssumption DEF Fds

(* The lowest free descriptor is a free one.                               *)
LEMMA LowestIsFree ==
  ASSUME FreeFds # {} PROVE LowestFree \in Fds /\ table[LowestFree] = Free
<1>1. FreeFds \subseteq Nat
  BY FdsAreNaturals DEF FreeFds
<1>2. PICK x \in FreeFds : \A y \in FreeFds : ~(<<y, x>> \in OpToRel(<, Nat))
  BY <1>1, NatLessThanWellFounded, WFMin
<1>3. ASSUME NEW y \in FreeFds PROVE x <= y
  <2>1. x \in Nat /\ y \in Nat
    BY <1>1
  <2>2. y < x => <<y, x>> \in OpToRel(<, Nat)
    BY <2>1 DEF OpToRel
  <2>3. ~(y < x)
    BY <1>2, <2>2
  <2> QED BY <2>1, <2>3
<1>4. LowestFree \in FreeFds
  BY <1>3 DEF LowestFree, Min
<1> QED BY <1>4 DEF FreeFds

LEMMA RequestParts ==
  ASSUME NEW r \in Requests
  PROVE  /\ r.name \in Names
         /\ r.op \in {"open", "write", "close", "truncate", "ask", "delete"}
         /\ UsesHandle(r) => r.fd \in Fds
         /\ r.op = "write" => r.val \in Vals
<1>1. CASE r \in [op : {"open"}, name : Names, create : BOOLEAN, excl : BOOLEAN,
                  trunc : BOOLEAN]
  BY <1>1 DEF UsesHandle
<1>2. CASE r \in [op : {"write"}, name : Names, fd : Fds, val : Vals]
  BY <1>2 DEF UsesHandle
<1>3. CASE r \in [op : {"close", "truncate", "ask"}, name : Names, fd : Fds]
  BY <1>3 DEF UsesHandle
<1>4. CASE r \in [op : {"delete"}, name : Names]
  BY <1>4 DEF UsesHandle
<1> QED BY <1>1, <1>2, <1>3, <1>4 DEF Requests

LEMMA SentParts ==
  ASSUME TypeOK, sent # None
  PROVE  /\ sent.name \in Names
         /\ sent.op \in {"open", "write", "close", "truncate", "ask", "delete"}
         /\ UsesHandle(sent) => sent.fd \in Fds
         /\ sent.op = "write" => sent.val \in Vals
BY RequestParts DEF TypeOK

LEMMA EffectType ==
  ASSUME TypeOK, sent # None, NEW c \in Contents \cup {Absent}
  PROVE  Effect(sent, c) \in Contents \cup {Absent}
BY SentParts DEF Effect, Contents

(* What the store of named files allows a request to make of contents c.   *)
LEMMA ResultsAre ==
  ASSUME NEW r, NEW c
  PROVE  /\ c \in Store!Results(r, FALSE, c)
         /\ r.op = "write" => /\ Torn \in Store!Results(r, FALSE, c)
                              /\ r.val \in Store!Results(r, FALSE, c)
                              /\ r.val \in Store!Results(r, TRUE, c)
         /\ r.op = "truncate" => Empty \in Store!Results(r, TRUE, c)
         /\ r.op = "delete" /\ c # Absent => Absent \in Store!Results(r, TRUE, c)
         /\ r.op \in {"close", "ask"} => c \in Store!Results(r, TRUE, c)
         /\ r.op = "open" /\ Store!Opens(r, c) => Effect(r, c) \in Store!Results(r, TRUE, c)
BY DEF Store!Results, Effect

(* When the connection ends, only the request in hand becomes uncertain.   *)
LEMMA SessionEndsInv ==
  ASSUME ProxyInv, SessionEnds
  PROVE  /\ session' = FALSE /\ session' \in BOOLEAN /\ held' = NoHandles
         /\ held' \in [Names -> Fds \cup {None}]
         /\ believed' = believed
         /\ certain' \in [Names -> BOOLEAN]
         /\ \A n \in Names : certain'[n] => certain[n]
         /\ sent # None => ~certain'[sent.name]
<1>1. held' \in [Names -> Fds \cup {None}]
  BY DEF SessionEnds, NoHandles
<1>2. CASE sent = None
  BY <1>1, <1>2 DEF SessionEnds, ProxyInv, TypeOK
<1>3. CASE sent # None
  BY <1>1, <1>3, SentParts DEF SessionEnds, ProxyInv, TypeOK
<1> QED BY <1>2, <1>3
-----------------------------------------------------------------------------
LEMMA StartInv == ASSUME ProxyInv, StartDaemon PROVE ProxyInv'
<1>1. TypeOK'
  <2>1. 0 \in 0 .. MaxFailures
    BY FailuresAssumption
  <2>2. table' \in [Fds -> Names \cup {Free, Rpmb, Tipc, Gone}]
    BY DEF StartDaemon
  <2> QED BY <2>1, <2>2 DEF StartDaemon, ProxyInv, TypeOK, trusty
<1>2. held = NoHandles /\ held' = held /\ sent' = None
  BY DEF StartDaemon, ProxyInv, ConnectionInv, SessionInv, trusty
<1>3. 2 \in Fds /\ table'[2] = Free
  BY FdsAssumption DEF StartDaemon, Fds
<1>4. RoomToReconnect'
  BY <1>3 DEF RoomToReconnect, FreeFds
<1>5. HandleRefersToItsFile'
  BY <1>2 DEF HandleRefersToItsFile, NoHandles
<1> QED
  BY <1>1, <1>2, <1>4, <1>5
  DEF StartDaemon, ProxyInv, ConnectionInv, RequestInv, SessionInv,
      AnsweredIsStored, trusty

LEMMA ConnectFailsInv == ASSUME ProxyInv, ConnectFails PROVE ProxyInv'
<1>1. TypeOK'
  BY FailuresAssumption DEF ConnectFails, ProxyInv, TypeOK, trusty
<1> QED
  BY <1>1
  DEF ConnectFails, ProxyInv, ConnectionInv, RequestInv, SessionInv, UsesHandle,
      RoomToReconnect, FreeFds, HandleRefersToItsFile, AnsweredIsStored, trusty

LEMMA ConnectInv == ASSUME ProxyInv, Connect PROVE ProxyInv'
<1>1. LowestFree \in Fds /\ table[LowestFree] = Free
  BY LowestIsFree DEF Connect
<1>2. held = NoHandles /\ held' = held /\ sent = None /\ sent' = None
  BY DEF Connect, ProxyInv, ConnectionInv, SessionInv
<1>3. /\ tipc' = LowestFree /\ table' = [table EXCEPT ![LowestFree] = Tipc]
      /\ daemon' = "serving" /\ failures' = 0 /\ first' = FALSE /\ session' = TRUE
      /\ ready' \in BOOLEAN
      /\ UNCHANGED <<files, port, sent, held, believed, certain>>
  BY DEF Connect, ProxyInv, TypeOK
<1>4. TypeOK' /\ table'[tipc'] = Tipc
  <2>1. 0 \in 0 .. MaxFailures
    BY FailuresAssumption
  <2>2. table' \in [Fds -> Names \cup {Free, Rpmb, Tipc, Gone}] /\ table'[tipc'] = Tipc
    BY <1>1, <1>3 DEF ProxyInv, TypeOK
  <2> QED BY <1>1, <1>3, <2>1, <2>2 DEF ProxyInv, TypeOK
<1>5. HandleRefersToItsFile'
  BY <1>2 DEF HandleRefersToItsFile, NoHandles
<1> QED
  BY <1>1, <1>2, <1>3, <1>4, <1>5
  DEF ProxyInv, ConnectionInv, RequestInv, SessionInv, RoomToReconnect,
      AnsweredIsStored

LEMMA ReceiveFailsInv == ASSUME ProxyInv, ReceiveFails PROVE ProxyInv'
<1>1. tipc \in Fds /\ daemon = "serving"
  BY DEF ReceiveFails, ProxyInv, ConnectionInv
<1>2. table' = [table EXCEPT ![tipc] = Free] /\ tipc' = None /\ daemon' = "connecting"
  BY DEF ReceiveFails, Disconnect
<1>3. sent' = None /\ UNCHANGED <<files, failures, first, ready, port>> /\ SessionEnds
  BY DEF ReceiveFails
<1>4. TypeOK'
  BY <1>1, <1>2, <1>3, SessionEndsInv DEF ProxyInv, TypeOK
<1>5. table'[tipc] = Free
  BY <1>1, <1>2 DEF ProxyInv, TypeOK
<1>6. RoomToReconnect'
  BY <1>1, <1>5 DEF RoomToReconnect, FreeFds
<1>7. HandleRefersToItsFile' /\ AnsweredIsStored'
  BY <1>3, SessionEndsInv
  DEF ProxyInv, HandleRefersToItsFile, AnsweredIsStored, NoHandles
<1> QED
  BY <1>2, <1>3, <1>4, <1>6, <1>7, SessionEndsInv
  DEF ProxyInv, ConnectionInv, RequestInv, SessionInv

LEMMA DaemonDiesInv == ASSUME ProxyInv, DaemonDies PROVE ProxyInv'
<1>1. /\ daemon' = "down" /\ table' = [f \in Fds |-> Free] /\ tipc' = None
      /\ sent' = None /\ UNCHANGED <<files, failures, first, ready, port>>
      /\ SessionEnds
  BY DEF DaemonDies
<1>2. TypeOK'
  BY <1>1, SessionEndsInv DEF ProxyInv, TypeOK
<1>3. HandleRefersToItsFile' /\ AnsweredIsStored'
  BY <1>1, SessionEndsInv
  DEF ProxyInv, HandleRefersToItsFile, AnsweredIsStored, NoHandles
<1> QED
  BY <1>1, <1>2, <1>3, SessionEndsInv
  DEF ProxyInv, ConnectionInv, RequestInv, SessionInv, RoomToReconnect

LEMMA TrustyClosesInv == ASSUME ProxyInv, TrustyCloses PROVE ProxyInv'
<1>1. /\ session /\ SessionEnds
      /\ UNCHANGED <<files, table, daemon, tipc, failures, first, ready, port, sent>>
  BY DEF TrustyCloses
<1>2. TypeOK'
  BY <1>1, SessionEndsInv DEF ProxyInv, TypeOK
<1>3. HandleRefersToItsFile' /\ AnsweredIsStored'
  BY <1>1, SessionEndsInv
  DEF ProxyInv, HandleRefersToItsFile, AnsweredIsStored, NoHandles
<1>4. RequestInv'
  BY <1>1, SessionEndsInv DEF ProxyInv, RequestInv, UsesHandle
<1> QED
  BY <1>1, <1>2, <1>3, <1>4, SessionEndsInv
  DEF ProxyInv, ConnectionInv, SessionInv, RoomToReconnect, FreeFds

LEMMA SendInv ==
  ASSUME ProxyInv, NEW r \in Requests, Send(r) PROVE ProxyInv'
<1>1. /\ session /\ sent' = r
      /\ IF r.op \in {"open", "delete"} THEN held[r.name] = None ELSE held[r.name] = r.fd
      /\ UNCHANGED <<files, table, daemon, tipc, failures, first, ready, port,
                     session, held, believed, certain>>
  BY DEF Send
<1>2. TypeOK'
  BY <1>1 DEF ProxyInv, TypeOK
<1>3. RequestInv'
  <2>1. UsesHandle(r) => held[r.name] = r.fd /\ r.fd \in Fds
    BY <1>1, RequestParts DEF UsesHandle
  <2>2. ~UsesHandle(r) => held[r.name] = None
    BY <1>1, RequestParts DEF UsesHandle
  <2>3. UsesHandle(r) => table[r.fd] = r.name
    BY <2>1, RequestParts, SymbolsAssumption DEF ProxyInv, HandleRefersToItsFile
  <2> QED BY <1>1, <2>1, <2>2, <2>3 DEF RequestInv, UsesHandle
<1> QED
  BY <1>1, <1>2, <1>3
  DEF ProxyInv, ConnectionInv, SessionInv, RoomToReconnect, FreeFds,
      HandleRefersToItsFile, AnsweredIsStored

LEMMA PortInv == ASSUME ProxyInv, PortChanges PROVE ProxyInv'
<1>1. TypeOK'
  BY DEF PortChanges, ProxyInv, TypeOK, trusty
<1> QED
  BY <1>1
  DEF PortChanges, ProxyInv, ConnectionInv, RequestInv, SessionInv, UsesHandle,
      RoomToReconnect, FreeFds, HandleRefersToItsFile, AnsweredIsStored, trusty
-----------------------------------------------------------------------------
(***************************************************************************)
(* A request is served.  The conditions are what the five kinds of serving *)
(* have in common: they touch one file and one descriptor, the request's.  *)
(***************************************************************************)
ServesRequest(ok, fd, t) ==
  /\ daemon = "serving" /\ sent # None /\ ok \in BOOLEAN
  /\ t \in [Fds -> Names \cup {Free, Rpmb, Tipc, Gone}]
  /\ files' \in [Names -> Contents \cup {Absent}]
  /\ ok /\ sent.op = "open" => fd \in Fds /\ t[fd] = sent.name
  /\ t[tipc] = Tipc
  /\ session => \A m \in Names :
       held[m] # None => t[held[m]] = m \/ (m = sent.name /\ ok /\ sent.op = "close")
  /\ \A m \in Names : m # sent.name => files'[m] = files[m]
  /\ ok => files'[sent.name] = Effect(sent, files[sent.name])
  /\ ~ok /\ sent.op \notin {"write", "truncate"} =>
       files'[sent.name] = files[sent.name]
  /\ files'[sent.name] \in Store!Results(sent, ok, files[sent.name])

LEMMA ReplyType ==
  ASSUME ProxyInv, NEW ok, NEW fd, NEW t, ServesRequest(ok, fd, t), Reply(ok, fd, t)
  PROVE  TypeOK'
<1> USE DEF ServesRequest
<1>1. tipc \in Fds /\ sent.name \in Names
  BY SentParts DEF ProxyInv, ConnectionInv
<1>2. sent' = None /\ UNCHANGED <<failures, first, ready, port>>
  BY DEF Reply
<1>3. CASE session
  <2>1. /\ table' = t /\ TrustyHears(ok, fd) /\ UNCHANGED <<daemon, tipc, session>>
    BY <1>3 DEF Reply
  <2>2. held' \in [Names -> Fds \cup {None}]
    BY <1>1, <2>1 DEF TrustyHears, ProxyInv, TypeOK
  <2>3. believed' \in [Names -> Contents \cup {Absent}]
    <3>1. Effect(sent, believed[sent.name]) \in Contents \cup {Absent}
      BY <1>1, EffectType DEF ProxyInv, TypeOK
    <3> QED BY <1>1, <2>1, <3>1 DEF TrustyHears, ProxyInv, TypeOK
  <2>4. certain' \in [Names -> BOOLEAN]
    BY <1>1, <2>1 DEF TrustyHears, ProxyInv, TypeOK
  <2> QED BY <1>2, <2>1, <2>2, <2>3, <2>4 DEF ProxyInv, TypeOK
<1>4. CASE ~session
  <2>1. /\ table' = [t EXCEPT ![tipc] = Free] /\ tipc' = None
        /\ daemon' = "connecting" /\ UNCHANGED <<session, held, believed, certain>>
    BY <1>4 DEF Reply
  <2>2. table' \in [Fds -> Names \cup {Free, Rpmb, Tipc, Gone}]
    BY <1>1, <2>1
  <2> QED BY <1>2, <2>1, <2>2 DEF ProxyInv, TypeOK
<1> QED BY <1>3, <1>4

LEMMA ReplyInv ==
  ASSUME ProxyInv, NEW ok, NEW fd, NEW t, ServesRequest(ok, fd, t), Reply(ok, fd, t)
  PROVE  ProxyInv'
<1>1. TypeOK'
  BY ReplyType
<1> USE DEF ServesRequest
<1>2. tipc \in Fds /\ sent.name \in Names
  BY SentParts DEF ProxyInv, ConnectionInv
<1>3. sent' = None /\ RequestInv'
  BY DEF Reply, RequestInv
<1>4. CASE session
  <2>1. /\ table' = t /\ TrustyHears(ok, fd) /\ UNCHANGED <<daemon, tipc, session>>
    BY <1>4 DEF Reply
  <2>2. HandleRefersToItsFile'
    <3> SUFFICES ASSUME NEW m \in Names, held'[m] # None PROVE t[held'[m]] = m
      BY <2>1 DEF HandleRefersToItsFile
    <3>1. CASE ok /\ sent.op = "open"
      <4>1. held' = [held EXCEPT ![sent.name] = fd]
        BY <2>1, <3>1 DEF TrustyHears
      <4>2. held \in [Names -> Fds \cup {None}]
        BY DEF ProxyInv, TypeOK
      <4> QED BY <1>2, <1>4, <3>1, <4>1, <4>2
    <3>2. CASE ok /\ sent.op = "close"
      BY <1>2, <1>4, <2>1, <3>2 DEF TrustyHears, ProxyInv, TypeOK
    <3>3. CASE ~(ok /\ sent.op = "open") /\ ~(ok /\ sent.op = "close")
      BY <1>4, <2>1, <3>3 DEF TrustyHears
    <3> QED BY <3>1, <3>2, <3>3
  <2>3. AnsweredIsStored'
    <3> SUFFICES ASSUME NEW m \in Names, certain'[m] PROVE files'[m] = believed'[m]
      BY DEF AnsweredIsStored
    <3>1. CASE m # sent.name
      <4>1. believed'[m] = believed[m]
        BY <1>2, <2>1, <3>1 DEF TrustyHears, ProxyInv, TypeOK
      <4>2. certain[m]
        BY <1>2, <2>1, <3>1 DEF TrustyHears, ProxyInv, TypeOK
      <4> QED BY <3>1, <4>1, <4>2 DEF ProxyInv, AnsweredIsStored
    <3>2. CASE m = sent.name /\ sent.op \in {"write", "truncate"}
      <4>1. ok
        BY <1>2, <2>1, <3>2 DEF TrustyHears, ProxyInv, TypeOK
      <4>2. \A c, d : Effect(sent, c) = Effect(sent, d)
        BY <3>2 DEF Effect
      <4>3. believed'[m] = Effect(sent, believed[m])
        BY <1>2, <2>1, <3>2, <4>1 DEF TrustyHears, ProxyInv, TypeOK
      <4> QED BY <3>2, <4>1, <4>2, <4>3
    <3>3. CASE m = sent.name /\ sent.op \notin {"write", "truncate"}
      <4>1. certain[m] /\ files[m] = believed[m]
        BY <2>1, <3>3 DEF TrustyHears, ProxyInv, AnsweredIsStored
      <4>2. believed'[m] = IF ok THEN Effect(sent, believed[m]) ELSE believed[m]
        BY <1>2, <2>1, <3>3 DEF TrustyHears, ProxyInv, TypeOK
      <4> QED BY <3>3, <4>1, <4>2
    <3> QED BY <3>1, <3>2, <3>3
  <2> QED
    BY <1>1, <1>2, <1>3, <1>4, <2>1, <2>2, <2>3
    DEF ProxyInv, ConnectionInv, SessionInv, RoomToReconnect
<1>5. CASE ~session
  <2>1. /\ table' = [t EXCEPT ![tipc] = Free] /\ tipc' = None
        /\ daemon' = "connecting" /\ UNCHANGED <<session, held, believed, certain>>
    BY <1>5 DEF Reply
  <2>2. RoomToReconnect'
    BY <1>2, <2>1 DEF RoomToReconnect, FreeFds
  <2>3. HandleRefersToItsFile'
    BY <1>5, <2>1 DEF HandleRefersToItsFile, ProxyInv, SessionInv, NoHandles
  <2>4. AnsweredIsStored'
    BY <1>5, <2>1 DEF AnsweredIsStored, ProxyInv, RequestInv
  <2> QED
    BY <1>1, <1>3, <1>5, <2>1, <2>2, <2>3, <2>4
    DEF ProxyInv, ConnectionInv, SessionInv
<1> QED BY <1>4, <1>5

(* In the store of named files, the request is carried out.                *)
LEMMA ReplyStore ==
  ASSUME ProxyInv, NEW ok, NEW fd, NEW t, ServesRequest(ok, fd, t), Reply(ok, fd, t)
  PROVE  ok \in BOOLEAN /\ Store!CarryOut(ok)
<1> USE DEF ServesRequest
<1> DEFINE opened == {n \in Names : held[n] # None}
           n == sent.name
<1>1. n \in Names /\ held \in [Names -> Fds \cup {None}] /\ None \notin Fds
  BY SentParts, SymbolsAssumption DEF ProxyInv, TypeOK
<1>2. files' = [files EXCEPT ![n] = files'[n]]
  BY <1>1 DEF ProxyInv, TypeOK
<1>3. \E c \in Store!Results(sent, ok, files[n]) : files' = [files EXCEPT ![n] = c]
  BY <1>2
<1>4. UNCHANGED session /\ sent' = None
  BY DEF Reply
<1>5. opened' = CASE session /\ ok /\ sent.op = "open"  -> opened \cup {n}
                  [] session /\ ok /\ sent.op = "close" -> opened \ {n}
                  [] OTHER                              -> opened
  <2>1. CASE ~session
    <3>1. held' = held
      BY <2>1 DEF Reply
    <3> QED BY <2>1, <3>1
  <2>2. CASE session /\ ok /\ sent.op = "open"
    <3>1. held' = [held EXCEPT ![n] = fd] /\ fd \in Fds
      BY <2>2 DEF Reply, TrustyHears
    <3>2. opened' = opened \cup {n}
      BY <1>1, <3>1
    <3> QED BY <2>2, <3>2
  <2>3. CASE session /\ ok /\ sent.op = "close"
    <3>1. held' = [held EXCEPT ![n] = None]
      BY <2>3 DEF Reply, TrustyHears
    <3>2. opened' = opened \ {n}
      BY <1>1, <3>1
    <3> QED BY <2>3, <3>2
  <2>4. CASE session /\ ~(ok /\ sent.op = "open") /\ ~(ok /\ sent.op = "close")
    <3>1. held' = held
      BY <2>4 DEF Reply, TrustyHears
    <3> QED BY <2>4, <3>1
  <2> QED BY <2>1, <2>2, <2>3, <2>4
<1> QED BY <1>3, <1>4, <1>5 DEF Store!CarryOut

Served == ProxyInv' /\ \E ok \in BOOLEAN : Store!CarryOut(ok)

LEMMA ReplyServed ==
  ASSUME ProxyInv, NEW ok, NEW fd, NEW t, ServesRequest(ok, fd, t), Reply(ok, fd, t)
  PROVE  Served
BY ReplyInv, ReplyStore DEF Served

LEMMA ServingParts ==
  ASSUME ProxyInv, NEW op, Serving(op)
  PROVE  /\ daemon = "serving" /\ sent # None /\ sent.op = op
         /\ sent.name \in Names
         /\ tipc \in Fds /\ table[tipc] = Tipc
         /\ table \in [Fds -> Names \cup {Free, Rpmb, Tipc, Gone}]
         /\ files \in [Names -> Contents \cup {Absent}]
         /\ UsesHandle(sent) => sent.fd \in Fds /\ table[sent.fd] = sent.name
         /\ \A m \in Names : held[m] # None => held[m] \in Fds /\ table[held[m]] = m
BY SentParts
DEF Serving, ProxyInv, ConnectionInv, RequestInv, HandleRefersToItsFile, TypeOK

LEMMA RefuseServed ==
  ASSUME ProxyInv, NEW op, Serving(op), Refuse PROVE Served
<1>1. Reply(FALSE, None, table) /\ files' = files
  BY DEF Refuse
<1>2. /\ files' \in [Names -> Contents \cup {Absent}]
      /\ \A m \in Names : m # sent.name => files'[m] = files[m]
      /\ files'[sent.name] = files[sent.name]
      /\ session => \A m \in Names : held[m] # None => table[held[m]] = m
  BY <1>1, ServingParts
<1>3. daemon = "serving" /\ sent # None /\ table[tipc] = Tipc
      /\ table \in [Fds -> Names \cup {Free, Rpmb, Tipc, Gone}]
  BY ServingParts
<1>4. ServesRequest(FALSE, None, table)
  BY <1>2, <1>3, ResultsAre DEF ServesRequest
<1> QED BY <1>1, <1>4, ReplyServed

LEMMA ServeAskServed == ASSUME ProxyInv, ServeAsk PROVE Served
<1>1. PICK ok \in BOOLEAN : Reply(ok, None, table) /\ UNCHANGED files
  BY DEF ServeAsk
<1>2. Serving("ask")
  BY DEF ServeAsk
<1>3. \A c : Effect(sent, c) = c
  BY <1>2, ServingParts DEF Effect
<1>4. files'[sent.name] \in Store!Results(sent, ok, files[sent.name])
  BY <1>1, <1>2, ServingParts, ResultsAre
<1>5. ServesRequest(ok, None, table)
  BY <1>1, <1>2, <1>3, <1>4, ServingParts DEF ServesRequest
<1> QED BY <1>1, <1>5, ReplyServed

LEMMA ServeCloseServed == ASSUME ProxyInv, ServeClose PROVE Served
<1>1. Serving("close") /\ UsesHandle(sent)
  BY DEF ServeClose, Serving, UsesHandle
<1>2. CASE Refuse
  BY <1>1, <1>2, RefuseServed
<1>3. CASE Reply(TRUE, None, [table EXCEPT ![sent.fd] = Free]) /\ UNCHANGED files
  <2> DEFINE t == [table EXCEPT ![sent.fd] = Free]
  <2>1. t \in [Fds -> Names \cup {Free, Rpmb, Tipc, Gone}]
    BY <1>1, ServingParts
  <2>2. sent.fd # tipc
    BY <1>1, ServingParts, SymbolsAssumption
  <2>3. t[tipc] = Tipc
    BY <1>1, <2>2, ServingParts
  <2>4. \A m \in Names : held[m] # None => t[held[m]] = m \/ m = sent.name
    BY <1>1, ServingParts
  <2>5. \A c : Effect(sent, c) = c
    BY <1>1, ServingParts DEF Effect
  <2> HIDE DEF t
  <2>6. Reply(TRUE, None, t)
    BY <1>3 DEF t
  <2>7. ServesRequest(TRUE, None, t)
    BY <1>1, <1>3, <2>1, <2>3, <2>4, <2>5, ServingParts, ResultsAre
    DEF ServesRequest
  <2> QED BY <2>6, <2>7, ReplyServed
<1> QED BY <1>2, <1>3 DEF ServeClose

LEMMA ServeDeleteServed == ASSUME ProxyInv, ServeDelete PROVE Served
<1>1. Serving("delete") /\ ~UsesHandle(sent)
  BY DEF ServeDelete, Serving, UsesHandle
<1>2. CASE Refuse
  BY <1>1, <1>2, RefuseServed
<1> DEFINE t == [f \in Fds |-> IF table[f] = sent.name THEN Gone ELSE table[f]]
<1>3. CASE /\ files[sent.name] # Absent
           /\ files' = [files EXCEPT ![sent.name] = Absent] /\ Reply(TRUE, None, t)
  <2>1. t \in [Fds -> Names \cup {Free, Rpmb, Tipc, Gone}]
    BY <1>1, ServingParts
  <2>2. t[tipc] = Tipc
    BY <1>1, ServingParts, SymbolsAssumption
  <2>3. session => held[sent.name] = None
    BY <1>1, ServingParts DEF ProxyInv, RequestInv
  <2>4. session => \A m \in Names : held[m] # None => t[held[m]] = m
    BY <1>1, <2>3, ServingParts
  <2>5. \A c : Effect(sent, c) = Absent
    BY <1>1, ServingParts DEF Effect
  <2> HIDE DEF t
  <2>6. Reply(TRUE, None, t) /\ files' = [files EXCEPT ![sent.name] = Absent]
    BY <1>3
  <2>7. files' \in [Names -> Contents \cup {Absent}]
    BY <1>1, <2>6, ServingParts
  <2>8. sent.op = "delete"
    BY <1>1, ServingParts
  <2>9. /\ files'[sent.name] = Absent
        /\ Absent \in Store!Results(sent, TRUE, files[sent.name])
        /\ \A m \in Names : m # sent.name => files'[m] = files[m]
    BY <1>1, <1>3, <2>6, <2>8, ServingParts, ResultsAre
  <2>10. ServesRequest(TRUE, None, t)
    BY <1>1, <2>1, <2>2, <2>4, <2>5, <2>7, <2>8, <2>9, ServingParts DEF ServesRequest
  <2> QED BY <2>6, <2>10, ReplyServed
<1> QED BY <1>2, <1>3 DEF ServeDelete

LEMMA ServeOpenServed == ASSUME ProxyInv, ServeOpen PROVE Served
<1>1. Serving("open") /\ ~UsesHandle(sent)
  BY DEF ServeOpen, Serving, UsesHandle
<1>2. CASE Refuse
  BY <1>1, <1>2, RefuseServed
<1> DEFINE t == [table EXCEPT ![LowestFree] = sent.name]
<1>3. CASE /\ FreeFds # {}
           /\ files[sent.name] = Absent => sent.create
           /\ files[sent.name] # Absent => ~(sent.create /\ sent.excl)
           /\ files' = [files EXCEPT ![sent.name] = Effect(sent, @)]
           /\ Reply(TRUE, LowestFree, t)
  <2>1. LowestFree \in Fds /\ table[LowestFree] = Free
    BY <1>3, LowestIsFree
  <2>2. t \in [Fds -> Names \cup {Free, Rpmb, Tipc, Gone}] /\ t[LowestFree] = sent.name
    BY <1>1, <2>1, ServingParts
  <2>3. LowestFree # tipc
    BY <1>1, <2>1, ServingParts, SymbolsAssumption
  <2>4. t[tipc] = Tipc
    BY <1>1, <2>3, ServingParts
  <2>5. \A m \in Names : held[m] # None => t[held[m]] = m
    BY <1>1, <2>1, ServingParts, SymbolsAssumption
  <2>6. Effect(sent, files[sent.name]) \in Contents \cup {Absent}
    BY <1>1, ServingParts, EffectType DEF ProxyInv
  <2> HIDE DEF t
  <2>7. /\ files' = [files EXCEPT ![sent.name] = Effect(sent, @)]
        /\ Reply(TRUE, LowestFree, t)
    BY <1>3
  <2>8. /\ files' \in [Names -> Contents \cup {Absent}]
        /\ files'[sent.name] = Effect(sent, files[sent.name])
        /\ \A m \in Names : m # sent.name => files'[m] = files[m]
    BY <1>1, <2>6, <2>7, ServingParts
  <2>9. Store!Opens(sent, files[sent.name]) /\ sent.op = "open"
    BY <1>1, <1>3, ServingParts DEF Store!Opens
  <2>10. ServesRequest(TRUE, LowestFree, t)
    BY <1>1, <2>1, <2>2, <2>4, <2>5, <2>8, <2>9, ServingParts, ResultsAre
    DEF ServesRequest
  <2> QED BY <2>7, <2>10, ReplyServed
<1> QED BY <1>2, <1>3 DEF ServeOpen

LEMMA ServeChangeServed == ASSUME ProxyInv, ServeChange PROVE Served
<1>1. PICK op \in {"write", "truncate"} : Serving(op)
  BY DEF ServeChange
<1>2. /\ sent.op = op /\ UsesHandle(sent)
      /\ sent.fd \in Fds /\ table[sent.fd] = sent.name
      /\ sent.name \in Names
  BY <1>1, ServingParts DEF UsesHandle
<1>3. Effect(sent, files[sent.name]) \in Contents \cup {Absent}
  BY <1>1, <1>2, ServingParts, EffectType DEF ProxyInv
<1>4. CASE /\ files' = [files EXCEPT ![sent.name] = Effect(sent, @)]
           /\ Reply(TRUE, None, table)
  <2>1. /\ files' \in [Names -> Contents \cup {Absent}]
        /\ files'[sent.name] = Effect(sent, files[sent.name])
        /\ \A m \in Names : m # sent.name => files'[m] = files[m]
    BY <1>1, <1>3, <1>4, ServingParts
  <2>2. Effect(sent, files[sent.name]) \in Store!Results(sent, TRUE, files[sent.name])
    BY <1>1, <1>2, ResultsAre DEF Effect
  <2>3. ServesRequest(TRUE, None, table)
    BY <1>1, <1>2, <2>1, <2>2, ServingParts DEF ServesRequest
  <2> QED BY <1>4, <2>3, ReplyServed
<1>5. ASSUME NEW part \in {Torn, sent.val}, sent.op = "write",
             files' = [files EXCEPT ![sent.name] = part],
             Reply(FALSE, None, table)
      PROVE  Served
  <2>1. part \in Contents
    BY <1>1, <1>5, ServingParts, SentParts DEF ProxyInv, Contents
  <2>2. /\ files' \in [Names -> Contents \cup {Absent}]
        /\ \A m \in Names : m # sent.name => files'[m] = files[m]
    BY <1>1, <1>5, <2>1, ServingParts
  <2>3. ServesRequest(FALSE, None, table)
    BY <1>1, <1>2, <1>5, <2>2, ServingParts, ResultsAre
    DEF ServesRequest
  <2> QED BY <1>5, <2>3, ReplyServed
<1>6. CASE Refuse
  BY <1>1, <1>6, RefuseServed
<1>7. sent.name # Gone
  BY <1>2, SymbolsAssumption
<1> QED BY <1>2, <1>4, <1>5, <1>6, <1>7 DEF ServeChange

LEMMA ServeServed == ASSUME ProxyInv, Serve PROVE Served
BY ServeOpenServed, ServeChangeServed, ServeCloseServed, ServeDeleteServed,
   ServeAskServed
DEF Serve
-----------------------------------------------------------------------------
LEMMA InitInv == Init => ProxyInv
<1> SUFFICES ASSUME Init PROVE ProxyInv
  OBVIOUS
<1>1. TypeOK
  <2>1. 0 \in 0 .. MaxFailures
    BY FailuresAssumption
  <2> QED BY <2>1 DEF Init, TypeOK, NoHandles
<1> QED
  BY <1>1
  DEF Init, ProxyInv, ConnectionInv, RequestInv, SessionInv, RoomToReconnect,
      HandleRefersToItsFile, AnsweredIsStored, NoHandles

LEMMA StepInv == ProxyInv /\ [Next]_vars => ProxyInv'
<1> SUFFICES ASSUME ProxyInv, [Next]_vars PROVE ProxyInv'
  OBVIOUS
<1>1. CASE StartDaemon
  BY <1>1, StartInv
<1>2. CASE ConnectFails
  BY <1>2, ConnectFailsInv
<1>3. CASE Connect
  BY <1>3, ConnectInv
<1>4. CASE ReceiveFails
  BY <1>4, ReceiveFailsInv
<1>5. CASE DaemonDies
  BY <1>5, DaemonDiesInv
<1>6. CASE Serve
  BY <1>6, ServeServed DEF Served
<1>7. ASSUME NEW r \in Requests, Send(r) PROVE ProxyInv'
  BY <1>7, SendInv
<1>8. CASE TrustyCloses
  BY <1>8, TrustyClosesInv
<1>9. CASE PortChanges
  BY <1>9, PortInv
<1>10. CASE UNCHANGED vars
  BY <1>10
  DEF vars, ProxyInv, TypeOK, ConnectionInv, RequestInv, SessionInv, UsesHandle,
      RoomToReconnect, FreeFds, HandleRefersToItsFile, AnsweredIsStored
<1> QED
  BY <1>1, <1>2, <1>3, <1>4, <1>5, <1>6, <1>7, <1>8, <1>9, <1>10 DEF Next

(* The invariant all theorems about the daemon rest on.                   *)
THEOREM ProxyInvariant == Spec => []ProxyInv
<1> QED BY InitInv, StepInv, PTL DEF Spec

(* Every part of the state has its type.                                   *)
THEOREM ProxyTypeCorrect == Spec => []TypeOK
<1>1. ProxyInv => TypeOK
  BY DEF ProxyInv
<1> QED BY <1>1, ProxyInvariant, PTL

(* A handle of the current connection is open on its file.                 *)
THEOREM HandlesAreRight == Spec => []HandleRefersToItsFile
<1>1. ProxyInv => HandleRefersToItsFile
  BY DEF ProxyInv
<1> QED BY <1>1, ProxyInvariant, PTL

(* A file holds what the answers told Trusty.                              *)
THEOREM AnswersAreKept == Spec => []AnsweredIsStored
<1>1. ProxyInv => AnsweredIsStored
  BY DEF ProxyInv
<1> QED BY <1>1, ProxyInvariant, PTL

(* Leaked descriptors never prevent the next connection.                   *)
THEOREM AlwaysRoomToReconnect == Spec => []RoomToReconnect
<1>1. ProxyInv => RoomToReconnect
  BY DEF ProxyInv
<1> QED BY <1>1, ProxyInvariant, PTL

(***************************************************************************)
(* The mark is made by the first connection of a process, before which the *)
(* process has opened nothing but the RPMB device.                         *)
(***************************************************************************)
MarkInv ==
  /\ ~first => ready
  /\ daemon = "serving" => ~first
  /\ daemon = "connecting" /\ first => \A f \in Fds : f # 1 => table[f] = Free

LEMMA FirstConnectMarks ==
  ASSUME ProxyInv, MarkInv, first, Connect PROVE ready'
<1>1. 2 \in FreeFds /\ 3 \in FreeFds
  <2>1. 2 \in Fds /\ 3 \in Fds /\ 2 # 1 /\ 3 # 1
    BY FdsAssumption DEF Fds
  <2>2. \A f \in Fds : f # 1 => table[f] = Free
    BY DEF MarkInv, Connect
  <2> QED BY <2>1, <2>2 DEF FreeFds
<1>2. IsFiniteSet(FreeFds)
  <2>1. IsFiniteSet(Fds)
    <3>1. 1 \in Int /\ NFds \in Int
      BY FdsAssumption
    <3> QED BY <3>1, FS_Interval DEF Fds
  <2>2. FreeFds \in SUBSET Fds
    BY DEF FreeFds
  <2> QED BY <2>1, <2>2, FS_Subset
<1>3. Cardinality({2, 3}) = 2
  <2>1. IsFiniteSet({2}) /\ Cardinality({2}) = 1
    BY FS_Singleton
  <2>2. 3 \notin {2}
    OBVIOUS
  <2>3. Cardinality({2} \cup {3}) = Cardinality({2}) + 1
    BY <2>1, <2>2, FS_AddElement
  <2>4. {2} \cup {3} = {2, 3}
    OBVIOUS
  <2> QED BY <2>1, <2>3, <2>4
<1>4. Cardinality({2, 3}) <= Cardinality(FreeFds)
  <2>1. {2, 3} \in SUBSET FreeFds
    BY <1>1
  <2> QED BY <1>2, <2>1, FS_Subset
<1>5. Cardinality(FreeFds) \in Nat
  BY <1>2, FS_CardinalityType
<1>6. Cardinality(FreeFds) > 1
  BY <1>3, <1>4, <1>5
<1> QED BY <1>6 DEF Connect

LEMMA StepMark == ASSUME ProxyInv, MarkInv, [Next]_vars PROVE MarkInv'
<1>1. CASE StartDaemon
  BY <1>1 DEF StartDaemon, MarkInv
<1>2. CASE Connect
  BY <1>2, FirstConnectMarks DEF Connect, MarkInv
<1>3. CASE ReceiveFails
  BY <1>3 DEF ReceiveFails, Disconnect, MarkInv
<1>4. CASE DaemonDies
  BY <1>4 DEF DaemonDies, MarkInv
<1>5. CASE Serve
  <2>1. daemon = "serving" /\ daemon' \in {"serving", "connecting"}
    BY <1>5 DEF Serve, ServeOpen, ServeChange, ServeClose, ServeDelete, ServeAsk,
                Serving, Refuse, Reply
  <2>2. UNCHANGED <<first, ready>>
    BY <1>5 DEF Serve, ServeOpen, ServeChange, ServeClose, ServeDelete, ServeAsk,
                Refuse, Reply
  <2> QED BY <2>1, <2>2 DEF MarkInv
<1>6. CASE ConnectFails \/ TrustyCloses \/ PortChanges \/ UNCHANGED vars
  BY <1>6 DEF ConnectFails, TrustyCloses, PortChanges, vars, MarkInv
<1>7. ASSUME NEW r \in Requests, Send(r) PROVE MarkInv'
  BY <1>7 DEF Send, MarkInv
<1> QED BY <1>1, <1>2, <1>3, <1>4, <1>5, <1>6, <1>7 DEF Next

(***************************************************************************)
(* For any files and any number of descriptors, through restarts and lost  *)
(* connections: a daemon that serves has marked itself as ready.           *)
(***************************************************************************)
THEOREM ServingIsAlwaysMarked == Spec => []ServingIsMarked
<1>1. Init => MarkInv
  BY DEF Init, MarkInv
<1>2. MarkInv => ServingIsMarked
  BY DEF MarkInv, ServingIsMarked
<1> QED BY <1>1, <1>2, StepMark, ProxyInvariant, PTL DEF Spec
-----------------------------------------------------------------------------
(***************************************************************************)
(* The store of named files.  A connection that ends takes the handles     *)
(* with it; a new one begins only when no request is in hand.              *)
(***************************************************************************)
LEMMA SessionEndsStore ==
  ASSUME SessionEnds, UNCHANGED files, sent' \in {sent, None}
  PROVE  Store!End
<1>1. held' = NoHandles /\ session' = FALSE
  BY DEF SessionEnds
<1>2. {n \in Names : held'[n] # None} = {}
  BY <1>1 DEF NoHandles
<1> QED BY <1>1, <1>2 DEF Store!End

LEMMA SendStore ==
  ASSUME ProxyInv, NEW r \in Requests, Send(r) PROVE Store!Ask(r)
<1>1. /\ session /\ sent = None /\ sent' = r
      /\ IF r.op \in {"open", "delete"} THEN held[r.name] = None ELSE held[r.name] = r.fd
      /\ UNCHANGED <<files, session, held>>
  BY DEF Send
<1>2. r.name \in Names /\ (r.op \notin {"open", "delete"} => r.fd # None)
  BY RequestParts, SymbolsAssumption DEF UsesHandle
<1> QED BY <1>1, <1>2 DEF Store!Ask

LEMMA ConnectStore == ASSUME ProxyInv, Connect PROVE Store!Begin
BY DEF Connect, ProxyInv, ConnectionInv, Store!Begin

LEMMA StepStore ==
  ASSUME ProxyInv, [Next]_vars PROVE [Store!StoreNext]_(Store!storevars)
<1>1. CASE StartDaemon \/ ConnectFails \/ PortChanges \/ UNCHANGED vars
  BY <1>1
  DEF StartDaemon, ConnectFails, PortChanges, vars, trusty, Store!storevars
<1>2. CASE Connect
  BY <1>2, ConnectStore DEF Store!StoreNext
<1>3. CASE ReceiveFails \/ DaemonDies \/ TrustyCloses
  BY <1>3, SessionEndsStore
  DEF ReceiveFails, DaemonDies, TrustyCloses, Store!StoreNext
<1>4. CASE Serve
  BY <1>4, ServeServed DEF Served, Store!StoreNext
<1>5. ASSUME NEW r \in Requests, Send(r) PROVE [Store!StoreNext]_(Store!storevars)
  BY <1>5, SendStore DEF Store!StoreNext
<1> QED BY <1>1, <1>2, <1>3, <1>4, <1>5 DEF Next

(***************************************************************************)
(* For any files, contents and number of descriptors: the daemon implements*)
(* the store of named files.  Each request changes the file it names and   *)
(* no other, once or not at all, whatever ends the connection or the       *)
(* daemon meanwhile, and however descriptors are leaked and used again.    *)
(***************************************************************************)
THEOREM ProxyIsAFileStore == Spec => ImplementsFileStore
<1>1. Init => Store!StoreInit
  <2> SUFFICES ASSUME Init PROVE Store!StoreInit
    OBVIOUS
  <2>1. {n \in Names : held[n] # None} = {}
    BY DEF Init, NoHandles
  <2> QED BY <2>1 DEF Init, Store!StoreInit
<1>2. ProxyInv /\ [Next]_vars => [Store!StoreNext]_(Store!storevars)
  BY StepStore
<1> QED
  BY <1>1, <1>2, ProxyInvariant, PTL DEF Spec, ImplementsFileStore, Store!StoreSpec
-----------------------------------------------------------------------------
(***************************************************************************)
(* RPMB requests (module RpmbSend).  No frame and no counter outlives what *)
(* a request may conclude from it.                                         *)
(***************************************************************************)
(* One request raises the counter by one at most.                          *)
Counting ==
  /\ counter <= nonce
  /\ pc = "reliable" => counter < nonce

(* The transfers of a request, and the repetitions they have left.         *)
Transfers ==
  /\ pc # "idle" => req.op # "none" /\ verdict = "none"
  /\ pc = "reliable" => req.op = "program"
  /\ pc = "reliable" =>
       /\ attended.write = 0 /\ attended.reliable + retry = WriteRetry
  /\ pc = "write" /\ req.op = "program" => attended.write = 0 /\ retry = 0
  /\ pc = "write" /\ req.op = "fetch" => attended.write + retry = ReadRetry

(***************************************************************************)
(* No frame, however old, is of a counter the device has not reached; so a *)
(* result with the counter after the one Trusty sent is of its own frame.  *)
(***************************************************************************)
Counters ==
  /\ \A f \in {result, register, buf} : f.kind = "result" => f.stamp <= counter
  /\ pc = "idle" /\ expects # Unknown => expects = counter
  /\ pc # "idle" /\ req.op = "program" =>
       req.stamp <= counter /\ counter <= req.stamp + 1
  /\ pc = "reliable" => req.stamp = counter

GoodResult == [kind |-> "result", stamp |-> req.stamp + 1, ok |-> TRUE]
GoodData == [kind |-> "data", stamp |-> req.stamp, ok |-> TRUE]

(* What a request that nothing but bearable resets disturbed has reached.  *)
Undisturbedly ==
  ~faults /\ req.op = "program" /\ attended.reliable <= WriteRetry =>
    /\ pc = "write" => result = GoodResult
    /\ pc = "read" /\ attended.write = 0 => register = GoodResult

UndisturbedFetch ==
  /\ ~faults /\ req.op = "fetch" /\ attended.write <= ReadRetry
  /\ pc = "read"
  => register = GoodData

RpmbInv ==
  /\ RpmbTypeOK /\ Counting /\ Transfers /\ Counters
  /\ Undisturbedly /\ UndisturbedFetch /\ AttentionIsSurvived

-----------------------------------------------------------------------------
LEMMA InitRpmb == RpmbInit => RpmbInv
<1> SUFFICES ASSUME RpmbInit PROVE RpmbInv
  OBVIOUS
<1> USE RetryAssumption, RequestsAssumption
<1>1. NoFrame \in Frames /\ NoFrame.kind # "result"
  BY DEF NoFrame, Frames
<1>2. NoRequest \in [op : {"none", "program", "fetch"}, stamp : 0 .. MaxRequests]
  BY DEF NoRequest
<1>3. Undisturbed \in [reliable : 0 .. WriteRetry + 1, write : 0 .. ReadRetry + 1]
  BY DEF Undisturbed
<1>4. RpmbTypeOK
  <2>1. counter \in 0 .. MaxRequests /\ retry \in 0 .. WriteRetry + ReadRetry
        /\ nonce \in 0 .. MaxRequests /\ expects \in 0 .. Unknown
    BY DEF RpmbInit, Unknown
  <2>2. QED BY <1>1, <1>2, <1>3, <2>1 DEF RpmbInit, RpmbTypeOK
<1>5. Counting /\ Transfers
  BY DEF RpmbInit, Counting, Transfers
<1>6. Counters
  BY <1>1 DEF RpmbInit, Counters
<1>7. Undisturbedly /\ UndisturbedFetch /\ AttentionIsSurvived
  BY DEF RpmbInit, Undisturbedly, UndisturbedFetch, AttentionIsSurvived
<1>8. QED BY <1>4, <1>5, <1>6, <1>7 DEF RpmbInv

(* The parts of the state and their ranges.                                *)
LEMMA Ranges ==
  ASSUME RpmbTypeOK
  PROVE  /\ counter \in Nat /\ retry \in Nat /\ nonce \in Nat /\ expects \in Nat
         /\ req.stamp \in Nat /\ req.op \in {"none", "program", "fetch"}
         /\ attended.reliable \in Nat /\ attended.write \in Nat
         /\ attended = [reliable |-> attended.reliable, write |-> attended.write]
         /\ result.stamp \in Nat /\ register.stamp \in Nat /\ buf.stamp \in Nat
         /\ WriteRetry \in Nat /\ ReadRetry \in Nat /\ MaxRequests \in Nat
BY RetryAssumption, RequestsAssumption DEF RpmbTypeOK, Frames, Unknown

(* A request that begins.                                                  *)
LEMMA BeginStep ==
  ASSUME RpmbInv,
         NEW r \in [op : {"program", "fetch"}, stamp : 0 .. MaxRequests],
         NEW step, NEW n, Begin(r, step, n),
         \/ r.op = "program" /\ step = "reliable" /\ n = WriteRetry
            /\ r.stamp = counter
         \/ r.op = "fetch" /\ step = "write" /\ n = ReadRetry
  PROVE  RpmbInv'
<1> USE Ranges DEF RpmbInv
<1>1. /\ pc = "idle" /\ req' = r /\ pc' = step /\ retry' = n
      /\ nonce' = nonce + 1 /\ nonce < MaxRequests /\ verdict' = "none"
      /\ faults' = FALSE /\ attended' = [reliable |-> 0, write |-> 0]
      /\ UNCHANGED <<counter, result, register, buf, expects>>
  BY DEF Begin, Undisturbed
<1>2. r.stamp \in Nat /\ r \in [op : {"none", "program", "fetch"}, stamp : 0 .. MaxRequests]
  OBVIOUS
<1>3. RpmbTypeOK'
  <2>1. attended' \in [reliable : 0 .. WriteRetry + 1, write : 0 .. ReadRetry + 1]
    BY <1>1
  <2>2. nonce' \in 0 .. MaxRequests /\ retry' \in 0 .. WriteRetry + ReadRetry
    BY <1>1 DEF RpmbTypeOK
  <2>3. QED BY <1>1, <1>2, <2>1, <2>2 DEF RpmbTypeOK
<1>4. Counting'
  BY <1>1 DEF Counting
<1>5. Transfers'
  BY <1>1 DEF Transfers
<1>6. Counters'
  BY <1>1, <1>2 DEF Counters
<1>7. Undisturbedly' /\ UndisturbedFetch' /\ AttentionIsSurvived'
  BY <1>1 DEF Undisturbedly, UndisturbedFetch, AttentionIsSurvived
<1>8. QED BY <1>3, <1>4, <1>5, <1>6, <1>7

(* What the device does, or does not.                                      *)
LEMMA DeviceStep ==
  ASSUME RpmbInv, Writing \/ pc = "read", Execute \/ ExecuteNot
  PROVE  /\ counter' \in 0 .. MaxRequests /\ counter <= counter'
         /\ counter' <= nonce
         /\ result' \in Frames /\ register' \in Frames
         /\ result'.kind = "result" => result'.stamp <= counter'
         /\ register'.kind = "result" => register'.stamp <= counter'
         /\ req.op = "program" =>
              req.stamp <= counter' /\ counter' <= req.stamp + 1
         /\ Execute /\ pc = "reliable" => result' = GoodResult
         /\ Execute /\ pc = "write" =>
              register' = IF req.op = "fetch" THEN GoodData ELSE result
         /\ Execute /\ pc = "write" => result' = result
<1> USE Ranges DEF RpmbInv
<1>1. CASE ExecuteNot
  <2>1. UNCHANGED <<counter, result, register>> /\ pc # "idle"
    BY <1>1 DEF ExecuteNot, Writing
  <2>2. counter \in 0 .. MaxRequests /\ result \in Frames /\ register \in Frames
    BY DEF RpmbTypeOK
  <2>3. ~Execute \/ pc # "reliable"
    BY <2>1 DEF Execute, Counters
  <2>4. Execute /\ pc = "write" =>
          register' = IF req.op = "fetch" THEN GoodData ELSE result
    BY DEF Execute, GoodData
  <2>5. QED BY <2>1, <2>2, <2>3, <2>4 DEF Counting, Counters
<1>2. CASE Execute /\ pc = "reliable"
  <2>1. /\ counter' = counter + 1 /\ UNCHANGED register
        /\ result' = [kind |-> "result", stamp |-> counter + 1, ok |-> TRUE]
    BY <1>2 DEF Execute, Counters
  <2>2. req.stamp = counter /\ req.op = "program" /\ counter < nonce
    BY <1>2 DEF Counters, Transfers, Counting
  <2>3. counter + 1 \in 0 .. MaxRequests
    BY <2>2 DEF RpmbTypeOK
  <2>4. result' \in Frames /\ register' \in Frames
    BY <2>1, <2>3 DEF Frames, RpmbTypeOK
  <2>5. QED BY <1>2, <2>1, <2>2, <2>3, <2>4 DEF Counters, GoodResult
<1>3. CASE Execute /\ pc = "write"
  <2>1. /\ register' = IF req.op = "fetch" THEN GoodData ELSE result
        /\ UNCHANGED <<counter, result>>
    BY <1>3 DEF Execute, GoodData
  <2>2. GoodData \in Frames /\ GoodData.kind # "result"
    BY DEF GoodData, Frames, RpmbTypeOK
  <2>3. register' \in Frames /\ result' \in Frames
    BY <2>1, <2>2 DEF RpmbTypeOK
  <2>4. counter \in 0 .. MaxRequests
    BY DEF RpmbTypeOK
  <2>5. QED BY <1>3, <2>1, <2>2, <2>3, <2>4 DEF Counting, Counters
<1>4. QED BY <1>1, <1>2, <1>3 DEF Execute

(* What comes after a write transfer of either kind.                       *)
LEMMA NextTransferType ==
  ASSUME RpmbInv, Writing, NextTransfer
  PROVE  /\ pc' \in {"write", "read"} /\ retry' = 0
         /\ pc' = "write" <=> pc = "reliable"
         /\ retry' \in 0 .. WriteRetry + ReadRetry
BY Ranges DEF Writing, NextTransfer, RpmbInv

LEMMA TransferDoneStep == RpmbInv /\ TransferDone => RpmbInv'
<1> SUFFICES ASSUME RpmbInv, TransferDone PROVE RpmbInv'
  OBVIOUS
<1> USE Ranges DEF RpmbInv
<1>1. /\ Writing /\ Execute /\ NextTransfer
      /\ UNCHANGED <<buf, req, nonce, expects, verdict, faults, attended>>
  BY DEF TransferDone
<1>2. RpmbTypeOK'
  BY <1>1, DeviceStep, NextTransferType DEF RpmbTypeOK
<1>3. Counting' /\ Transfers'
  BY <1>1, DeviceStep, NextTransferType DEF Counting, Transfers, Writing
<1>4. Counters'
  <2>1. buf'.kind = "result" => buf'.stamp <= counter'
    BY <1>1, DeviceStep DEF Counters, RpmbTypeOK
  <2>2. QED BY <1>1, <2>1, DeviceStep, NextTransferType DEF Counters
<1>5. GoodResult' = GoodResult /\ GoodData' = GoodData
  BY <1>1 DEF GoodResult, GoodData
<1>6. Undisturbedly'
  <2>1. CASE pc = "reliable"
    BY <1>1, <1>5, <2>1, DeviceStep, NextTransferType DEF Undisturbedly
  <2>2. CASE pc = "write"
    BY <1>1, <1>5, <2>2, DeviceStep, NextTransferType DEF Undisturbedly
  <2>3. QED BY <1>1, <2>1, <2>2 DEF Writing
<1>7. UndisturbedFetch'
  BY <1>1, <1>5, DeviceStep, NextTransferType
  DEF UndisturbedFetch, Transfers, Writing
<1>8. AttentionIsSurvived'
  BY <1>1 DEF AttentionIsSurvived
<1>9. QED BY <1>2, <1>3, <1>4, <1>6, <1>7, <1>8

LEMMA DeviceFailsStep == RpmbInv /\ DeviceFails => RpmbInv'
<1> SUFFICES ASSUME RpmbInv, DeviceFails PROVE RpmbInv'
  OBVIOUS
<1> USE Ranges DEF RpmbInv
<1>1. /\ Writing
      /\ Execute \/ ExecuteNot
      /\ NextTransfer /\ faults' = TRUE
      /\ UNCHANGED <<buf, req, nonce, expects, verdict, attended>>
  BY DEF DeviceFails
<1>2. RpmbTypeOK'
  BY <1>1, DeviceStep, NextTransferType DEF RpmbTypeOK
<1>3. Counting' /\ Transfers'
  BY <1>1, DeviceStep, NextTransferType DEF Counting, Transfers, Writing
<1>4. Counters'
  <2>1. buf'.kind = "result" => buf'.stamp <= counter'
    BY <1>1, DeviceStep DEF Counters, RpmbTypeOK
  <2>2. QED BY <1>1, <2>1, DeviceStep, NextTransferType DEF Counters
<1>5. Undisturbedly' /\ UndisturbedFetch' /\ AttentionIsSurvived'
  BY <1>1 DEF Undisturbedly, UndisturbedFetch, AttentionIsSurvived
<1>6. QED BY <1>2, <1>3, <1>4, <1>5

(* A reset is counted, and repeats the transfer or gives it up.            *)
LEMMA UnitAttentionStep == RpmbInv /\ UnitAttention => RpmbInv'
<1> SUFFICES ASSUME RpmbInv, UnitAttention PROVE RpmbInv'
  OBVIOUS
<1> USE Ranges DEF RpmbInv
<1>1. /\ Writing
      /\ UNCHANGED <<counter, result, register, buf, req, nonce, expects,
                     verdict, faults>>
      /\ IF retry > 0 THEN retry' = retry - 1 /\ pc' = pc ELSE NextTransfer
  BY DEF UnitAttention, ExecuteNot
<1>2. /\ pc = "reliable" => /\ attended'.reliable = attended.reliable + 1
                            /\ attended'.write = attended.write
      /\ pc = "write" => /\ attended'.write = attended.write + 1
                         /\ attended'.reliable = attended.reliable
      /\ attended' = [reliable |-> attended'.reliable,
                      write |-> attended'.write]
  BY DEF UnitAttention, Writing
<1>3. GoodResult' = GoodResult /\ GoodData' = GoodData
  BY <1>1 DEF GoodResult, GoodData
<1>4. /\ pc = "reliable" => attended.reliable + retry = WriteRetry
      /\ pc = "write" => attended.write <= ReadRetry
      /\ pc # "idle" /\ verdict = "none"
  BY <1>1 DEF Transfers, Writing
<1>5. RpmbTypeOK'
  <2>1. /\ attended'.reliable \in 0 .. WriteRetry + 1
        /\ attended'.write \in 0 .. ReadRetry + 1
    BY <1>1, <1>2, <1>4 DEF RpmbTypeOK, Writing
  <2>2. attended' \in [reliable : 0 .. WriteRetry + 1, write : 0 .. ReadRetry + 1]
    BY <1>2, <2>1
  <2>3. retry' \in 0 .. WriteRetry + ReadRetry
        /\ pc' \in {"idle", "reliable", "write", "read"}
    BY <1>1, NextTransferType DEF RpmbTypeOK
  <2>4. QED BY <1>1, <2>2, <2>3 DEF RpmbTypeOK
<1>6. Counting'
  BY <1>1, NextTransferType DEF Counting
<1>7. Transfers'
  <2>1. CASE pc = "reliable"
    BY <1>1, <1>2, <2>1, NextTransferType DEF Transfers
  <2>2. CASE pc = "write"
    BY <1>1, <1>2, <2>2, NextTransferType DEF Transfers
  <2>3. QED BY <1>1, <2>1, <2>2 DEF Writing
<1>8. Counters'
  BY <1>1, <1>4, NextTransferType DEF Counters
<1>9. Undisturbedly'
  <2>1. CASE pc = "reliable"
    BY <1>1, <1>2, <1>3, <1>4, <2>1, NextTransferType DEF Undisturbedly
  <2>2. CASE pc = "write"
    BY <1>1, <1>2, <1>3, <2>2, NextTransferType DEF Undisturbedly
  <2>3. QED BY <1>1, <2>1, <2>2 DEF Writing
<1>10. UndisturbedFetch'
  BY <1>1, <1>2, <1>3, NextTransferType
  DEF UndisturbedFetch, Transfers, Writing
<1>11. AttentionIsSurvived'
  BY <1>1, <1>4 DEF AttentionIsSurvived
<1>12. QED BY <1>5, <1>6, <1>7, <1>8, <1>9, <1>10, <1>11

-----------------------------------------------------------------------------
(* What Trusty makes of an answer: it knows the counter or nothing.        *)
LEMMA JudgeIs ==
  ASSUME RpmbInv, pc = "read", NEW frame \in Frames, Judge(frame),
         frame.kind = "result" => frame.stamp <= counter
  PROVE  /\ pc' = "idle" /\ retry' = 0 /\ UNCHANGED <<req, nonce, attended>>
         /\ verdict' \in {"ok", "failed"}
         /\ expects' \in {counter, Unknown}
         /\ req.op = "fetch" /\ frame = GoodData => verdict' = "ok"
         /\ req.op = "program" /\ frame = GoodResult => verdict' = "ok"
<1> USE Ranges DEF RpmbInv
<1>1. frame.stamp \in Nat
  BY DEF Frames
<1>2. CASE req.op = "fetch"
  BY <1>2 DEF Judge, Answer, GoodData
<1>3. CASE req.op = "program"
  <2>1. frame.kind = "result" /\ frame.stamp = req.stamp + 1 =>
          frame.stamp = counter
    BY <1>1, <1>3 DEF Counters
  <2>2. CASE frame.kind = "result" /\ frame.ok /\ frame.stamp = req.stamp + 1
    BY <1>3, <2>1, <2>2 DEF Judge, Answer
  <2>3. CASE ~(frame.kind = "result" /\ frame.ok /\ frame.stamp = req.stamp + 1)
    BY <1>3, <2>3 DEF Judge, Answer, GoodResult
  <2>4. QED BY <2>2, <2>3
<1>4. QED BY <1>2, <1>3 DEF Transfers

LEMMA ReadTransferStep == RpmbInv /\ ReadTransfer => RpmbInv'
<1> SUFFICES ASSUME RpmbInv, ReadTransfer PROVE RpmbInv'
  OBVIOUS
<1> USE Ranges DEF RpmbInv
<1>1. /\ pc = "read" /\ Judge(buf')
      /\ \/ buf' = register /\ UNCHANGED faults
         \/ UNCHANGED buf /\ faults' = TRUE
      /\ UNCHANGED <<counter, result, register>>
  BY DEF ReadTransfer, ExecuteNot
<1>2. /\ buf' \in Frames /\ faults' \in BOOLEAN
      /\ buf'.kind = "result" => buf'.stamp <= counter
  BY <1>1 DEF RpmbTypeOK, Counters
<1>3. /\ pc' = "idle" /\ retry' = 0 /\ UNCHANGED <<req, nonce, attended>>
      /\ verdict' \in {"ok", "failed"}
      /\ expects' \in {counter, Unknown}
      /\ req.op = "fetch" /\ buf' = GoodData => verdict' = "ok"
      /\ req.op = "program" /\ buf' = GoodResult => verdict' = "ok"
  BY <1>1, <1>2, JudgeIs
<1>4. RpmbTypeOK'
  <2>1. expects' \in 0 .. Unknown /\ retry' \in 0 .. WriteRetry + ReadRetry
    BY <1>3 DEF RpmbTypeOK, Unknown
  <2>2. QED BY <1>1, <1>2, <1>3, <2>1 DEF RpmbTypeOK
<1>5. Counting' /\ Transfers'
  BY <1>1, <1>3 DEF Counting, Transfers
<1>6. Counters'
  BY <1>1, <1>2, <1>3 DEF Counters, Unknown
<1>7. Undisturbedly' /\ UndisturbedFetch'
  BY <1>3 DEF Undisturbedly, UndisturbedFetch
<1>8. AttentionIsSurvived'
  <2> SUFFICES ASSUME verdict' = "failed", ~faults'
               PROVE  IF req.op = "program"
                      THEN attended.reliable > WriteRetry \/ attended.write > 0
                      ELSE attended.write > ReadRetry
    BY <1>3 DEF AttentionIsSurvived
  <2>1. buf' = register /\ ~faults
    BY <1>1
  <2>2. CASE req.op = "program"
    BY <1>1, <1>3, <2>1, <2>2 DEF Undisturbedly
  <2>3. CASE req.op = "fetch"
    BY <1>1, <1>3, <2>1, <2>3 DEF UndisturbedFetch
  <2>4. QED BY <1>1, <2>2, <2>3 DEF Transfers
<1>9. QED BY <1>4, <1>5, <1>6, <1>7, <1>8

LEMMA IoctlFailsStep == RpmbInv /\ IoctlFails => RpmbInv'
<1> SUFFICES ASSUME RpmbInv, IoctlFails PROVE RpmbInv'
  OBVIOUS
<1> USE Ranges DEF RpmbInv
<1>1. /\ pc # "idle"
      /\ ExecuteNot \/ Execute
      /\ faults' = TRUE /\ pc' = "idle" /\ retry' = 0 /\ verdict' = "failed"
      /\ expects' = Unknown
      /\ UNCHANGED <<buf, req, nonce, attended>>
  BY DEF IoctlFails, Answer
<1>2. Writing \/ pc = "read"
  BY <1>1 DEF RpmbTypeOK, Writing
<1>3. RpmbTypeOK'
  <2>1. expects' \in 0 .. Unknown /\ retry' \in 0 .. WriteRetry + ReadRetry
    BY <1>1 DEF Unknown
  <2>2. QED BY <1>1, <1>2, <2>1, DeviceStep DEF RpmbTypeOK
<1>4. Counting' /\ Transfers'
  BY <1>1, <1>2, DeviceStep DEF Counting, Transfers
<1>5. Counters'
  <2>1. buf'.kind = "result" => buf'.stamp <= counter'
    BY <1>1, <1>2, DeviceStep DEF Counters, RpmbTypeOK
  <2>2. QED BY <1>1, <1>2, <2>1, DeviceStep DEF Counters
<1>6. Undisturbedly' /\ UndisturbedFetch' /\ AttentionIsSurvived'
  BY <1>1 DEF Undisturbedly, UndisturbedFetch, AttentionIsSurvived
<1>7. QED BY <1>3, <1>4, <1>5, <1>6

LEMMA StepRpmb == RpmbInv /\ [RpmbNext]_rpmbvars => RpmbInv'
<1> SUFFICES ASSUME RpmbInv, [RpmbNext]_rpmbvars PROVE RpmbInv'
  OBVIOUS
<1>1. CASE SendProgram
  <2>1. expects = counter /\ expects \in 0 .. MaxRequests
    BY <1>1, Ranges
    DEF SendProgram, Begin, RpmbInv, RpmbTypeOK, Counters, Unknown
  <2>2. QED BY <1>1, <2>1, BeginStep DEF SendProgram
<1>2. CASE SendFetch
  BY <1>2, BeginStep DEF SendFetch, RpmbInv, RpmbTypeOK
<1>3. CASE UNCHANGED rpmbvars
  BY <1>3
  DEF rpmbvars, RpmbInv, RpmbTypeOK, Counting, Transfers, Counters, Undisturbedly,
      UndisturbedFetch, AttentionIsSurvived, GoodResult, GoodData
<1>4. QED
  BY <1>1, <1>2, <1>3, TransferDoneStep, UnitAttentionStep, DeviceFailsStep,
     ReadTransferStep, IoctlFailsStep DEF RpmbNext

LEMMA RpmbInvariant == RpmbSpec => []RpmbInv
<1>1. RpmbInit => RpmbInv
  BY InitRpmb
<1> QED BY <1>1, StepRpmb, PTL DEF RpmbSpec

-----------------------------------------------------------------------------
(* The state has its type: no transfer is repeated more often than its     *)
(* retry count of send_ufs_rpmb allows, and the counter stays in range.    *)
THEOREM RpmbTypeCorrect == RpmbSpec => []RpmbTypeOK
<1>1. RpmbInv => RpmbTypeOK
  BY DEF RpmbInv
<1> QED BY <1>1, RpmbInvariant, PTL

(* Resets of the device that the retry counts of send_ufs_rpmb allow for   *)
(* do not fail a request, for any counts, whatever earlier requests left   *)
(* in the shared read buffer and the device.                               *)
THEOREM ResetsAreSurvived == RpmbSpec => []AttentionIsSurvived
<1>1. RpmbInv => AttentionIsSurvived
  BY DEF RpmbInv
<1> QED BY <1>1, RpmbInvariant, PTL
=============================================================================
