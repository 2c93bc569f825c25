\* Two files, so few descriptors that they run out, and fairness of init and of
\* the daemon.
CONSTANTS
  Names = {key, attest}
  Vals = {v, w}
  Absent = Absent  Empty = Empty  Torn = Torn
  Free = Free  Rpmb = Rpmb  Tipc = Tipc  Gone = Gone  None = None
  NFds = 4
  MaxFailures = 1
SPECIFICATION FairSpec
INVARIANTS HandleRefersToItsFile AnsweredIsStored RoomToReconnect 
PROPERTIES ImplementsFileStore Reconnects RequestsEnd
