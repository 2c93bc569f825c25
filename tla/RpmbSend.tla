------------------------------ MODULE RpmbSend ------------------------------
(***************************************************************************)
(* RPMB requests of recovery_storageproxyd (send_ufs_rpmb and              *)
(* handle_rpmb_send of recovery_storageproxyd.c).                          *)
(*                                                                         *)
(* A program request has three transfers: a reliable write (the signed     *)
(* frame), a write (the frame that asks for the result) and a read (the    *)
(* result).  A fetch has the last two.  A transfer may be refused with     *)
(* UNIT ATTENTION: the device was reset and did nothing, and the daemon    *)
(* repeats the transfer a few times.  Any other failure the device reports *)
(* is logged, and the request goes on; a failed ioctl ends it.             *)
(*                                                                         *)
(* The device and Trusty are the environment, as the protocol makes them.  *)
(* The device programs a frame only if it carries the device's write       *)
(* counter.  Trusty accepts a result only with the next counter, and data  *)
(* only with its nonce; without them it knows nothing of the counter and   *)
(* fetches it anew.                                                        *)
(***************************************************************************)
EXTENDS Naturals

CONSTANTS
  WriteRetry,     \* UFS_WRITE_RETRY, 1 in the code
  ReadRetry,      \* UFS_READ_RETRY, 3 in the code
  MaxRequests     \* bound: requests Trusty makes

ASSUME RetryAssumption == WriteRetry \in Nat /\ ReadRetry \in Nat
ASSUME RequestsAssumption == MaxRequests \in Nat

VARIABLES
  counter,        \* device: its write counter
  result,         \* device: how the last reliable write ended
  register,       \* device: the frame the next read transfer gets
  buf,            \* rpmb_read_buf, the same for all requests
  pc,             \* the transfer that comes next
  retry,          \* repetitions it has left
  req,            \* the request in hand, or the last one
  nonce,          \* requests Trusty has made
  expects,        \* Trusty: the device's write counter, if it knows it
  verdict,        \* Trusty: how its last request ended
  faults,         \* history: a transfer failed in another way
  attended        \* history: UNIT ATTENTIONs of each transfer

rpmbvars == <<counter, result, register, buf, pc, retry, req, nonce, expects,
              verdict, faults, attended>>

Unknown == MaxRequests + 1      \* no counter

(* stamp: the write counter in a result, the nonce in data.                *)
Frames == [kind : {"none", "result", "data"}, stamp : 0 .. MaxRequests, ok : BOOLEAN]

NoFrame == [kind |-> "none", stamp |-> 0, ok |-> FALSE]

NoRequest == [op |-> "none", stamp |-> 0]

Undisturbed == [reliable |-> 0, write |-> 0]

RpmbTypeOK ==
  /\ counter \in 0 .. MaxRequests
  /\ result \in Frames /\ register \in Frames /\ buf \in Frames
  /\ pc \in {"idle", "reliable", "write", "read"}
  /\ retry \in 0 .. WriteRetry + ReadRetry
  /\ req \in [op : {"none", "program", "fetch"}, stamp : 0 .. MaxRequests]
  /\ nonce \in 0 .. MaxRequests
  /\ expects \in 0 .. Unknown
  /\ verdict \in {"none", "ok", "failed"}
  /\ faults \in BOOLEAN
  /\ attended \in [reliable : 0 .. WriteRetry + 1, write : 0 .. ReadRetry + 1]

RpmbInit ==
  /\ counter = 0
  /\ result = NoFrame /\ register = NoFrame /\ buf = NoFrame
  /\ pc = "idle"
  /\ retry = 0
  /\ req = NoRequest
  /\ nonce = 0
  /\ expects = Unknown
  /\ verdict = "none"
  /\ faults = FALSE
  /\ attended = Undisturbed
-----------------------------------------------------------------------------
(* Trusty's request r arrives and starts with transfer step.               *)
Begin(r, step, n) ==
  /\ pc = "idle" /\ nonce < MaxRequests
  /\ req' = r
  /\ pc' = step
  /\ retry' = n
  /\ nonce' = nonce + 1
  /\ verdict' = "none"
  /\ faults' = FALSE
  /\ attended' = Undisturbed
  /\ UNCHANGED <<counter, result, register, buf, expects>>

SendProgram ==
  expects # Unknown
  /\ Begin([op |-> "program", stamp |-> expects], "reliable", WriteRetry)

SendFetch == Begin([op |-> "fetch", stamp |-> nonce], "write", ReadRetry)

(* What the device does with the frame of a transfer.                      *)
Execute ==
  \/ /\ pc = "reliable"
     /\ counter' = IF req.stamp = counter THEN counter + 1 ELSE counter
     /\ result' = [kind |-> "result", stamp |-> counter', ok |-> req.stamp = counter]
     /\ UNCHANGED register
  \/ /\ pc = "write"
     /\ register' = IF req.op = "fetch"
                    THEN [kind |-> "data", stamp |-> req.stamp, ok |-> TRUE]
                    ELSE result
     /\ UNCHANGED <<counter, result>>

ExecuteNot == UNCHANGED <<counter, result, register>>

Writing == pc \in {"reliable", "write"}

(* The next transfer.  The write after a reliable write is not repeated.   *)
NextTransfer ==
  /\ pc' = IF pc = "reliable" THEN "write" ELSE "read"
  /\ retry' = 0

TransferDone ==
  /\ Writing
  /\ Execute
  /\ NextTransfer
  /\ UNCHANGED <<buf, req, nonce, expects, verdict, faults, attended>>

(* Mutant: --retry > 0 for retry-- > 0.                                    *)
UnitAttentionPredecrement ==
  /\ Writing
  /\ ExecuteNot
  /\ attended' = [attended EXCEPT ![pc] = @ + 1]
  /\ IF retry > 1 THEN retry' = retry - 1 /\ pc' = pc ELSE NextTransfer
  /\ UNCHANGED <<buf, req, nonce, expects, verdict, faults>>

(* check_sg_result = 1: again while retry-- > 0, and on without it then.   *)
UnitAttention ==
  /\ Writing
  /\ ExecuteNot
  /\ attended' = [attended EXCEPT ![pc] = @ + 1]
  /\ IF retry > 0 THEN retry' = retry - 1 /\ pc' = pc ELSE NextTransfer
  /\ UNCHANGED <<buf, req, nonce, expects, verdict, faults>>

(* check_sg_result = -1: nobody looks at it.                               *)
DeviceFails ==
  /\ Writing
  /\ Execute \/ ExecuteNot
  /\ faults' = TRUE
  /\ NextTransfer
  /\ UNCHANGED <<buf, req, nonce, expects, verdict, attended>>
-----------------------------------------------------------------------------
Answer(v, c) ==
  /\ pc' = "idle"
  /\ retry' = 0
  /\ verdict' = v
  /\ expects' = c
  /\ UNCHANGED <<req, nonce, attended>>

(* Trusty looks at the frame it got.                                       *)
Judge(frame) ==
  IF req.op = "fetch"
  THEN IF frame.kind = "data" /\ frame.stamp = req.stamp
       THEN Answer("ok", counter)
       ELSE Answer("failed", Unknown)
  ELSE IF frame.kind = "result" /\ frame.ok /\ frame.stamp = req.stamp + 1
       THEN Answer("ok", frame.stamp)
       ELSE Answer("failed", Unknown)

(* The read transfer: whether the device failed is not looked at, and      *)
(* handle_rpmb_send answers with what rpmb_read_buf holds.                 *)
ReadTransfer ==
  /\ pc = "read"
  /\ \/ buf' = register /\ UNCHANGED faults
     \/ UNCHANGED buf /\ faults' = TRUE
  /\ Judge(buf')
  /\ ExecuteNot

(* A failed ioctl, the transfer done or not: STORAGE_ERR_GENERIC.          *)
IoctlFails ==
  /\ pc # "idle"
  /\ ExecuteNot \/ Execute
  /\ faults' = TRUE
  /\ Answer("failed", Unknown)
  /\ UNCHANGED buf

RpmbNext ==
  \/ SendProgram
  \/ SendFetch
  \/ TransferDone
  \/ UnitAttention
  \/ DeviceFails
  \/ ReadTransfer
  \/ IoctlFails

RpmbSpec == RpmbInit /\ [][RpmbNext]_rpmbvars
-----------------------------------------------------------------------------
(***************************************************************************)
(* When nothing else goes wrong, a program request survives WriteRetry     *)
(* resets of the device in its reliable write, and a fetch ReadRetry       *)
(* resets in its write, whatever earlier requests left in the shared       *)
(* buffer and in the device.                                               *)
(***************************************************************************)
AttentionIsSurvived ==
  verdict = "failed" /\ ~faults =>
    IF req.op = "program"
    THEN attended.reliable > WriteRetry \/ attended.write > 0
    ELSE attended.write > ReadRetry
=============================================================================
