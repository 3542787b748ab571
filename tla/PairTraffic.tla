---------------------------- MODULE PairTraffic -----------------------------
(***************************************************************************)
(* The data methods on the sockets that LwIP.socketpair returned: threads  *)
(* that call sendall on client_sock while the other end calls recv_into    *)
(* on server_sock (src/lwip/socket.py).                                    *)
(*                                                                         *)
(* check_ret_errno is taken apart here: a finalizer that the garbage       *)
(* collector runs in a sending thread makes native calls of its own, and   *)
(* ffi.errno is one number per thread.  lwIP's send buffer is external.    *)
(***************************************************************************)
EXTENDS SocketPair

CONSTANTS
  Sender,     \* threads that call sendall on client_sock
  Items,      \* len(payload) of each of them
  Widths,     \* the sizes an item of the memoryview may have, in bytes
  Window,     \* bytes lwIP takes before the reader has read them
  BufLen,     \* len(buffer) of the reader
  NBytes      \* the nbytes a reader may pass to recv_into

ASSUME TrafficAssumption ==
  /\ Items \in Nat /\ Window \in Nat \ {0} /\ BufLen \in Nat
  /\ Widths \subseteq Nat \ {0}
  /\ NBytes \subseteq Int

VARIABLES
  call,      \* sendall, by thread
  stream,    \* lwIP: the bytes it took, each <<thread, index in its payload>>
  taken,     \* how many of them the reader has
  blocking,  \* lwIP: the mode of client_sock
  width,     \* bytes of an item
  nbytes     \* the argument of the reader

dataVars == <<call, stream, taken, blocking, width, nbytes>>
allVars == <<vars, dataVars>>

EAGAIN == 11
ECONNRESET == 104
EBADF == 9

(***************************************************************************)
(* at: the next line; pos: items cut off the payload; ret, own: the return *)
(* value and errno of the last native call; err: ffi.errno of the thread;  *)
(* stray: a finalizer failed after errno was cleared; told: the errno of   *)
(* the OSError.                                                            *)
(***************************************************************************)
Call == [at : {"idle", "loop", "cleared", "returned", "done", "raised"},
         pos : 0..Items, ret : -1..Items, err : {0, EAGAIN, ECONNRESET, EBADF},
         own : {0, EAGAIN, ECONNRESET}, stray : {"no", "yes"}, told : {0, EAGAIN, ECONNRESET, EBADF}]

TrafficTypeOK ==
  /\ call \in [Sender -> Call]
  /\ stream \in Seq(Sender \X Nat)
  /\ taken \in 0..Len(stream)
  /\ blocking \in {"blocking", "nonblocking"}
  /\ width \in Widths
  /\ nbytes \in NBytes

TrafficInit ==
  /\ Init
  /\ call = [t \in Sender |->
       [at |-> "idle", pos |-> 0, ret |-> 0, err |-> 0, own |-> 0, stray |-> "no", told |-> 0]]
  /\ stream = <<>>
  /\ taken = 0
  /\ blocking = "blocking"
  /\ width \in Widths
  /\ nbytes \in NBytes

-----------------------------------------------------------------------------
(* sendall.                                                                 *)

Connected == pc = "returned" /\ type = "stream"

OnlyCall == UNCHANGED <<vars, stream, taken, blocking, width, nbytes>>

(* payload = memoryview(payload) *)
SendallBegin(t) ==
  /\ Connected
  /\ call[t].at = "idle"
  /\ call' = [call EXCEPT ![t].at = "loop"]
  /\ OnlyCall

(* while payload: ends. *)
SendallDone(t) ==
  /\ call[t].at = "loop"
  /\ call[t].pos = Items
  /\ call' = [call EXCEPT ![t].at = "done"]
  /\ OnlyCall

(* Mutant of SendBegin: ffi.errno is not cleared. *)
SendBeginUncleared(t) ==
  /\ call[t].at = "loop" /\ call[t].pos < Items
  /\ call' = [call EXCEPT ![t] = [call[t] EXCEPT !.at = "cleared", !.own = 0, !.stray = "no"]]
  /\ OnlyCall

(* send, up to the native call: the warning, and ffi.errno = 0. *)
SendBegin(t) ==
  /\ call[t].at = "loop" /\ call[t].pos < Items
  /\ call' = [call EXCEPT ![t] =
       IF RefusesCall(call[t].err) THEN [call[t] EXCEPT !.at = "raised"]
       ELSE [call[t] EXCEPT !.at = "cleared", !.err = 0, !.own = 0, !.stray = "no"]]
  /\ OnlyCall

(* The first k bytes of what is left of the memoryview, wherever its items end. *)
Piece(t, k) == [i \in 1..k |-> <<t, call[t].pos * width + i - 1>>]

Room == Window - (Len(stream) - taken)

(* The native call took k bytes, and returned ret and set errno to e unless it is 0. *)
Sent(t, k, ret, e) ==
  /\ stream' = stream \o Piece(t, k)
  /\ call' = [call EXCEPT ![t] =
       [call[t] EXCEPT !.at = "returned", !.ret = ret, !.own = e,
                       !.err = IF e = 0 THEN call[t].err ELSE e]]

(* lwip_send, given len(payload), the number of items, as the number of bytes. *)
NativeSend(t) ==
  /\ call[t].at = "cleared"
  /\ \/ \E k \in 1..(Items - call[t].pos) : k <= Room /\ Sent(t, k, k, 0)
     \/ blocking = "nonblocking" /\ Room = 0 /\ Sent(t, 0, -1, EAGAIN)
  /\ UNCHANGED <<vars, taken, blocking, width, nbytes>>

(* The connection is lost, or a failure for which check_ret_errno finds no errno. *)
SendFails(t) ==
  /\ call[t].at = "cleared"
  /\ \E e \in {0, ECONNRESET} : Sent(t, 0, -1, e)
  /\ UNCHANGED <<vars, taken, blocking, width, nbytes>>

(* Mutants of Rest: the last item sent is kept, or the next one is lost. *)
RestTwice(pos, bytes_sent) == pos + bytes_sent - 1
RestSkips(pos, bytes_sent) == IF pos + bytes_sent < Items THEN pos + bytes_sent + 1 ELSE Items

(* payload = payload[bytes_sent:] *)
Rest(pos, bytes_sent) == pos + bytes_sent

(* check_ret_errno, after the native call. *)
SendCheck(t) ==
  /\ call[t].at = "returned"
  /\ LET outcome == Outcome(call[t].ret, call[t].err) IN
     call' = [call EXCEPT ![t] =
       IF outcome = "ok"
       THEN [call[t] EXCEPT !.at = "loop", !.err = 0, !.pos = Rest(call[t].pos, call[t].ret)]
       ELSE [call[t] EXCEPT !.at = "raised", !.err = 0,
                            !.told = IF outcome = "OSError" THEN call[t].err ELSE 0]]
  /\ OnlyCall

(* A Socket is collected while the thread runs Python code: its finalizer's lwip_close fails. *)
Finalize(t) ==
  /\ call[t].at \in {"loop", "cleared", "returned"}
  /\ call' = [call EXCEPT ![t] =
       [call[t] EXCEPT !.err = EBADF,
                       !.stray = IF call[t].at = "loop" THEN call[t].stray ELSE "yes"]]
  /\ OnlyCall

-----------------------------------------------------------------------------
(* The other methods.                                                       *)

(* client_sock.setblocking(blocking), or settimeout(None) and settimeout(0). *)
SetMode(mode) ==
  /\ Connected
  /\ mode # blocking
  /\ blocking' = mode
  /\ UNCHANGED <<vars, call, stream, taken, width, nbytes>>

(* recv_into raises no ValueError. *)
LegalNBytes == nbytes \in 0..BufLen

(* Mutant of Wanted: nbytes=0 is handed to lwIP. *)
WantedAsGiven == nbytes

(* nbytes, or the whole buffer. *)
Wanted == IF nbytes = 0 THEN BufLen ELSE nbytes

(* server_sock.recv_into(buffer, nbytes) gets what there is, up to nbytes. *)
RecvInto ==
  /\ Connected
  /\ LegalNBytes
  /\ \E k \in 1..Wanted :
       /\ k <= Len(stream) - taken
       /\ taken' = taken + k
  /\ UNCHANGED <<vars, call, stream, blocking, width, nbytes>>

-----------------------------------------------------------------------------

Sendall(t) == SendallDone(t) \/ SendBegin(t) \/ NativeSend(t) \/ SendCheck(t)

Data ==
  \/ \E t \in Sender : SendallBegin(t) \/ Sendall(t) \/ SendFails(t) \/ Finalize(t)
  \/ \E mode \in {"blocking", "nonblocking"} : SetMode(mode)
  \/ RecvInto

TrafficNext == (Next /\ UNCHANGED dataVars) \/ Data

TrafficSpec == TrafficInit /\ [][TrafficNext]_allVars

(***************************************************************************)
(* The threads run, a native call comes back when it can without failing,  *)
(* and the reader reads as long as there is something.                     *)
(***************************************************************************)
FairTraffic ==
  /\ TrafficSpec
  /\ Fairness
  /\ \A t \in Sender : WF_allVars(Sendall(t))
  /\ WF_allVars(RecvInto)

-----------------------------------------------------------------------------

(***************************************************************************)
(* No byte of a payload is handed to lwIP twice and none after a later     *)
(* one, whatever the widths of items, partial sends, failures and other    *)
(* threads: the slicing in sendall.                                        *)
(***************************************************************************)
SentOnce ==
  \A i, j \in DOMAIN stream : i < j /\ stream[i][1] = stream[j][1] => stream[i][2] < stream[j][2]

(***************************************************************************)
(* With items of one byte, what lwIP took of a payload is its beginning,   *)
(* and all of it once sendall has returned.  With wider ones it is not:    *)
(* len(payload) counts items and lwip_send bytes.                          *)
(***************************************************************************)
SentInFull ==
  width = 1 =>
    \A t \in Sender :
      LET sent == {stream[i][2] : i \in {j \in DOMAIN stream : stream[j][1] = t}} IN
      /\ \A b \in sent : \A c \in 0..b : c \in sent
      /\ call[t].at = "done" => sent = 0..(Items - 1)

(***************************************************************************)
(* As long as warnings are only printed, sendall raises when its last      *)
(* native call failed and goes on when it did not, even if a finalizer     *)
(* left an errno next to a good return value.                              *)
(***************************************************************************)
RaisedIsFailed ==
  ~WarningsAreErrors =>
    \A t \in Sender :
      /\ call[t].at = "raised" => call[t].ret < 0
      /\ call[t].at \in {"loop", "done"} => call[t].ret >= 0

(***************************************************************************)
(* The errno of the OSError is that of the native call, and one that the   *)
(* call has set is told, unless a finalizer failed in the thread between   *)
(* the moment errno was cleared and the moment it was read.                *)
(***************************************************************************)
ErrorIsOwn ==
  \A t \in Sender :
    call[t].at = "raised" /\ call[t].ret < 0 /\ call[t].stray = "no" => call[t].told = call[t].own

(* A sendall that has begun returns or raises, as long as the reader's call is legal. *)
SendallEnds ==
  \A t \in Sender : LegalNBytes /\ call[t].at = "loop" ~> call[t].at \in {"done", "raised"}

=============================================================================
