----------------------------- MODULE SocketPair -----------------------------
(***************************************************************************)
(* LwIP.socketpair of src/lwip/__init__.py: two sockets connected to each  *)
(* other over the loopback interface, made with up to three sockets of     *)
(* which the failure of any call must leave none open.                     *)
(*                                                                         *)
(* Every native call goes through check_ret_errno but connect_ex, whose    *)
(* result is ignored.  Handshakes are made by lwIP's own thread: between   *)
(* listen() and accept() the connection of another local client may come   *)
(* first.  lwIP's side is external.                                        *)
(***************************************************************************)
EXTENDS LwipError, Sequences

CONSTANTS
  Rival,    \* other clients that may connect to the listening port
  Nobody    \* no peer

ASSUME PairAssumption == {"client", "server"} \cap (Rival \cup {Nobody}) = {}

VARIABLES
  type,      \* the argument type_
  pc,        \* the next call socketpair makes
  exc,       \* an exception is on its way through finally
  sock,      \* what became of each of the sockets
  peer,      \* lwIP: the remote end of the two sockets of the pair
  dialing,   \* lwIP: the handshake of client_sock
  backlog,   \* lwIP: connections waiting to be accepted
  errno      \* ffi.errno of the calling thread

vars == <<type, pc, exc, sock, peer, dialing, backlog, errno>>

ErrnoSet == 1
Name == {"listen", "client", "server"}

TypeOK ==
  /\ type \in {"stream", "dgram"}
  /\ pc \in {"open", "bind", "client", "nonblock", "connect", "accept", "finally", "connect_back",
             "verify", "blocking", "except_server", "except_client", "returned", "raised"}
  /\ exc \in BOOLEAN
  /\ sock \in [Name -> {"none", "open", "closed", "lost"}]
  /\ peer \in [{"client", "server"} -> {"client", "server", Nobody} \cup Rival]
  /\ dialing \in {"no", "started", "refused", "done"}
  /\ backlog \in Seq({"client"} \cup Rival)
  /\ errno \in {0, ErrnoSet}

Init ==
  /\ type \in {"stream", "dgram"}
  /\ pc = "open"
  /\ exc = FALSE
  /\ sock = [s \in Name |-> "none"]
  /\ peer = [s \in {"client", "server"} |-> Nobody]
  /\ dialing = "no"
  /\ backlog = <<>>
  /\ errno = 0

-----------------------------------------------------------------------------
(* Exceptions and checked calls.                                            *)

(* The bound socket, and the first one to be opened. *)
Bound == IF type = "stream" THEN "listen" ELSE "server"

(* Where an exception goes: listen_sock is closed first. *)
Raise ==
  /\ pc' = IF sock["listen"] = "open" THEN "finally" ELSE "except_server"
  /\ exc' = TRUE

(* check_ret_errno raises: the call is refused, or it fails, as any may. *)
CallRaises ==
  /\ errno' = ErrnoLeft(errno)
  /\ Raise
  /\ UNCHANGED <<type, sock, peer, dialing, backlog>>

(* check_ret_errno returns and socketpair goes on at next. *)
CallReturns(next) ==
  /\ ~RefusesCall(errno)
  /\ errno' = ErrnoLeft(errno)
  /\ pc' = next
  /\ UNCHANGED <<type, exc>>

OpenSocket(s) == sock' = [sock EXCEPT ![s] = "open"]

-----------------------------------------------------------------------------
(* The body of the try statement.                                           *)

(* listen_sock = self.socket(...), or server_sock *)
OpenBound ==
  /\ pc = "open"
  /\ \/ /\ CallReturns(IF type = "stream" THEN "bind" ELSE "client")
        /\ OpenSocket(Bound)
        /\ UNCHANGED <<peer, dialing, backlog>>
     \/ CallRaises

(* bind and listen; a datagram socket is bound after both are open. *)
Bind ==
  /\ pc = "bind"
  /\ \/ /\ CallReturns(IF type = "stream" THEN "client" ELSE "connect")
        /\ UNCHANGED <<sock, peer, dialing, backlog>>
     \/ CallRaises

(* client_sock = self.socket(...) *)
OpenClient ==
  /\ pc = "client"
  /\ \/ /\ CallReturns(IF type = "stream" THEN "nonblock" ELSE "bind")
        /\ OpenSocket("client")
        /\ UNCHANGED <<peer, dialing, backlog>>
     \/ CallRaises

(* client_sock.setblocking(False), and getsockname for the address. *)
SetNonblocking ==
  /\ pc = "nonblock"
  /\ \/ /\ CallReturns("connect")
        /\ UNCHANGED <<sock, peer, dialing, backlog>>
     \/ CallRaises

(* Mutant of ConnectStream: the handshake is not started. *)
ConnectNot ==
  /\ pc = "connect"
  /\ type = "stream"
  /\ pc' = "accept"
  /\ UNCHANGED <<type, exc, sock, peer, dialing, backlog, errno>>

(* connect_ex of a nonblocking stream socket: -1 and EINPROGRESS, or an error. *)
ConnectStream ==
  /\ pc = "connect"
  /\ type = "stream"
  /\ dialing' \in {"started", "refused"}
  /\ errno' = ErrnoSet
  /\ pc' = "accept"
  /\ UNCHANGED <<type, exc, sock, peer, backlog>>

(* connect_ex of a datagram socket; its failure shows in errno only.  The *)
(* getsockname in its argument is checked and leaves errno 0.             *)
ConnectDgram(s, t, next) ==
  /\ type = "dgram"
  /\ \/ /\ peer' = [peer EXCEPT ![s] = t]
        /\ errno' = ErrnoLeft(errno)
     \/ /\ errno' = ErrnoSet
        /\ UNCHANGED peer
  /\ pc' = next
  /\ UNCHANGED <<type, exc, sock, dialing, backlog>>

(* Mutant of Connect: the wrong socket is connected to. *)
ConnectToListener == pc = "connect" /\ ConnectDgram("client", "listen", "connect_back")

Connect == pc = "connect" /\ ConnectDgram("client", "server", "connect_back")

(* The argument, client_sock.getsockname(), is a checked call. *)
ConnectBack ==
  /\ pc = "connect_back"
  /\ \/ /\ ~RefusesCall(errno)
        /\ ConnectDgram("server", "client", "verify")
     \/ CallRaises

(* listen_sock.accept() waits for a connection and takes the first. *)
Accept ==
  /\ pc = "accept"
  /\ \/ /\ backlog # <<>>
        /\ CallReturns("finally")
        /\ OpenSocket("server")
        /\ peer' = [peer EXCEPT !["server"] = Head(backlog)]
        /\ backlog' = Tail(backlog)
        /\ UNCHANGED dialing
     \/ CallRaises

(* close() of a socket; when it raises the descriptor is given up. *)
CloseAs(s, outcome) ==
  /\ outcome = "closed" => ~RefusesCall(errno)
  /\ sock' = [sock EXCEPT ![s] = outcome]
  /\ errno' = ErrnoLeft(errno)
  /\ UNCHANGED <<type, peer, dialing>>

(* finally: listen_sock.close(); connections not accepted are reset. *)
Finally ==
  /\ pc = "finally"
  /\ \E outcome \in {"closed", "lost"} :
       /\ CloseAs("listen", outcome)
       /\ exc' = (exc \/ outcome = "lost")
       /\ backlog' = IF outcome = "closed" THEN <<>> ELSE backlog
  /\ pc' = IF exc' THEN "except_server" ELSE "verify"

(* Mutant of Verify: getpeername is not compared. *)
VerifyNot ==
  /\ pc = "verify"
  /\ \/ /\ CallReturns("blocking")
        /\ UNCHANGED <<sock, peer, dialing, backlog>>
     \/ CallRaises

(* The names are compared; getpeername fails on a socket without peer. *)
Verify ==
  /\ pc = "verify"
  /\ \/ /\ peer = [client |-> "server", server |-> "client"]
        /\ CallReturns("blocking")
        /\ UNCHANGED <<sock, peer, dialing, backlog>>
     \/ /\ peer # [client |-> "server", server |-> "client"]
        /\ errno' = ErrnoLeft(errno)
        /\ Raise
        /\ UNCHANGED <<type, sock, peer, dialing, backlog>>
     \/ CallRaises

(* setblocking(blocking) on both, and return. *)
SetBlocking ==
  /\ pc = "blocking"
  /\ \/ /\ CallReturns("returned")
        /\ UNCHANGED <<sock, peer, dialing, backlog>>
     \/ CallRaises

(***************************************************************************)
(* except: close what is not None, server_sock first; a close() that       *)
(* raises ends the handler.                                                *)
(***************************************************************************)
Except(s, next) ==
  \/ /\ sock[s] = "none"
     /\ pc' = next
     /\ UNCHANGED <<type, sock, peer, dialing, errno>>
  \/ /\ sock[s] = "open"
     /\ \E outcome \in {"closed", "lost"} :
          /\ CloseAs(s, outcome)
          /\ pc' = IF outcome = "closed" THEN next ELSE "raised"

(* Mutant of ExceptServer: the handler closes one socket and raises. *)
ExceptServerOnly == pc = "except_server" /\ Except("server", "raised") /\ UNCHANGED <<exc, backlog>>

ExceptServer ==
  pc = "except_server" /\ Except("server", "except_client") /\ UNCHANGED <<exc, backlog>>

ExceptClient == pc = "except_client" /\ Except("client", "raised") /\ UNCHANGED <<exc, backlog>>

-----------------------------------------------------------------------------
(* lwIP.                                                                    *)

Listening == sock["listen"] = "open" /\ pc \in {"client", "nonblock", "connect", "accept", "finally"}

(* The handshake of client_sock completes. *)
Handshake ==
  /\ dialing = "started"
  /\ Listening
  /\ dialing' = "done"
  /\ backlog' = Append(backlog, "client")
  /\ peer' = [peer EXCEPT !["client"] = "server"]
  /\ UNCHANGED <<type, pc, exc, sock, errno>>

(* Another client connects to the port. *)
RivalConnects(r) ==
  /\ Listening
  /\ r \notin {backlog[i] : i \in DOMAIN backlog} /\ peer["server"] # r
  /\ backlog' = Append(backlog, r)
  /\ UNCHANGED <<type, pc, exc, sock, peer, dialing, errno>>

-----------------------------------------------------------------------------

Step ==
  \/ OpenBound \/ Bind \/ OpenClient \/ SetNonblocking
  \/ ConnectStream \/ Connect \/ ConnectBack \/ Accept \/ Finally
  \/ Verify \/ SetBlocking \/ ExceptServer \/ ExceptClient

Next == Step \/ Handshake \/ \E r \in Rival : RivalConnects(r)

Spec == Init /\ [][Next]_vars

(***************************************************************************)
(* The caller's thread runs and every call but accept() comes back; a      *)
(* blocking accept() comes back when there is a connection.  lwIP's thread *)
(* completes handshakes.                                                   *)
(***************************************************************************)
Fairness == WF_vars(Step /\ ~(pc = "accept" /\ exc')) /\ WF_vars(Handshake)

FairSpec == Spec /\ Fairness

-----------------------------------------------------------------------------

(***************************************************************************)
(* What socketpair returns is connected to each other, whoever else got    *)
(* into the backlog and whatever connect_ex did: "socket pair not          *)
(* connected to each other" is raised otherwise.                           *)
(***************************************************************************)
PairConnected ==
  pc = "returned" =>
    /\ sock["client"] = "open" /\ sock["server"] = "open"
    /\ peer = [client |-> "server", server |-> "client"]

(***************************************************************************)
(* Whether socketpair returns or raises, the listening socket is closed,   *)
(* and when it raises no socket it made is left, unless the close() of one *)
(* of them raised; that one is given up, and a client_sock after it.       *)
(***************************************************************************)
NothingLeft ==
  /\ pc \in {"returned", "raised"} => sock["listen"] # "open"
  /\ pc = "raised" /\ sock["server"] # "lost" => \A s \in Name : sock[s] # "open"

(***************************************************************************)
(* socketpair ends, whoever else is in the backlog, unless connect_ex has  *)
(* failed at once, which nobody looks at: then accept() may wait for ever. *)
(***************************************************************************)
Ends == <>(pc \in {"returned", "raised"} \/ dialing = "refused")

(***************************************************************************)
(* While nothing has failed a checked call starts with errno 0: the        *)
(* warning "errno {errno} not zero before function {function_name}         *)
(* invocation" (src/lwip/lwip_error.py:53) tells of an unnoticed failure.  *)
(***************************************************************************)
CleanErrno ==
  type = "stream" /\ dialing # "refused" /\ ~exc /\ pc # "returned" => errno = 0

=============================================================================
