--------------------------- MODULE SocketContract ---------------------------
(***************************************************************************)
(* How the state of SocketLifecycle, with its descriptors, finalizers and  *)
(* half-made calls, represents the connections of ConnectionContract.      *)
(***************************************************************************)
EXTENDS SocketLifecycle

(* A slot that its object, its constructor or a drain accounts for. *)
OpenIn(n, fd) == slot[fd] = n /\ fd \notin draining /\ Accounted(fd)

(* Whether an exception told the program separates "lost" from "leaked". *)
StageOf(n) ==
  IF ~Occupies(n) THEN "none"
  ELSE IF \E fd \in draining : slot[fd] = n THEN "draining"
  ELSE IF \E fd \in Fd : OpenIn(n, fd) THEN "open"
  ELSE IF n \in raised THEN "lost" ELSE "leaked"

(* The Sockets the program has not begun to close. *)
InUse == {n \in Sock : status[n] = "live" /\ finalizer[n] # NoFd /\ ~InClose(n)}

InsideOf(t) == IF pc[t] = "native" THEN <<frame[t].obj, frame[t].conn>> ELSE <<NoSock, NoSock>>

Contract == INSTANCE ConnectionContract
  WITH Outside <- <<NoSock, NoSock>>,
       MayRefuse <- CloseMayFail,
       stage <- [n \in Sock |-> StageOf(n)],
       using <- InUse,
       inside <- [t \in Thread |-> InsideOf(t)]

(***************************************************************************)
(* The methods, the constructor and the finalizer of Socket, interleaved   *)
(* as they are, keep the contract: whatever they do to descriptors, every  *)
(* step is one the contract allows.                                        *)
(***************************************************************************)
KeepsContract == Contract!Spec

=============================================================================
