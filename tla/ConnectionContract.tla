------------------------- MODULE ConnectionContract -------------------------
(***************************************************************************)
(* What the Socket class of src/lwip/socket.py promises a program about    *)
(* the connections behind its objects, without descriptors, wrappers,      *)
(* finalizers or the steps of a method: a connection stays open as long as *)
(* its Socket is in use, a method acts on the connection of the Socket it  *)
(* was called on, and a connection ends, with the calls inside it let out  *)
(* first, or an exception told the program that it was lost.  Only a       *)
(* finalizer that lwIP refuses leaks one silently, and nobody is inside.   *)
(***************************************************************************)
CONSTANTS
  Thread,   \* the Python threads of the program
  Sock,     \* names of connections and of their Sockets
  Outside,  \* a thread that is in no native call
  MayRefuse \* lwip_close may refuse to end a connection

VARIABLES
  stage,    \* where each connection is in its life
  using,    \* the Sockets made and not yet closed or collected
  inside    \* the Socket and the connection of the native call each thread is in

contractVars == <<stage, using, inside>>

Stage == {"none", "open", "draining", "lost", "leaked"}

Init ==
  /\ stage = [n \in Sock |-> "none"]
  /\ using = {}
  /\ inside = [t \in Thread |-> Outside]

Callers(n) == {t \in Thread : inside[t] = <<n, n>>}

(* The stages after thread t has left: the last one out ends a drain. *)
StageWithout(t) ==
  [n \in Sock |-> IF stage[n] = "draining" /\ Callers(n) = {t} THEN "none" ELSE stage[n]]

(* A new connection; its descriptor is kept, or an exception loses it. *)
Appear(n, stages) ==
  /\ stages[n] = "none"
  /\ \E s \in {"open", "lost"} : stage' = [stages EXCEPT ![n] = s]

Create(n) == Appear(n, stage) /\ UNCHANGED <<using, inside>>

(* The Socket of a connection is handed to the program. *)
Use(n) ==
  /\ stage[n] = "open"
  /\ using' = using \cup {n}
  /\ UNCHANGED <<stage, inside>>

(* close() is entered. *)
Retire(n) ==
  /\ using' = using \ {n}
  /\ UNCHANGED <<stage, inside>>

(* The connection of a Socket that is no longer in use ends, or is lost. *)
End(n) ==
  /\ stage[n] = "open"
  /\ using' = using \ {n}
  /\ stage' = [stage EXCEPT ![n] = IF Callers(n) = {} THEN "none" ELSE "draining"]
  /\ UNCHANGED inside

Lose(n) ==
  /\ stage[n] = "open"
  /\ using' = using \ {n}
  /\ stage' = [stage EXCEPT ![n] = "lost"]
  /\ UNCHANGED inside

(* lwip_close refuses the finalizer of a Socket that is gone. *)
Abandon(n) ==
  /\ MayRefuse
  /\ stage[n] = "open" /\ Callers(n) = {}
  /\ using' = using \ {n}
  /\ stage' = [stage EXCEPT ![n] = "leaked"]
  /\ UNCHANGED inside

Enter(t, n) ==
  /\ inside[t] = Outside
  /\ stage[n] \in {"open", "lost"}
  /\ inside' = [inside EXCEPT ![t] = <<n, n>>]
  /\ UNCHANGED <<stage, using>>

Leave(t) ==
  /\ inside[t] # Outside
  /\ inside' = [inside EXCEPT ![t] = Outside]
  /\ stage' = StageWithout(t)
  /\ UNCHANGED using

(* accept() leaves with a new connection. *)
LeaveWith(t, n) ==
  /\ inside[t] # Outside
  /\ inside' = [inside EXCEPT ![t] = Outside]
  /\ Appear(n, StageWithout(t))
  /\ UNCHANGED using

Next ==
  \/ \E n \in Sock : Create(n) \/ Use(n) \/ Retire(n) \/ End(n) \/ Lose(n) \/ Abandon(n)
  \/ \E t \in Thread : Leave(t) \/ \E n \in Sock : Enter(t, n) \/ LeaveWith(t, n)

Spec == Init /\ [][Next]_contractVars

=============================================================================
