------------------------ MODULE SocketLifecycleProofs ------------------------
(***************************************************************************)
(* Proofs, for every number of threads, objects and descriptors, of the    *)
(* safety properties of SocketLifecycle, and that it implements            *)
(* ConnectionContract.                                                     *)
(***************************************************************************)
EXTENDS SocketContract, TLAPS

(* The steps of close() after lwip_close: the descriptor may be gone.       *)
ClosedPc == {"closed", "detach"}
Closed(n) == \E t \in Thread : pc[t] \in ClosedPc /\ frame[t].obj = n

(* Threads that are alone responsible for the object in their frame.        *)
OwnerPc == {"new"} \cup InClosePc

(* An armed finalizer and self._s name one open slot, that of the object.   *)
Armed ==
  \A n \in Sock :
    status[n] = "live" /\ finalizer[n] # NoFd /\ ~Closed(n)
      => /\ fileno[n] = finalizer[n]
         /\ Open(finalizer[n])
         /\ slot[finalizer[n]] = n

(* A constructor holds the open descriptor of its connection.               *)
NewOwns ==
  \A t \in Thread : pc[t] = "new"
    => /\ frame[t].obj \in Sock
       /\ status[frame[t].obj] = "raw"
       /\ Open(frame[t].fd)
       /\ slot[frame[t].fd] = frame[t].obj

(* close() closes the descriptor of its own object.                         *)
CloseOwns ==
  \A t \in Thread :
    /\ pc[t] = "closing" => frame[t].fd \in Fd /\ frame[t].fd = finalizer[frame[t].obj]
    /\ pc[t] = "detach" => fileno[frame[t].obj] = NoFd

(* Calls and close() run on objects that exist.                             *)
Alive ==
  \A t \in Thread : pc[t] \in InCallPc \cup InClosePc
    => frame[t].obj \in Sock /\ status[frame[t].obj] = "live"

(* No two threads create or close the same object.                          *)
Exclusive ==
  \A t, u \in Thread :
    pc[t] \in OwnerPc /\ pc[u] \in OwnerPc /\ frame[t].obj = frame[u].obj => t = u

(* self._s is -1 or what the finalizer would close; without object, nothing. *)
Numbers ==
  \A n \in Sock :
    /\ status[n] = "live" /\ fileno[n] # NoFd => fileno[n] = finalizer[n]
    /\ status[n] # "live" => n \notin held /\ finalizer[n] = NoFd

DrainingOccupied == \A fd \in draining : slot[fd] # NoSock

IInv ==
  /\ TypeOK
  /\ Armed
  /\ NewOwns
  /\ CloseOwns
  /\ Alive
  /\ Exclusive
  /\ Numbers
  /\ DrainingOccupied

(* The finalizer of a Socket that is gone was refused by lwip_close.        *)
Abandoned(fd) == CloseMayFail /\ status[slot[fd]] = "none"

(* A lost slot was lost by a call that raised, or abandoned.                *)
LeakIsTold ==
  \A fd \in Fd : slot[fd] # NoSock => Accounted(fd) \/ slot[fd] \in raised \/ Abandoned(fd)

(* What close() has left is a drain, or close() raises.                     *)
ClosedLeft ==
  \A t \in Thread : pc[t] \in ClosedPc
    => \A fd \in Fd : slot[fd] = frame[t].obj => fd \in draining \/ slot[fd] \in raised

(* A connection under construction is in one slot.                          *)
NewOnce ==
  \A t \in Thread : pc[t] = "new"
    => \A fd \in Fd : slot[fd] = frame[t].obj => fd = frame[t].fd

LeakInv == LeakIsTold /\ ClosedLeft /\ NewOnce

NothingRaised == raised = {}

-----------------------------------------------------------------------------
(* Types.                                                                   *)

USE DEF ErrnoSet

(* Going back to the program leaves a thread and its frame well typed.      *)
LEMMA BackTypes ==
  ASSUME TypeOK, NEW t \in Thread, BackToProgram(t)
  PROVE  pc' \in [Thread -> Pc] /\ frame' \in [Thread -> Frame]
<1>1. NoFrame \in Frame
  BY DEF Frame, NoFrame, Op
<1> QED
  BY <1>1 DEF TypeOK, BackToProgram, GoTo, Pc

(* A frame for object n and descriptor fd is a frame.                       *)
LEMMA FrameTypes ==
  ASSUME NEW n \in Sock, NEW fd \in Fd \cup {NoFd}, NEW op \in Op
  PROVE  /\ [NoFrame EXCEPT !.obj = n, !.fd = fd] \in Frame
         /\ [NoFrame EXCEPT !.obj = n, !.fd = fd, !.op = op] \in Frame
BY DEF Frame, NoFrame, Op

(* A checked call leaves errno at 0 or as it found it.                      *)
LEMMA ErrnoTypes ==
  ASSUME TypeOK, NEW t \in Thread
  PROVE  ErrnoLeft(errno[t]) \in {0, ErrnoSet}
BY DEF TypeOK, ErrnoLeft

(* Taking a new descriptor, kept or lost, leaves what it assigns well typed. *)
LEMMA TakeTypes ==
  ASSUME TypeOK, NEW t \in Thread, NEW n \in Sock, NEW fd \in Fd, TakeDescriptor(t, n, fd)
  PROVE  /\ errno' \in [Thread -> {0, ErrnoSet}]
         /\ status' \in [Sock -> Status]
         /\ raised' \subseteq Sock
         /\ pc' \in [Thread -> Pc]
         /\ frame' \in [Thread -> Frame]
<1>1. errno' \in [Thread -> {0, ErrnoSet}]
  BY ErrnoTypes DEF TypeOK, TakeDescriptor
<1>2. PICK after \in {0, ErrnoSet} :
        \/ /\ status' = [status EXCEPT ![n] = "raw"]
           /\ raised' = raised \ {n}
           /\ GoTo(t, "new")
           /\ frame' = [frame EXCEPT ![t] = [NoFrame EXCEPT !.obj = n, !.fd = fd]]
        \/ /\ raised' = raised \cup {n}
           /\ BackToProgram(t)
           /\ UNCHANGED status
  BY DEF TakeDescriptor
<1>3. CASE /\ status' = [status EXCEPT ![n] = "raw"]
           /\ raised' = raised \ {n}
           /\ GoTo(t, "new")
           /\ frame' = [frame EXCEPT ![t] = [NoFrame EXCEPT !.obj = n, !.fd = fd]]
  <2>1. [NoFrame EXCEPT !.obj = n, !.fd = fd] \in Frame
    BY FrameTypes DEF Op
  <2>2. frame' \in [Thread -> Frame]
    BY <1>3, <2>1 DEF TypeOK
  <2>3. pc' \in [Thread -> Pc]
    BY <1>3 DEF TypeOK, GoTo, Pc
  <2> QED
    BY <1>1, <1>3, <2>2, <2>3 DEF TypeOK, Status
<1>4. CASE raised' = raised \cup {n} /\ BackToProgram(t) /\ UNCHANGED status
  BY <1>1, <1>4, BackTypes DEF TypeOK
<1> QED
  BY <1>2, <1>3, <1>4

(* The table stays typed when a thread leaves its slot.                     *)
LEMMA SlotTypes ==
  ASSUME TypeOK, NEW t \in Thread
  PROVE  /\ SlotAfter(t) \in [Fd -> Sock \cup {NoSock}]
         /\ DrainingAfter(t) \subseteq Fd
BY DEF TypeOK, SlotAfter, DrainingAfter

(***************************************************************************)
(* Every variable keeps its type: no step stores a value of another kind,  *)
(* whatever the sets of threads, objects and descriptors.                  *)
(***************************************************************************)
LEMMA TypeStep == TypeOK /\ Alive /\ [Next]_vars => TypeOK'
<1> SUFFICES ASSUME TypeOK, Alive, [Next]_vars PROVE TypeOK'
  OBVIOUS
<1>1. ASSUME NEW t \in Thread, NEW n \in Sock, NEW fd \in Fd, SocketCall(t, n, fd)
      PROVE TypeOK'
  <2>1. slot' \in [Fd -> Sock \cup {NoSock}]
    BY <1>1 DEF TypeOK, SocketCall
  <2> QED
    BY <1>1, <2>1, TakeTypes DEF TypeOK, SocketCall
<1>2. ASSUME NEW t \in Thread, SocketFails(t)
      PROVE TypeOK'
  BY <1>2, ErrnoTypes DEF TypeOK, SocketFails
<1>3. ASSUME NEW t \in Thread, Construct(t)
      PROVE TypeOK'
  <2>1. frame[t].obj \in Sock \cup {NoSock} /\ frame[t].fd \in Fd \cup {NoFd}
    BY DEF TypeOK, Frame
  <2>2. /\ status' \in [Sock -> Status]
        /\ fileno' \in [Sock -> Fd \cup {NoFd}]
        /\ finalizer' \in [Sock -> Fd \cup {NoFd}]
    BY <1>3, <2>1 DEF TypeOK, Construct, Status
  <2> QED
    BY <1>3, <2>2, BackTypes DEF TypeOK, Construct
<1>4. ASSUME NEW t \in Thread, NEW n \in Sock, NEW op \in Op, CallBegin(t, n, op)
      PROVE TypeOK'
  <2>1. [NoFrame EXCEPT !.obj = n, !.fd = fileno[n], !.op = op] \in Frame
    BY FrameTypes DEF TypeOK
  <2> QED
    BY <1>4, <2>1 DEF TypeOK, CallBegin, GoTo, Pc, InCallPc
<1>5. ASSUME NEW t \in Thread, CallStep(t)
      PROVE TypeOK'
  <2>1. CASE CallEnter(t)
    <3>1. frame' \in [Thread -> Frame]
      BY <2>1 DEF TypeOK, CallEnter, Frame, Open
    <3> QED
      BY <2>1, <3>1 DEF TypeOK, CallEnter, GoTo, Pc, InCallPc
  <2>2. CASE CallBadFd(t)
    BY <2>2, ErrnoTypes, BackTypes DEF TypeOK, CallBadFd
  <2>3. CASE CallRefused(t)
    BY <2>3, BackTypes DEF TypeOK, CallRefused
  <2> QED
    BY <1>5, <2>1, <2>2, <2>3 DEF CallStep
<1>6. ASSUME NEW t \in Thread, CallReturn(t)
      PROVE TypeOK'
  <2>1. errno' \in [Thread -> {0, ErrnoSet}]
    BY <1>6, ErrnoTypes DEF TypeOK, CallReturn
  <2> QED
    BY <1>6, <2>1, SlotTypes, BackTypes DEF TypeOK, CallReturn
<1>7. ASSUME NEW t \in Thread, NEW n \in Sock, NEW fd \in Fd, AcceptReturn(t, n, fd)
      PROVE TypeOK'
  <2>1. slot' \in [Fd -> Sock \cup {NoSock}]
    BY <1>7, SlotTypes DEF AcceptReturn
  <2> QED
    BY <1>7, <2>1, SlotTypes, TakeTypes DEF TypeOK, AcceptReturn
<1>8. ASSUME NEW t \in Thread, NEW n \in Sock, CloseBegin(t, n)
      PROVE TypeOK'
  <2>1. [NoFrame EXCEPT !.obj = n, !.fd = fileno[n]] \in Frame
    BY FrameTypes DEF TypeOK, Op
  <2> QED
    BY <1>8, <2>1 DEF TypeOK, CloseBegin, GoTo, Pc, InClosePc
<1>9. ASSUME NEW t \in Thread, CloseStep(t)
      PROVE TypeOK'
  <2>1. frame[t].obj \in Sock
    BY <1>9 DEF Alive, InClosePc, CloseStep, CloseNative, CloseRaises, ForgetFd, Detach
  <2>2. CASE CloseNative(t)
    <3>1. slot' \in [Fd -> Sock \cup {NoSock}] /\ draining' \subseteq Fd
      BY <2>2 DEF TypeOK, CloseNative, CloseSlot, Open
    <3>2. raised' \subseteq Sock
      BY <2>1, <2>2 DEF TypeOK, CloseNative
    <3> QED
      BY <2>2, <3>1, <3>2, ErrnoTypes DEF TypeOK, CloseNative, GoTo, Pc, InClosePc
  <2>3. CASE CloseRaises(t)
    BY <2>1, <2>3, ErrnoTypes DEF TypeOK, CloseRaises, GoTo, Pc, InClosePc
  <2>4. CASE ForgetFd(t)
    BY <2>4 DEF TypeOK, ForgetFd, GoTo, Pc, InClosePc
  <2>5. CASE Detach(t)
    <3>1. finalizer' \in [Sock -> Fd \cup {NoFd}]
      BY <2>5 DEF TypeOK, Detach
    <3> QED
      BY <2>5, <3>1, BackTypes DEF TypeOK, Detach
  <2> QED
    BY <1>9, <2>2, <2>3, <2>4, <2>5 DEF CloseStep
<1>10. ASSUME NEW t \in Thread, NEW n \in Sock, Collect(t, n)
       PROVE TypeOK'
  BY <1>10 DEF TypeOK, Collect, CloseSlot, Open, Status
<1>11. ASSUME NEW n \in Sock, Drop(n)
       PROVE TypeOK'
  BY <1>11 DEF TypeOK, Drop
<1>12. CASE UNCHANGED vars
  BY <1>12 DEF TypeOK, vars
<1> QED
  BY <1>1, <1>2, <1>3, <1>4, <1>5, <1>6, <1>7, <1>8, <1>9, <1>10, <1>11, <1>12 DEF Next


-----------------------------------------------------------------------------
(* The inductive invariant, one action at a time.                           *)

(* What became of a new descriptor: its constructor runs, or nobody has it. *)
Kept(t, n, fd) ==
  /\ status' = [status EXCEPT ![n] = "raw"]
  /\ raised' = raised \ {n}
  /\ pc' = [pc EXCEPT ![t] = "new"]
  /\ frame' = [frame EXCEPT ![t] = [NoFrame EXCEPT !.obj = n, !.fd = fd]]

Lost(t, n) ==
  /\ raised' = raised \cup {n}
  /\ BackToProgram(t)
  /\ UNCHANGED status

(* A new descriptor is kept by its constructor or lost to an exception.    *)
LEMMA TakeCases ==
  ASSUME NEW t \in Thread, NEW n \in Sock, NEW fd \in Fd, TakeDescriptor(t, n, fd)
  PROVE  Kept(t, n, fd) \/ Lost(t, n)
BY DEF TakeDescriptor, GoTo, Kept, Lost

(* Either way only thread t moves, and only n is made or lost.             *)
LEMMA TakeMoves ==
  ASSUME pc \in [Thread -> Pc], frame \in [Thread -> Frame], status \in [Sock -> Status],
         NEW t \in Thread, NEW n \in Sock, NEW fd \in Fd, TakeDescriptor(t, n, fd)
  PROVE  /\ pc'[t] \in {"idle", "new"}
         /\ \A u \in Thread : u # t => pc'[u] = pc[u] /\ frame'[u] = frame[u]
         /\ \A m \in Sock : m # n => status'[m] = status[m]
         /\ status'[n] \in {status[n], "raw"}
         /\ \A m \in Sock : m # n => (m \in raised' <=> m \in raised)
         /\ status'[n] = "raw" \/ n \in raised'
<1>1. CASE Kept(t, n, fd)
  BY <1>1 DEF Kept
<1>2. CASE Lost(t, n)
  BY <1>2 DEF Lost, BackToProgram, GoTo
<1> QED
  BY <1>1, <1>2, TakeCases

(***************************************************************************)
(* A new connection n in slot fd, free until now: the step of a thread     *)
(* that has no object of its own to create or close.                       *)
(***************************************************************************)
LEMMA TakeStep ==
  ASSUME IInv, NEW t \in Thread, NEW n \in Sock, NEW fd \in Fd, TakeDescriptor(t, n, fd),
         TypeOK', pc[t] \in {"idle", "native"}, Fresh(n), slot[fd] = NoSock,
         slot' = [SlotAfter(t) EXCEPT ![fd] = n], draining' = DrainingAfter(t),
         UNCHANGED <<fileno, finalizer, held>>
  PROVE  IInv'
<1> USE DEF IInv, TypeOK
<1>1. fd \notin draining /\ fd \notin draining'
  BY DEF DrainingOccupied, DrainingAfter
<1>2. \A g \in Fd : Open(g) => g # fd /\ slot'[g] = slot[g] /\ Open(g)'
  BY <1>1 DEF Open, SlotAfter, DrainingAfter, LastOut
<1>3. Open(fd)' /\ slot'[fd] = n
  BY <1>1, LifecycleAssumption DEF Open, SlotAfter
<1>4. /\ status[n] = "none"
      /\ \A m \in Sock : m # n => status'[m] = status[m]
      /\ status'[n] \in {"none", "raw"}
  BY TakeMoves DEF Fresh
<1>5. \A u \in Thread : u # t => pc'[u] = pc[u] /\ frame'[u] = frame[u]
  BY TakeMoves
<1>6. \/ pc'[t] = "idle"
      \/ pc'[t] = "new" /\ frame'[t].obj = n /\ frame'[t].fd = fd /\ status'[n] = "raw"
  <2>1. CASE Kept(t, n, fd)
    <3>1. pc'[t] = "new" /\ status'[n] = "raw"
      BY <2>1 DEF Kept
    <3>2. frame'[t] = [NoFrame EXCEPT !.obj = n, !.fd = fd]
      BY <2>1 DEF Kept
    <3> QED
      BY <3>1, <3>2 DEF NoFrame
  <2>2. CASE Lost(t, n)
    BY <2>2 DEF Lost, BackToProgram, GoTo
  <2> QED
    BY <2>1, <2>2, TakeCases
<1>7. \A u \in Thread : pc[u] \in OwnerPc \cup InCallPc => frame[u].obj # n /\ frame[u].obj \in Sock
  BY <1>4 DEF NewOwns, Alive, OwnerPc, InClosePc
<1>8. Armed'
  BY <1>2, <1>4, <1>5, <1>6 DEF Armed, Closed, ClosedPc, Open
<1>9. NewOwns'
  <2>1. ASSUME NEW u \in Thread, u # t, pc'[u] = "new"
        PROVE  (/\ frame[u].obj \in Sock
                /\ status[frame[u].obj] = "raw"
                /\ Open(frame[u].fd)
                /\ slot[frame[u].fd] = frame[u].obj)'
    <3>1. /\ pc[u] = "new" /\ frame'[u] = frame[u]
          /\ frame[u].obj \in Sock /\ frame[u].obj # n
      BY <2>1, <1>5, <1>7 DEF OwnerPc
    <3>2. status'[frame[u].obj] = "raw"
      BY <3>1, <1>4 DEF NewOwns
    <3>3. Open(frame[u].fd) /\ frame[u].fd \in Fd /\ slot[frame[u].fd] = frame[u].obj
      BY <3>1 DEF NewOwns, Open
    <3>4. (Open(frame[u].fd) /\ slot[frame[u].fd] = frame[u].obj)'
      BY <3>1, <3>3, <1>2 DEF Open
    <3> QED
      BY <3>1, <3>2, <3>4
  <2> QED
    BY <2>1, <1>3, <1>6 DEF NewOwns, Open
<1>10. CloseOwns'
  BY <1>5, <1>6 DEF CloseOwns
<1>11. Alive'
  BY <1>4, <1>5, <1>6, <1>7 DEF Alive, OwnerPc, InCallPc, InClosePc
<1>12. Exclusive'
  BY <1>5, <1>6, <1>7 DEF Exclusive, OwnerPc, InClosePc
<1>13. Numbers'
  BY <1>4 DEF Numbers
<1>14. DrainingOccupied'
  BY <1>1, LifecycleAssumption DEF DrainingOccupied, DrainingAfter, SlotAfter, LastOut
<1> QED
  BY <1>8, <1>9, <1>10, <1>11, <1>12, <1>13, <1>14

(***************************************************************************)
(* Closing a slot that belongs to object m takes no open slot from others.  *)
(***************************************************************************)
LEMMA CloseSlotOthers ==
  ASSUME TypeOK, NEW fd \in Fd, Open(fd), CloseSlot(fd)
  PROVE  /\ \A g \in Fd : Open(g) /\ slot[g] # slot[fd] => Open(g)' /\ slot'[g] = slot[g]
         /\ DrainingOccupied => DrainingOccupied'
BY DEF TypeOK, Open, CloseSlot, DrainingOccupied

(* lwip_close in close() takes the slot of this object from nobody else.   *)
LEMMA CloseNativeStep ==
  ASSUME IInv, TypeOK', NEW t \in Thread, CloseNative(t)
  PROVE  IInv'
<1> USE DEF IInv, TypeOK
<1> DEFINE n == frame[t].obj
<1>1. /\ n \in Sock
      /\ status[n] = "live"
      /\ frame[t].fd \in Fd
      /\ frame[t].fd = finalizer[n]
      /\ pc[t] = "closing"
  BY DEF CloseNative, Alive, CloseOwns, InClosePc
<1>2. ~Closed(n)
  BY <1>1 DEF Closed, ClosedPc, Exclusive, OwnerPc, InClosePc
<1>3. slot[frame[t].fd] = n
  BY <1>1, <1>2, LifecycleAssumption DEF Armed
<1>4. /\ \A g \in Fd : Open(g) /\ slot[g] # n => Open(g)' /\ slot'[g] = slot[g]
      /\ DrainingOccupied'
  BY <1>1, <1>3, CloseSlotOthers DEF CloseNative
<1>5. /\ pc' = [pc EXCEPT ![t] = "closed"]
      /\ UNCHANGED <<status, fileno, finalizer, held, frame>>
  BY DEF CloseNative, GoTo
<1>6. Closed(n)'
  BY <1>5 DEF Closed, ClosedPc
<1>7. Armed'
  BY <1>4, <1>5, <1>6 DEF Armed, Closed, ClosedPc, Open
<1>8. NewOwns'
  <2>1. ASSUME NEW u \in Thread, pc'[u] = "new"
        PROVE  /\ frame[u].obj \in Sock
               /\ status[frame[u].obj] = "raw"
               /\ Open(frame[u].fd)'
               /\ slot'[frame[u].fd] = frame[u].obj
    BY <2>1, <1>1, <1>4, <1>5 DEF NewOwns, Open
  <2> QED
    BY <2>1, <1>5 DEF NewOwns, Open
<1>9. CloseOwns' /\ Alive' /\ Exclusive' /\ Numbers'
  BY <1>1, <1>5 DEF CloseOwns, Alive, Exclusive, Numbers, OwnerPc, InCallPc, InClosePc
<1> QED
  BY <1>4, <1>7, <1>8, <1>9

(* The finalizer closes the slot of its own object and of no other.        *)
LEMMA CollectStep ==
  ASSUME IInv, TypeOK', NEW t \in Thread, NEW n \in Sock, Collect(t, n)
  PROVE  IInv'
<1> USE DEF IInv, TypeOK
<1>1. /\ status[n] = "live"
      /\ n \notin held
      /\ \A u \in Thread : pc[u] # "idle" => frame[u].obj # n
      /\ UNCHANGED <<held, pc, frame>>
  BY DEF Collect, Unreachable, Busy
<1>2. /\ \A m \in Sock : m # n => /\ status'[m] = status[m]
                                  /\ fileno'[m] = fileno[m]
                                  /\ finalizer'[m] = finalizer[m]
      /\ status'[n] = "none" /\ finalizer'[n] = NoFd
  BY DEF Collect
<1>3. finalizer[n] # NoFd => slot[finalizer[n]] = n /\ finalizer[n] \in Fd
  BY <1>1 DEF Armed, Closed, ClosedPc
<1>4. /\ \A g \in Fd : Open(g) /\ slot[g] # n => Open(g)' /\ slot'[g] = slot[g]
      /\ DrainingOccupied'
  <2>1. CASE UNCHANGED <<slot, draining>>
    BY <2>1 DEF Open, DrainingOccupied
  <2>2. CASE Open(finalizer[n]) /\ CloseSlot(finalizer[n])
    <3>1. finalizer[n] \in Fd /\ slot[finalizer[n]] = n
      BY <2>2, <1>3, LifecycleAssumption DEF Open
    <3> QED
      BY <2>2, <3>1, CloseSlotOthers
  <2> QED
    BY <2>1, <2>2 DEF Collect
<1>5. Armed'
  BY <1>1, <1>2, <1>4 DEF Armed, Closed, ClosedPc, Open
<1>6. NewOwns'
  <2>1. ASSUME NEW u \in Thread, pc[u] = "new"
        PROVE  /\ frame[u].obj \in Sock
               /\ status'[frame[u].obj] = "raw"
               /\ Open(frame[u].fd)'
               /\ slot'[frame[u].fd] = frame[u].obj
    BY <2>1, <1>1, <1>2, <1>4 DEF NewOwns, Open
  <2> QED
    BY <2>1, <1>1 DEF NewOwns, Open
<1>7. CloseOwns' /\ Alive'
  BY <1>1, <1>2 DEF CloseOwns, Alive, InCallPc, InClosePc
<1>8. Exclusive' /\ Numbers'
  BY <1>1, <1>2 DEF Exclusive, Numbers
<1> QED
  BY <1>4, <1>5, <1>6, <1>7, <1>8

(* LwIP.socket.                                                            *)
LEMMA SocketCallStep ==
  ASSUME IInv, TypeOK', NEW t \in Thread, NEW n \in Sock, NEW fd \in Fd, SocketCall(t, n, fd)
  PROVE  IInv'
<1>1. SlotAfter(t) = slot /\ DrainingAfter(t) = draining
  BY DEF SocketCall, SlotAfter, DrainingAfter, LastOut, Users
<1> QED
  BY <1>1, TakeStep DEF SocketCall

(* accept() that returns a connection.                                     *)
LEMMA AcceptReturnStep ==
  ASSUME IInv, TypeOK', NEW t \in Thread, NEW n \in Sock, NEW fd \in Fd, AcceptReturn(t, n, fd)
  PROVE  IInv'
BY TakeStep DEF AcceptReturn

(* Socket.__init__ hands its descriptor over to an armed finalizer.        *)
LEMMA ConstructStep ==
  ASSUME IInv, TypeOK', NEW t \in Thread, Construct(t)
  PROVE  IInv'
<1> USE DEF IInv, TypeOK, Construct, BackToProgram, GoTo, Open
<1> DEFINE n == frame[t].obj
<1>1. n \in Sock /\ status[n] = "raw" /\ pc[t] = "new"
  BY DEF NewOwns
<1>2. Armed'
  BY DEF Armed, NewOwns, Closed, ClosedPc
<1>3. NewOwns'
  BY <1>1 DEF NewOwns, Exclusive, OwnerPc
<1>4. CloseOwns'
  BY <1>1 DEF CloseOwns, Alive, InClosePc, NoFrame
<1>5. Alive'
  BY <1>1 DEF Alive, InCallPc, InClosePc
<1>6. Exclusive'
  BY DEF Exclusive, OwnerPc, InClosePc
<1>7. Numbers'
  BY <1>1 DEF Numbers
<1> QED
  BY <1>2, <1>3, <1>4, <1>5, <1>6, <1>7 DEF DrainingOccupied

(***************************************************************************)
(* A step that leaves the table and the objects alone, and takes thread t  *)
(* to the program or into a method of a live object.                       *)
(***************************************************************************)
LEMMA QuietStep ==
  ASSUME IInv, TypeOK', NEW t \in Thread,
         pc[t] \in {"idle"} \cup InCallPc,
         UNCHANGED <<slot, draining, status, fileno, finalizer, held>>,
         \A u \in Thread \ {t} : pc'[u] = pc[u] /\ frame'[u] = frame[u],
         \/ pc'[t] = "idle"
         \/ /\ pc'[t] \in InCallPc
            /\ frame'[t].obj \in Sock
            /\ status[frame'[t].obj] = "live"
  PROVE  IInv'
<1> USE DEF IInv, InCallPc, InClosePc
<1>1. Armed'
  BY DEF Armed, Closed, ClosedPc, Open
<1>2. NewOwns'
  BY DEF NewOwns, Open
<1>3. CloseOwns' /\ Alive'
  BY DEF CloseOwns, Alive
<1>4. Exclusive'
  BY DEF Exclusive, OwnerPc
<1> QED
  BY <1>1, <1>2, <1>3, <1>4 DEF Numbers, DrainingOccupied

(* A method is entered on an object the program still holds.               *)
LEMMA CallBeginStep ==
  ASSUME IInv, TypeOK', NEW t \in Thread, NEW n \in Sock, NEW op \in Op, CallBegin(t, n, op)
  PROVE  IInv'
<1>1. frame'[t] = [NoFrame EXCEPT !.obj = n, !.fd = fileno[n], !.op = op]
  BY DEF IInv, TypeOK, CallBegin
<1>2. frame'[t].obj = n
  BY <1>1 DEF NoFrame
<1>3. status[n] = "live"
  BY DEF IInv, Numbers, CallBegin
<1> QED
  BY <1>2, <1>3, QuietStep DEF IInv, TypeOK, CallBegin, GoTo, InCallPc

(* A call enters lwIP, finds no connection or is refused.                  *)
LEMMA CallStepStep ==
  ASSUME IInv, TypeOK', NEW t \in Thread, CallStep(t)
  PROVE  IInv'
<1>1. CASE CallEnter(t)
  <2>1. pc'[t] = "native" /\ frame'[t].obj = frame[t].obj
    BY <1>1 DEF IInv, TypeOK, Frame, CallEnter, GoTo
  <2>2. frame[t].obj \in Sock /\ status[frame[t].obj] = "live"
    BY <1>1 DEF IInv, Alive, CallEnter, InCallPc
  <2> QED
    BY <1>1, <2>1, <2>2, QuietStep DEF IInv, TypeOK, CallEnter, GoTo, InCallPc
<1>2. CASE CallBadFd(t)
  BY <1>2, QuietStep DEF IInv, TypeOK, CallBadFd, BackToProgram, GoTo, InCallPc
<1>3. CASE CallRefused(t)
  BY <1>3, QuietStep DEF IInv, TypeOK, CallRefused, BackToProgram, GoTo, InCallPc
<1> QED
  BY <1>1, <1>2, <1>3 DEF CallStep

(* The last call out of a closed slot frees it; no open slot changes.       *)
LEMMA CallReturnStep ==
  ASSUME IInv, TypeOK', NEW t \in Thread, CallReturn(t)
  PROVE  IInv'
<1> USE DEF IInv, TypeOK, CallReturn
<1>1. \A g \in Fd : Open(g) => Open(g)' /\ slot'[g] = slot[g]
  BY DEF Open, SlotAfter, DrainingAfter, LastOut
<1>2. /\ pc' = [pc EXCEPT ![t] = "idle"]
      /\ \A u \in Thread : u # t => frame'[u] = frame[u]
  BY DEF BackToProgram, GoTo
<1>3. Armed'
  BY <1>1, <1>2 DEF Armed, Closed, ClosedPc, Open
<1>4. NewOwns'
  BY <1>1, <1>2 DEF NewOwns, Open
<1>5. CloseOwns' /\ Alive' /\ Exclusive' /\ Numbers'
  BY <1>2 DEF CloseOwns, Alive, Exclusive, Numbers, InCallPc, InClosePc, OwnerPc
<1>6. DrainingOccupied'
  BY DEF DrainingOccupied, SlotAfter, DrainingAfter, LastOut
<1> QED
  BY <1>3, <1>4, <1>5, <1>6

(* close() starts on an object no other close() is in.                     *)
LEMMA CloseBeginStep ==
  ASSUME IInv, TypeOK', NEW t \in Thread, NEW n \in Sock, CloseBegin(t, n)
  PROVE  IInv'
<1> USE DEF IInv, TypeOK, CloseBegin, GoTo
<1>1. status[n] = "live" /\ fileno[n] = finalizer[n] /\ fileno[n] \in Fd
  BY DEF Numbers
<1>2. frame'[t] = [NoFrame EXCEPT !.obj = n, !.fd = fileno[n]]
  OBVIOUS
<1>3. frame'[t].obj = n /\ frame'[t].fd = fileno[n]
  BY <1>2 DEF NoFrame
<1>4. Armed'
  BY DEF Armed, Closed, ClosedPc, Open
<1>5. NewOwns'
  BY DEF NewOwns, Open
<1>6. CloseOwns' /\ Alive'
  BY <1>1, <1>3 DEF CloseOwns, Alive, InCallPc, InClosePc
<1>7. Exclusive'
  BY <1>1, <1>3 DEF Exclusive, OwnerPc, InClosePc, SoleCloser, InClose, NewOwns
<1> QED
  BY <1>4, <1>5, <1>6, <1>7 DEF Numbers, DrainingOccupied

(* The steps of close() that do not touch the table.                        *)
LEMMA CloseRestStep ==
  ASSUME IInv, TypeOK', NEW t \in Thread, CloseRaises(t) \/ ForgetFd(t) \/ Detach(t)
  PROVE  IInv'
<1> USE DEF IInv, TypeOK, CloseRaises, ForgetFd, Detach, GoTo, BackToProgram
<1> DEFINE n == frame[t].obj
<1>1. /\ n \in Sock
      /\ status[n] = "live"
      /\ pc[t] \in InClosePc
      /\ UNCHANGED <<slot, draining, status, held>>
  BY DEF Alive, InClosePc
<1>2. \A u \in Thread : u # t => pc'[u] = pc[u] /\ frame'[u] = frame[u]
  OBVIOUS
<1>3. \A m \in Sock : m # n => fileno'[m] = fileno[m] /\ finalizer'[m] = finalizer[m]
  OBVIOUS
<1>4. \/ pc'[t] = "idle" /\ finalizer'[n] = NoFd /\ fileno'[n] = fileno[n] /\ pc[t] = "detach"
      \/ /\ pc'[t] \in ClosedPc /\ frame'[t] = frame[t] /\ finalizer'[n] = finalizer[n]
         /\ pc'[t] = "detach" => fileno'[n] = NoFd
         /\ pc'[t] = "closed" => fileno'[n] = fileno[n]
  BY <1>1 DEF ClosedPc
<1>5. Armed'
  BY <1>1, <1>2, <1>3, <1>4 DEF Armed, Closed, ClosedPc, Open
<1>6. NewOwns'
  BY <1>1, <1>2, <1>4 DEF NewOwns, ClosedPc, Open
<1>7. CloseOwns'
  <2>1. ASSUME NEW u \in Thread, u # t, pc[u] \in InClosePc
        PROVE  frame[u].obj # n /\ frame[u].obj \in Sock
    BY <2>1, <1>1 DEF Exclusive, OwnerPc, Alive
  <2>2. ASSUME NEW u \in Thread, u # t
        PROVE  (/\ pc[u] = "closing" => frame[u].fd \in Fd /\ frame[u].fd = finalizer[frame[u].obj]
                /\ pc[u] = "detach" => fileno[frame[u].obj] = NoFd)'
    BY <2>1, <2>2, <1>2, <1>3 DEF CloseOwns, InClosePc
  <2>3. (/\ pc[t] = "closing" => frame[t].fd \in Fd /\ frame[t].fd = finalizer[frame[t].obj]
         /\ pc[t] = "detach" => fileno[frame[t].obj] = NoFd)'
    BY <1>4 DEF ClosedPc
  <2> QED
    BY <2>2, <2>3 DEF CloseOwns
<1>8. Alive' /\ Exclusive'
  BY <1>1, <1>2, <1>4 DEF Alive, Exclusive, OwnerPc, ClosedPc, InCallPc, InClosePc
<1>9. Numbers'
  BY <1>1, <1>3, <1>4 DEF Numbers, CloseOwns, ClosedPc
<1> QED
  BY <1>1, <1>5, <1>6, <1>7, <1>8, <1>9 DEF DrainingOccupied

(* Every step of the system preserves the invariant.                        *)
LEMMA InvStep == IInv /\ [Next]_vars => IInv'
<1> SUFFICES ASSUME IInv, [Next]_vars PROVE IInv'
  OBVIOUS
<1>1. TypeOK'
  BY TypeStep DEF IInv
<1>2. CASE \E t \in Thread, n \in Sock, fd \in Fd : SocketCall(t, n, fd) \/ AcceptReturn(t, n, fd)
  BY <1>1, <1>2, SocketCallStep, AcceptReturnStep
<1>3. CASE \E t \in Thread : SocketFails(t)
  BY <1>1, <1>3, QuietStep DEF SocketFails
<1>4. CASE \E t \in Thread : Construct(t) \/ CallReturn(t)
  BY <1>1, <1>4, ConstructStep, CallReturnStep
<1>5. CASE \E t \in Thread, n \in Sock, op \in Op : CallBegin(t, n, op)
  BY <1>1, <1>5, CallBeginStep
<1>6. CASE \E t \in Thread : CallStep(t)
  BY <1>1, <1>6, CallStepStep
<1>7. CASE \E t \in Thread, n \in Sock : CloseBegin(t, n)
  BY <1>1, <1>7, CloseBeginStep
<1>8. CASE \E t \in Thread : CloseStep(t)
  BY <1>1, <1>8, CloseNativeStep, CloseRestStep DEF CloseStep
<1>9. CASE \E t \in Thread, n \in Sock : Collect(t, n)
  BY <1>1, <1>9, CollectStep
<1>10. CASE (\E n \in Sock : Drop(n)) \/ UNCHANGED vars
  <2>1. /\ UNCHANGED <<slot, draining, status, fileno, finalizer, pc, frame>>
        /\ held' \subseteq held
    BY <1>10 DEF Drop, vars
  <2>2. Armed' /\ NewOwns' /\ CloseOwns' /\ Alive'
    BY <2>1 DEF IInv, Armed, NewOwns, CloseOwns, Alive, Closed, Open
  <2>3. Exclusive' /\ Numbers' /\ DrainingOccupied'
    BY <2>1 DEF IInv, Exclusive, Numbers, DrainingOccupied
  <2> QED
    BY <1>1, <2>2, <2>3 DEF IInv
<1> QED
  BY <1>2, <1>3, <1>4, <1>5, <1>6, <1>7, <1>8, <1>9, <1>10 DEF Next

(* The invariant holds before any Socket exists.                           *)
LEMMA InvInit == Init => IInv
<1> SUFFICES ASSUME Init PROVE IInv
  OBVIOUS
<1>1. TypeOK
  BY DEF Init, TypeOK, Frame, NoFrame, Op, Pc, Status
<1>2. Armed /\ NewOwns /\ CloseOwns /\ Alive /\ Exclusive
  BY DEF Init, Armed, NewOwns, CloseOwns, Alive, Exclusive, OwnerPc, InCallPc, InClosePc
<1> QED
  BY <1>1, <1>2 DEF Init, IInv, Numbers, DrainingOccupied

(***************************************************************************)
(* The inductive invariant holds in every reachable state, whatever the    *)
(* overlap of calls with close(), failures of lwip_close and warnings.     *)
(***************************************************************************)
THEOREM Invariant == Spec => []IInv
BY InvInit, InvStep, PTL DEF Spec

(***************************************************************************)
(* The state of the Sockets, of the threads in their methods and of the    *)
(* descriptor table always has the types declared for it.                  *)
(***************************************************************************)
THEOREM TypeCorrect == Spec => []TypeOK
<1>1. IInv => TypeOK
  BY DEF IInv
<1> QED
  BY <1>1, Invariant, PTL

(***************************************************************************)
(* A Socket that nobody is closing keeps its descriptor, its slot and its  *)
(* connection, whatever other threads create, close or let go of, whether  *)
(* or not lwip_close fails, warnings are exceptions or calls overlap       *)
(* close().                                                                *)
(***************************************************************************)
THEOREM UnclosedSafe == Spec => []UnclosedKeepsConnection
<1>1. IInv => UnclosedKeepsConnection
  BY DEF IInv, Armed, UnclosedKeepsConnection, Closed, ClosedPc, InClose, InClosePc
<1> QED
  BY <1>1, Invariant, PTL

-----------------------------------------------------------------------------
(* Calls act on their own connection, when close() waits for the arguments. *)

(***************************************************************************)
(* The arguments of a call stay current and the call enters its own        *)
(* connection.                                                             *)
(***************************************************************************)
CallOwn(t) ==
  /\ pc[t] = "args" => ~InClose(frame[t].obj) /\ frame[t].fd = fileno[frame[t].obj]
  /\ pc[t] = "native" => frame[t].conn = frame[t].obj

CallInv == \A t \in Thread : CallOwn(t)

(* Every step keeps arguments current and calls on their own connection.   *)
LEMMA CallInvStep ==
  ASSUME "args" \notin Overlap, IInv, CallInv, [Next]_vars
  PROVE  CallInv'
<1> USE DEF CallInv, CallOwn
<1> SUFFICES ASSUME NEW u \in Thread
             PROVE  CallOwn(u)'
  OBVIOUS
<1> USE DEF IInv, TypeOK
<1>1. /\ pc[u] \in InCallPc => frame[u].obj \in Sock /\ status[frame[u].obj] = "live"
      /\ \A t \in Thread : pc[t] = "new" => status[frame[t].obj] = "raw"
  BY DEF Alive, NewOwns, InCallPc
<1>2. ASSUME NEW t \in Thread, NEW n \in Sock, NEW fd \in Fd,
             SocketCall(t, n, fd) \/ AcceptReturn(t, n, fd)
      PROVE  CallOwn(u)'
  <2>1. /\ pc'[t] \in {"idle", "new"}
        /\ \A v \in Thread : v # t => pc'[v] = pc[v] /\ frame'[v] = frame[v]
        /\ UNCHANGED fileno
    <3>1. TakeDescriptor(t, n, fd) /\ UNCHANGED fileno
      BY <1>2 DEF SocketCall, AcceptReturn
    <3> QED
      BY <3>1, TakeMoves
  <2> QED
    BY <2>1 DEF InClose, InClosePc
<1>3. CASE \E t \in Thread : \/ SocketFails(t) \/ Construct(t) \/ CallReturn(t)
                             \/ CallBadFd(t) \/ CallRefused(t)
  BY <1>1, <1>3
  DEF SocketFails, Construct, CallReturn, CallBadFd, CallRefused, BackToProgram, GoTo,
      InClose, InClosePc, InCallPc
<1>4. ASSUME NEW t \in Thread, NEW n \in Sock, NEW op \in Op, CallBegin(t, n, op)
      PROVE  CallOwn(u)'
  <2>1. frame'[t] = [NoFrame EXCEPT !.obj = n, !.fd = fileno[n], !.op = op]
    BY <1>4 DEF CallBegin
  <2>2. frame'[t].obj = n /\ frame'[t].fd = fileno[n]
    BY <2>1 DEF NoFrame
  <2> QED
    BY <1>4, <2>2 DEF CallBegin, GoTo, InClose, InClosePc
<1>5. ASSUME NEW t \in Thread, CallEnter(t)
      PROVE  CallOwn(u)'
  <2> DEFINE n == frame[t].obj
  <2>1. /\ n \in Sock /\ status[n] = "live" /\ ~InClose(n)
        /\ frame[t].fd \in Fd /\ frame[t].fd = fileno[n]
    BY <1>5 DEF CallEnter, Open, Alive, InCallPc
  <2>2. ~Closed(n) /\ fileno[n] = finalizer[n]
    BY <2>1, LifecycleAssumption DEF Closed, ClosedPc, InClose, InClosePc, Numbers
  <2>3. slot[frame[t].fd] = n
    BY <2>1, <2>2, LifecycleAssumption DEF Armed
  <2>4. frame'[t].conn = n /\ frame'[t].obj = n
    BY <1>5, <2>3 DEF CallEnter, Frame
  <2> QED
    BY <1>5, <2>4 DEF CallEnter, GoTo, InClose, InClosePc
<1>6. ASSUME NEW t \in Thread, NEW n \in Sock, CloseBegin(t, n)
      PROVE  CallOwn(u)'
  <2>1. frame'[t] = [NoFrame EXCEPT !.obj = n, !.fd = fileno[n]]
    BY <1>6 DEF CloseBegin
  <2>2. frame'[t].obj = n
    BY <2>1 DEF NoFrame
  <2>3. ~InCall(n, "args")
    BY <1>6 DEF CloseBegin, InCallPc
  <2> QED
    BY <1>6, <2>2, <2>3 DEF CloseBegin, GoTo, InClose, InCall, InClosePc
<1>7. CASE \E t \in Thread : CloseStep(t)
  <2>1. PICK t \in Thread : CloseStep(t)
    BY <1>7
  <2>2. pc[u] = "args" => frame[u].obj # frame[t].obj
    BY <2>1 DEF CloseStep, CloseNative, CloseRaises, ForgetFd, Detach, InClose, InClosePc
  <2>3. /\ pc[t] \in InClosePc /\ pc'[t] \in InClosePc \cup {"idle"}
        /\ pc'[t] \in InClosePc => frame'[t] = frame[t]
        /\ \A v \in Thread : v # t => pc'[v] = pc[v] /\ frame'[v] = frame[v]
        /\ \A m \in Sock : m # frame[t].obj => fileno'[m] = fileno[m]
    BY <2>1
    DEF CloseStep, CloseNative, CloseRaises, ForgetFd, Detach, BackToProgram, GoTo, InClosePc
  <2> QED
    BY <1>1, <2>2, <2>3 DEF InClose, InClosePc, InCallPc
<1>8. ASSUME NEW t \in Thread, NEW n \in Sock, Collect(t, n)
      PROVE  CallOwn(u)'
  BY <1>1, <1>8 DEF Collect, Unreachable, Busy, InClose, InCallPc
<1>9. CASE (\E n \in Sock : Drop(n)) \/ UNCHANGED vars
  BY <1>9 DEF Drop, vars, InClose
<1> QED
  BY <1>2, <1>3, <1>4, <1>5, <1>6, <1>7, <1>8, <1>9 DEF Next, CallStep

(***************************************************************************)
(* When the program does not close a Socket between the moment another     *)
(* thread has read its descriptor and the moment that thread is inside     *)
(* lwIP, every native call acts on the connection of its Socket, although  *)
(* close() may overlap the call itself.                                    *)
(***************************************************************************)
THEOREM CallsOwnConnection ==
  ASSUME "args" \notin Overlap
  PROVE  Spec => []NoCrossTalk
<1>1. Init => CallInv
  BY DEF Init, CallInv, CallOwn
<1>2. IInv /\ CallInv /\ [Next]_vars => CallInv'
  BY CallInvStep
<1>3. CallInv => NoCrossTalk
  BY DEF CallInv, CallOwn, NoCrossTalk
<1> QED
  BY <1>1, <1>2, <1>3, Invariant, PTL DEF Spec

-----------------------------------------------------------------------------
(* No slot is lost in silence, when lwip_close does not refuse.             *)

(* A thread that leaves its slot frees it or leaves it as it is.            *)
LEMMA LeaveSlot ==
  ASSUME TypeOK, NEW t \in Thread
  PROVE  \A g \in Fd : \/ SlotAfter(t)[g] = NoSock
                       \/ SlotAfter(t)[g] = slot[g] /\ (g \in draining => g \in DrainingAfter(t))
<1> TAKE g \in Fd
<1>1. CASE LastOut(t) /\ g = frame[t].fd
  BY <1>1 DEF TypeOK, SlotAfter
<1>2. CASE LastOut(t) /\ g # frame[t].fd
  BY <1>2 DEF TypeOK, SlotAfter, DrainingAfter
<1>3. CASE ~LastOut(t)
  BY <1>3 DEF SlotAfter, DrainingAfter
<1> QED
  BY <1>1, <1>2, <1>3

(***************************************************************************)
(* A step that frees slots and fills none, and leaves the objects, the     *)
(* constructors and the closers that concern the rest alone.               *)
(***************************************************************************)
LEMMA LeakQuiet ==
  ASSUME IInv, LeakInv,
         UNCHANGED <<status, finalizer, raised>>,
         \A fd \in Fd : \/ slot'[fd] = NoSock
                        \/ slot'[fd] = slot[fd] /\ (fd \in draining => fd \in draining'),
         \A u \in Thread : pc'[u] \in OwnerPc \ {"closing"} => pc'[u] = pc[u] /\ frame'[u] = frame[u]
  PROVE  LeakInv'
<1> USE DEF LeakInv
<1>1. LeakIsTold'
  BY DEF LeakIsTold, Accounted, Abandoned
<1>2. ClosedLeft'
  BY LifecycleAssumption DEF ClosedLeft, ClosedPc, OwnerPc, InClosePc, IInv, Alive
<1>3. NewOnce'
  BY LifecycleAssumption DEF NewOnce, OwnerPc, IInv, NewOwns
<1> QED
  BY <1>1, <1>2, <1>3

(* A new connection fills its slot, and only that one.                      *)
LEMMA TakeSlot ==
  ASSUME TypeOK, NEW t \in Thread, NEW n \in Sock, NEW fd \in Fd, Fresh(n),
         slot' = [SlotAfter(t) EXCEPT ![fd] = n], draining' = DrainingAfter(t)
  PROVE  \A g \in Fd :
           \/ g = fd /\ slot'[g] = n
           \/ g # fd /\ slot'[g] = NoSock
           \/ g # fd /\ slot'[g] = slot[g] /\ slot[g] # n /\ (g \in draining => g \in draining')
<1>1. SlotAfter(t) \in [Fd -> Sock \cup {NoSock}]
  BY SlotTypes
<1>2. \A g \in Fd : slot[g] # n
  BY DEF Fresh, Occupies
<1>3. \A g \in Fd : \/ SlotAfter(t)[g] = NoSock
                    \/ SlotAfter(t)[g] = slot[g] /\ (g \in draining => g \in DrainingAfter(t))
  BY LeaveSlot
<1> QED
  BY <1>1, <1>2, <1>3

(* A new connection is accounted for, or its loss is on record.            *)
LEMMA LeakTake ==
  ASSUME IInv, LeakInv, NEW t \in Thread, NEW n \in Sock, NEW fd \in Fd,
         TakeDescriptor(t, n, fd), Fresh(n), slot[fd] = NoSock,
         slot' = [SlotAfter(t) EXCEPT ![fd] = n], draining' = DrainingAfter(t),
         UNCHANGED finalizer, pc[t] \in {"idle", "native"}
  PROVE  LeakInv'
<1> USE DEF LeakInv, IInv, TypeOK
<1>1. \A g \in Fd : \/ g = fd /\ slot'[g] = n
                    \/ g # fd /\ slot'[g] = NoSock
                    \/ g # fd /\ slot'[g] = slot[g] /\ slot[g] # n /\ (g \in draining => g \in draining')
  <2> HIDE DEF IInv, TypeOK
  <2> QED
    BY TakeSlot DEF IInv
<1>2. \A u \in Thread : u # t /\ pc[u] \in OwnerPc => frame[u].obj # n /\ frame[u].obj \in Sock
  BY DEF NewOwns, Alive, OwnerPc, InClosePc, Fresh
<1>3. \A u \in Thread : u # t => pc'[u] = pc[u] /\ frame'[u] = frame[u]
  BY TakeMoves
<1>4. /\ \A m \in Sock : m # n => status'[m] = status[m] /\ (m \in raised' <=> m \in raised)
      /\ status'[n] = "raw" \/ n \in raised'
  BY TakeMoves
<1>5. LeakIsTold'
  BY <1>1, <1>4 DEF LeakIsTold, Accounted, Abandoned
<1>6. pc'[t] = "idle" \/ (pc'[t] = "new" /\ frame'[t].obj = n /\ frame'[t].fd = fd)
  <2>1. CASE Kept(t, n, fd)
    <3>1. frame'[t] = [NoFrame EXCEPT !.obj = n, !.fd = fd]
      BY <2>1 DEF Kept
    <3> QED
      BY <2>1, <3>1 DEF Kept, NoFrame
  <2>2. CASE Lost(t, n)
    BY <2>2 DEF Lost, BackToProgram, GoTo
  <2> QED
    BY <2>1, <2>2, TakeCases
<1>7. ClosedLeft'
  BY <1>1, <1>2, <1>3, <1>4, <1>6, LifecycleAssumption
  DEF ClosedLeft, ClosedPc, OwnerPc, InClosePc
<1>8. NewOnce'
  BY <1>1, <1>2, <1>3, <1>6, LifecycleAssumption DEF NewOnce, OwnerPc
<1> QED
  BY <1>5, <1>7, <1>8

(* What lwip_close leaves of the slot it closed is a drain.                 *)
LEMMA CloseSlotLeft ==
  ASSUME TypeOK, NEW fd \in Fd, CloseSlot(fd)
  PROVE  /\ slot'[fd] = NoSock \/ fd \in draining'
         /\ \A g \in Fd : \/ slot'[g] = NoSock
                          \/ slot'[g] = slot[g] /\ (g \in draining => g \in draining')
BY DEF TypeOK, CloseSlot

(* An armed finalizer accounts for the slot its constructor held.          *)
LEMMA LeakConstruct ==
  ASSUME IInv, LeakInv, NEW t \in Thread, Construct(t)
  PROVE  LeakInv'
<1> USE DEF LeakInv, IInv, TypeOK
<1> DEFINE n == frame[t].obj
<1>1. /\ n \in Sock /\ status[n] = "raw" /\ pc[t] = "new"
      /\ \A fd \in Fd : slot[fd] = n => fd = frame[t].fd
  BY DEF Construct, NewOwns, NewOnce
<1>2. /\ \A m \in Sock : m # n => status'[m] = status[m] /\ finalizer'[m] = finalizer[m]
      /\ status'[n] = "live" /\ finalizer'[n] = frame[t].fd
      /\ UNCHANGED <<slot, draining, raised>>
  BY <1>1 DEF Construct
<1>3. LeakIsTold'
  BY <1>1, <1>2 DEF LeakIsTold, Accounted, Abandoned
<1>4. /\ pc'[t] = "idle"
      /\ \A u \in Thread : u # t => pc'[u] = pc[u] /\ frame'[u] = frame[u]
  BY DEF Construct, BackToProgram, GoTo
<1>5. ClosedLeft' /\ NewOnce'
  BY <1>2, <1>4 DEF ClosedLeft, NewOnce, ClosedPc
<1> QED
  BY <1>3, <1>5

(* What lwip_close leaves of the slot is a drain.                          *)
LEMMA LeakCloseNative ==
  ASSUME IInv, LeakInv, NEW t \in Thread, CloseNative(t)
  PROVE  LeakInv'
<1> USE DEF LeakInv, IInv, TypeOK
<1> DEFINE n == frame[t].obj
<1>1. /\ n \in Sock /\ status[n] = "live" /\ pc[t] = "closing"
      /\ frame[t].fd \in Fd /\ frame[t].fd = finalizer[n]
  BY DEF CloseNative, Alive, CloseOwns, InClosePc
<1>2. /\ slot'[frame[t].fd] = NoSock \/ frame[t].fd \in draining'
      /\ \A g \in Fd : \/ slot'[g] = NoSock
                       \/ slot'[g] = slot[g] /\ (g \in draining => g \in draining')
  BY <1>1, CloseSlotLeft DEF CloseNative
<1>3. /\ UNCHANGED <<status, finalizer, frame>>
      /\ raised \subseteq raised'
      /\ pc' = [pc EXCEPT ![t] = "closed"]
  BY DEF CloseNative, GoTo
<1>4. LeakIsTold'
  BY <1>2, <1>3 DEF LeakIsTold, Accounted, Abandoned
<1>5. \A fd \in Fd : slot[fd] = n => fd = frame[t].fd \/ fd \in draining \/ n \in raised
  BY <1>1, LifecycleAssumption DEF LeakIsTold, Accounted, Abandoned
<1>6. ASSUME NEW u \in Thread, pc'[u] \in ClosedPc, NEW fd \in Fd, slot'[fd] = frame[u].obj
      PROVE  fd \in draining' \/ slot'[fd] \in raised'
  <2>1. slot'[fd] # NoSock /\ slot'[fd] = slot[fd] /\ (fd \in draining => fd \in draining')
    BY <1>1, <1>2, <1>3, <1>6, LifecycleAssumption DEF Alive, ClosedPc, InClosePc
  <2>2. CASE u = t
    BY <2>1, <2>2, <1>1, <1>2, <1>3, <1>5, <1>6
  <2>3. CASE u # t
    BY <2>1, <2>3, <1>3, <1>6 DEF ClosedLeft
  <2> QED
    BY <2>2, <2>3
<1>7. ClosedLeft'
  BY <1>3, <1>6 DEF ClosedLeft
<1>8. NewOnce'
  BY <1>2, <1>3, LifecycleAssumption DEF NewOnce, NewOwns
<1> QED
  BY <1>4, <1>7, <1>8

(* A close() that raises puts its object on record.                        *)
LEMMA LeakCloseRaises ==
  ASSUME IInv, LeakInv, NEW t \in Thread, CloseRaises(t)
  PROVE  LeakInv'
<1> USE DEF LeakInv, IInv, TypeOK
<1>1. /\ UNCHANGED <<slot, draining, status, finalizer, frame>>
      /\ raised' = raised \cup {frame[t].obj}
      /\ pc' = [pc EXCEPT ![t] = "closed"]
  BY DEF CloseRaises, GoTo
<1> QED
  BY <1>1 DEF LeakIsTold, Accounted, Abandoned, ClosedLeft, NewOnce, ClosedPc

(* A detached finalizer abandons a drain or a loss on record.              *)
LEMMA LeakDetach ==
  ASSUME IInv, LeakInv, NEW t \in Thread, Detach(t)
  PROVE  LeakInv'
<1> USE DEF LeakInv, IInv, TypeOK
<1> DEFINE n == frame[t].obj
<1>1. /\ n \in Sock
      /\ \A fd \in Fd : slot[fd] = n => fd \in draining \/ n \in raised
  BY DEF Detach, Alive, InClosePc, ClosedLeft, ClosedPc
<1>2. /\ UNCHANGED <<slot, draining, status, raised>>
      /\ \A m \in Sock : m # n => finalizer'[m] = finalizer[m]
      /\ pc' = [pc EXCEPT ![t] = "idle"]
      /\ \A u \in Thread : u # t => frame'[u] = frame[u]
  BY DEF Detach, BackToProgram, GoTo
<1>3. LeakIsTold'
  BY <1>1, <1>2 DEF LeakIsTold, Accounted, Abandoned
<1>4. ClosedLeft' /\ NewOnce'
  BY <1>2 DEF ClosedLeft, NewOnce, ClosedPc
<1> QED
  BY <1>3, <1>4

(* A finalizer leaves no slot of its object but a drain, if not refused.   *)
LEMMA LeakCollect ==
  ASSUME IInv, LeakInv, NEW t \in Thread, NEW n \in Sock, Collect(t, n)
  PROVE  LeakInv'
<1> USE DEF LeakInv, IInv, TypeOK
<1>1. /\ status[n] = "live" /\ ~Closed(n)
      /\ UNCHANGED <<pc, frame, raised>>
      /\ status'[n] = "none"
      /\ \A m \in Sock : m # n => status'[m] = status[m] /\ finalizer'[m] = finalizer[m]
      /\ \A u \in Thread : pc[u] # "idle" => frame[u].obj # n
  BY DEF Collect, Unreachable, Busy, Closed, ClosedPc
<1>2. finalizer[n] # NoFd => Open(finalizer[n])
  BY <1>1 DEF Armed
<1>3. \A g \in Fd : \/ slot'[g] = NoSock
                    \/ /\ slot'[g] = slot[g] /\ (g \in draining => g \in draining')
                       /\ g # finalizer[n] \/ g \in draining' \/ CloseMayFail
  <2>1. CASE finalizer[n] = NoFd /\ UNCHANGED <<slot, draining>>
    BY <2>1, LifecycleAssumption
  <2>2. CASE Open(finalizer[n]) /\ CloseSlot(finalizer[n])
    BY <2>2, CloseSlotLeft DEF Open
  <2>3. CASE CloseMayFail /\ UNCHANGED <<slot, draining>>
    BY <2>3
  <2> QED
    BY <2>1, <2>2, <2>3, <1>2 DEF Collect
<1>4. \A g \in Fd : slot[g] = n => g = finalizer[n] \/ g \in draining \/ n \in raised
  BY <1>1, LifecycleAssumption DEF LeakIsTold, Accounted, Abandoned
<1>5. LeakIsTold'
  BY <1>1, <1>3, <1>4 DEF LeakIsTold, Accounted, Abandoned
<1>6. ClosedLeft' /\ NewOnce'
  BY <1>1, <1>3, LifecycleAssumption
  DEF ClosedLeft, NewOnce, ClosedPc, Alive, NewOwns, InClosePc
<1> QED
  BY <1>5, <1>6

(* Every step keeps the slots accounted for.                               *)
LEMMA LeakStep ==
  ASSUME IInv, LeakInv, [Next]_vars
  PROVE  LeakInv'
<1> USE DEF IInv, TypeOK
<1>1. CASE \E t \in Thread, n \in Sock, fd \in Fd : SocketCall(t, n, fd) \/ AcceptReturn(t, n, fd)
  <2>1. PICK t \in Thread, n \in Sock, fd \in Fd : SocketCall(t, n, fd) \/ AcceptReturn(t, n, fd)
    BY <1>1
  <2>2. CASE SocketCall(t, n, fd)
    <3>1. SlotAfter(t) = slot /\ DrainingAfter(t) = draining
      BY <2>2 DEF SocketCall, SlotAfter, DrainingAfter, LastOut, Users
    <3> QED
      BY <2>2, <3>1, LeakTake DEF SocketCall
  <2>3. CASE AcceptReturn(t, n, fd)
    BY <2>3, LeakTake DEF AcceptReturn
  <2> QED
    BY <2>1, <2>2, <2>3
<1>2. CASE \E t \in Thread : SocketFails(t) \/ CallStep(t)
  <2>1. /\ UNCHANGED <<slot, draining, status, finalizer, raised>>
        /\ \A u \in Thread :
             pc'[u] \in OwnerPc \ {"closing"} => pc'[u] = pc[u] /\ frame'[u] = frame[u]
    BY <1>2
    DEF SocketFails, CallStep, CallEnter, CallBadFd, CallRefused, BackToProgram, GoTo, OwnerPc,
        InClosePc
  <2> QED
    BY <2>1, LeakQuiet
<1>3. CASE \E t \in Thread : CallReturn(t)
  <2>1. PICK t \in Thread : CallReturn(t)
    BY <1>3
  <2>2. \A fd \in Fd : \/ slot'[fd] = NoSock
                       \/ slot'[fd] = slot[fd] /\ (fd \in draining => fd \in draining')
    <3>1. slot' = SlotAfter(t) /\ draining' = DrainingAfter(t)
      BY <2>1 DEF CallReturn
    <3>2. \A fd \in Fd : \/ SlotAfter(t)[fd] = NoSock
                         \/ SlotAfter(t)[fd] = slot[fd] /\ (fd \in draining => fd \in DrainingAfter(t))
      <4> HIDE DEF IInv, TypeOK
      <4> QED
        BY LeaveSlot DEF IInv
    <3> QED
      BY <3>1, <3>2
  <2>3. \A u \in Thread :
          pc'[u] \in OwnerPc \ {"closing"} => pc'[u] = pc[u] /\ frame'[u] = frame[u]
    BY <2>1 DEF CallReturn, BackToProgram, GoTo, OwnerPc, InClosePc
  <2> QED
    BY <2>1, <2>2, <2>3, LeakQuiet DEF CallReturn
<1>4. CASE \E t \in Thread, n \in Sock : (\E op \in Op : CallBegin(t, n, op)) \/ CloseBegin(t, n)
  <2>1. /\ UNCHANGED <<slot, draining, status, finalizer, raised>>
        /\ \A u \in Thread :
             pc'[u] \in OwnerPc \ {"closing"} => pc'[u] = pc[u] /\ frame'[u] = frame[u]
    BY <1>4 DEF CallBegin, CloseBegin, GoTo, OwnerPc, InClosePc
  <2> QED
    BY <2>1, LeakQuiet
<1>5. CASE \E t \in Thread : Construct(t)
  BY <1>5, LeakConstruct
<1>6. CASE \E t \in Thread : CloseNative(t) \/ CloseRaises(t) \/ Detach(t)
  BY <1>6, LeakCloseNative, LeakCloseRaises, LeakDetach
<1>7. CASE \E t \in Thread : ForgetFd(t)
  <2>1. /\ UNCHANGED <<slot, draining, status, finalizer, raised, frame>>
        /\ \A u \in Thread : pc'[u] \in ClosedPc <=> pc[u] \in ClosedPc
        /\ \A u \in Thread : pc'[u] = "new" <=> pc[u] = "new"
    BY <1>7 DEF ForgetFd, GoTo, ClosedPc
  <2> QED
    BY <2>1 DEF LeakInv, LeakIsTold, Accounted, Abandoned, ClosedLeft, NewOnce
<1>8. CASE \E t \in Thread, n \in Sock : Collect(t, n)
  BY <1>8, LeakCollect
<1>9. CASE (\E n \in Sock : Drop(n)) \/ UNCHANGED vars
  BY <1>9, LeakQuiet DEF Drop, vars
<1> QED
  BY <1>1, <1>2, <1>3, <1>4, <1>5, <1>6, <1>7, <1>8, <1>9 DEF Next, CloseStep

LEMMA LeakInit == Init => LeakInv
BY DEF Init, LeakInv, LeakIsTold, ClosedLeft, NewOnce, ClosedPc

(* Whatever lwip_close does, a slot is lost by a call that raised or by the *)
(* finalizer of a Socket that is gone.                                      *)
LEMMA LeaksAreTold == Spec => []LeakInv
<1>1. IInv /\ LeakInv /\ [Next]_vars => LeakInv'
  BY LeakStep
<1> QED
  BY <1>1, LeakInit, Invariant, PTL DEF Spec

(***************************************************************************)
(* While lwip_close does not refuse, every occupied slot has something     *)
(* left that will close it, or the socket(), accept() or close() that lost *)
(* it has raised.                                                          *)
(***************************************************************************)
THEOREM LeaksAreRaised ==
  ASSUME ~CloseMayFail
  PROVE  Spec => []LeakIsRaised
<1>1. LeakInv => LeakIsRaised
  BY DEF LeakInv, LeakIsTold, LeakIsRaised, Abandoned
<1> QED
  BY <1>1, LeaksAreTold, PTL

(* Without failing lwip_close and without warnings turned into exceptions,  *)
(* no creation and no close() raises.                                       *)
LEMMA RaisedStep ==
  ASSUME ~CloseMayFail, ~WarningsAreErrors, IInv, NothingRaised, [Next]_vars
  PROVE  NothingRaised'
<1> USE DEF NothingRaised
<1>1. ASSUME NEW t \in Thread, NEW n \in Sock, NEW fd \in Fd, TakeDescriptor(t, n, fd)
      PROVE  raised' = {}
  BY <1>1 DEF TakeDescriptor, Outcome, ErrnoSet
<1>2. ASSUME NEW t \in Thread, CloseRaises(t)
      PROVE  FALSE
  <2>1. /\ frame[t].obj \in Sock /\ status[frame[t].obj] = "live"
        /\ frame[t].fd \in Fd /\ frame[t].fd = finalizer[frame[t].obj]
        /\ pc[t] = "closing"
    BY <1>2 DEF CloseRaises, IInv, Alive, CloseOwns, InClosePc
  <2>2. ~Closed(frame[t].obj)
    BY <2>1 DEF IInv, Closed, ClosedPc, Exclusive, OwnerPc, InClosePc
  <2>3. Open(frame[t].fd)
    BY <2>1, <2>2, LifecycleAssumption DEF IInv, Armed
  <2> QED
    BY <1>2, <2>3 DEF CloseRaises, RefusesCall
<1>3. ASSUME NEW t \in Thread, CloseNative(t)
      PROVE  raised' = {}
  BY <1>3 DEF CloseNative, Outcome, ErrnoSet
<1>4. CASE \E t \in Thread, n \in Sock, fd \in Fd : SocketCall(t, n, fd) \/ AcceptReturn(t, n, fd)
  BY <1>1, <1>4 DEF SocketCall, AcceptReturn
<1>5. CASE \E t \in Thread : SocketFails(t) \/ Construct(t) \/ CallStep(t) \/ CallReturn(t)
  BY <1>5 DEF SocketFails, Construct, CallStep, CallEnter, CallBadFd, CallRefused, CallReturn
<1>6. CASE \E t \in Thread : CloseStep(t)
  BY <1>2, <1>3, <1>6 DEF CloseStep, ForgetFd, Detach
<1>7. CASE \E t \in Thread, n \in Sock :
             (\E op \in Op : CallBegin(t, n, op)) \/ CloseBegin(t, n) \/ Collect(t, n)
  BY <1>7 DEF CallBegin, CloseBegin, Collect
<1>8. CASE (\E n \in Sock : Drop(n)) \/ UNCHANGED vars
  BY <1>8 DEF Drop, vars
<1> QED
  BY <1>4, <1>5, <1>6, <1>7, <1>8 DEF Next

(***************************************************************************)
(* While lwip_close does not refuse and warnings are only printed, no slot *)
(* of the table is lost: a constructor, a finalizer or a drain accounts    *)
(* for every one of them, at every step.                                   *)
(***************************************************************************)
THEOREM NothingLeaks ==
  ASSUME ~CloseMayFail, ~WarningsAreErrors
  PROVE  Spec => []NoLeak
<1>1. Init => NothingRaised
  BY DEF Init, NothingRaised
<1>2. IInv /\ NothingRaised /\ [Next]_vars => NothingRaised'
  BY RaisedStep
<1>3. LeakIsRaised /\ NothingRaised => NoLeak
  BY DEF LeakIsRaised, NothingRaised, NoLeak
<1> QED
  BY <1>1, <1>2, <1>3, Invariant, LeaksAreRaised, PTL DEF Spec

-----------------------------------------------------------------------------
(* Who frees a slot: the safety half of CloseReleases.                      *)

(* A slot that drains has a thread inside that will leave it.               *)
DrainHasUser == \A fd \in draining : Users(fd) # {}

(* A descriptor without object is with a constructor.                       *)
RawBuilt == \A n \in Sock : status[n] = "raw" => InCall(n, "new")

HeldInv == DrainHasUser /\ RawBuilt

(* A constructor is about to store the descriptor of this very slot.        *)
Building(fd) == \E t \in Thread : pc[t] = "new" /\ frame[t].fd = fd /\ frame[t].obj = slot[fd]

(* The slot is that of a Socket with an armed finalizer.                    *)
Guarded(fd) == status[slot[fd]] = "live" /\ finalizer[slot[fd]] = fd

EverySlotHeld ==
  \A fd \in Fd : slot[fd] # NoSock
    => \/ fd \in draining /\ Users(fd) # {}
       \/ Building(fd)
       \/ Guarded(fd)
       \/ slot[fd] \in raised
       \/ Abandoned(fd)

(* No thread is in the middle of anything.                                  *)
AtRest == \A t \in Thread : pc[t] = "idle"

RestIsTidy ==
  AtRest => /\ draining = {}
            /\ \A fd \in Fd : slot[fd] # NoSock
                 => Guarded(fd) \/ slot[fd] \in raised \/ Abandoned(fd)

(* Nothing happens to the threads inside slots or to the slots that drain.  *)
LEMMA DrainsStay ==
  ASSUME DrainHasUser, draining' \subseteq draining,
         \A t \in Thread : pc[t] = "native" => pc'[t] = "native" /\ frame'[t].fd = frame[t].fd
  PROVE  DrainHasUser'
BY DEF DrainHasUser, Users

(* The last thread to leave a draining slot ends the drain.                 *)
LEMMA LeaveDrains ==
  ASSUME DrainHasUser, NEW t \in Thread, draining' = DrainingAfter(t),
         \A u \in Thread : u # t => pc'[u] = pc[u] /\ frame'[u] = frame[u]
  PROVE  DrainHasUser'
<1> SUFFICES ASSUME NEW fd \in draining'
             PROVE  \E u \in Thread : u # t /\ pc[u] = "native" /\ frame[u].fd = fd
  BY DEF DrainHasUser, Users
<1>1. fd \in draining /\ (LastOut(t) => fd # frame[t].fd)
  BY DEF DrainingAfter
<1>2. PICK u \in Thread : u \in Users(fd)
  BY <1>1 DEF DrainHasUser, Users
<1>3. CASE u # t
  BY <1>2, <1>3 DEF Users
<1>4. CASE u = t
  <2>1. frame[t].fd = fd /\ Users(fd) # {t}
    BY <1>1, <1>2, <1>4 DEF Users, LastOut
  <2> QED
    BY <1>2, <1>4, <2>1 DEF Users
<1> QED
  BY <1>3, <1>4

(* A slot starts to drain only with a thread inside.                        *)
LEMMA CloseDrains ==
  ASSUME DrainHasUser, NEW fd \in Fd, CloseSlot(fd),
         \A t \in Thread : pc[t] = "native" => pc'[t] = "native" /\ frame'[t] = frame[t]
  PROVE  DrainHasUser'
<1>1. \A f \in draining' : Users(f) # {}
  BY DEF CloseSlot, DrainHasUser
<1> QED
  BY <1>1 DEF DrainHasUser, Users

LEMMA DrainStep ==
  ASSUME TypeOK, DrainHasUser, [Next]_vars
  PROVE  DrainHasUser'
<1>1. ASSUME NEW t \in Thread, NEW n \in Sock, NEW fd \in Fd, SocketCall(t, n, fd)
      PROVE  DrainHasUser'
  <2>1. /\ pc[t] = "idle" /\ draining' = draining
        /\ \A u \in Thread : u # t => pc'[u] = pc[u] /\ frame'[u] = frame[u]
    BY <1>1, TakeMoves DEF SocketCall, TypeOK
  <2> QED
    BY <2>1, DrainsStay
<1>2. ASSUME NEW t \in Thread, NEW n \in Sock, NEW fd \in Fd, AcceptReturn(t, n, fd)
      PROVE  DrainHasUser'
  <2>1. /\ draining' = DrainingAfter(t)
        /\ \A u \in Thread : u # t => pc'[u] = pc[u] /\ frame'[u] = frame[u]
    BY <1>2, TakeMoves DEF AcceptReturn, TypeOK
  <2> QED
    BY <2>1, LeaveDrains
<1>3. ASSUME NEW t \in Thread, CallReturn(t)
      PROVE  DrainHasUser'
  <2>1. /\ draining' = DrainingAfter(t)
        /\ \A u \in Thread : u # t => pc'[u] = pc[u] /\ frame'[u] = frame[u]
    BY <1>3 DEF CallReturn, BackToProgram, GoTo, TypeOK
  <2> QED
    BY <2>1, LeaveDrains
<1>4. ASSUME NEW t \in Thread, SocketFails(t) \/ Construct(t) \/ CallBadFd(t) \/ CallRefused(t)
      PROVE  DrainHasUser'
  <2>1. /\ draining' = draining
        /\ \A u \in Thread : pc[u] = "native" => pc'[u] = "native" /\ frame'[u] = frame[u]
    BY <1>4 DEF SocketFails, Construct, CallBadFd, CallRefused, BackToProgram, GoTo, TypeOK
  <2> QED
    BY <2>1, DrainsStay
<1>5. ASSUME NEW t \in Thread, CallEnter(t)
      PROVE  DrainHasUser'
  <2>1. /\ draining' = draining
        /\ \A u \in Thread : pc[u] = "native" => pc'[u] = "native" /\ frame'[u] = frame[u]
    BY <1>5 DEF CallEnter, GoTo, TypeOK
  <2> QED
    BY <2>1, DrainsStay
<1>6. ASSUME NEW t \in Thread, CloseNative(t)
      PROVE  DrainHasUser'
  <2>1. /\ frame[t].fd \in Fd /\ CloseSlot(frame[t].fd)
        /\ \A u \in Thread : pc[u] = "native" => pc'[u] = "native" /\ frame'[u] = frame[u]
    BY <1>6 DEF CloseNative, Open, GoTo, TypeOK
  <2> QED
    BY <2>1, CloseDrains
<1>7. ASSUME NEW t \in Thread, CloseRaises(t) \/ ForgetFd(t) \/ Detach(t)
      PROVE  DrainHasUser'
  <2>1. /\ draining' = draining
        /\ \A u \in Thread : pc[u] = "native" => pc'[u] = "native" /\ frame'[u] = frame[u]
    BY <1>7 DEF CloseRaises, ForgetFd, Detach, BackToProgram, GoTo, TypeOK
  <2> QED
    BY <2>1, DrainsStay
<1>8. ASSUME NEW t \in Thread, NEW n \in Sock, (\E op \in Op : CallBegin(t, n, op)) \/ CloseBegin(t, n)
      PROVE  DrainHasUser'
  <2>1. /\ draining' = draining
        /\ \A u \in Thread : pc[u] = "native" => pc'[u] = "native" /\ frame'[u] = frame[u]
    BY <1>8 DEF CallBegin, CloseBegin, GoTo, TypeOK
  <2> QED
    BY <2>1, DrainsStay
<1>9. ASSUME NEW t \in Thread, NEW n \in Sock, Collect(t, n)
      PROVE  DrainHasUser'
  <2>1. pc' = pc /\ frame' = frame
    BY <1>9 DEF Collect
  <2>2. CASE draining' = draining
    BY <2>1, <2>2, DrainsStay
  <2>3. CASE Open(finalizer[n]) /\ CloseSlot(finalizer[n])
    BY <2>1, <2>3, CloseDrains DEF Open
  <2> QED
    BY <1>9, <2>2, <2>3 DEF Collect
<1>10. CASE (\E n \in Sock : Drop(n)) \/ UNCHANGED vars
  BY <1>10, DrainsStay DEF Drop, vars
<1> QED
  BY <1>1, <1>2, <1>3, <1>4, <1>5, <1>6, <1>7, <1>8, <1>9, <1>10 DEF Next, CallStep, CloseStep

(* No constructor is left and no descriptor is new.                         *)
LEMMA RawStays ==
  ASSUME RawBuilt, \A n \in Sock : status'[n] = "raw" => status[n] = "raw",
         \A t \in Thread : pc[t] = "new" => pc'[t] = "new" /\ frame'[t].obj = frame[t].obj
  PROVE  RawBuilt'
BY DEF RawBuilt, InCall

LEMMA RawStep ==
  ASSUME TypeOK, RawBuilt, [Next]_vars
  PROVE  RawBuilt'
<1>1. ASSUME NEW t \in Thread, NEW n \in Sock, NEW fd \in Fd, TakeDescriptor(t, n, fd),
             pc[t] # "new", status[n] = "none"
      PROVE  RawBuilt'
  <2>1. \A u \in Thread : u # t => pc'[u] = pc[u] /\ frame'[u] = frame[u]
    BY <1>1, TakeMoves DEF TypeOK
  <2>2. CASE Kept(t, n, fd)
    <3>1. /\ pc'[t] = "new" /\ frame'[t] = [NoFrame EXCEPT !.obj = n, !.fd = fd]
          /\ \A m \in Sock : m # n => status'[m] = status[m]
      BY <2>2 DEF Kept, TypeOK
    <3>2. frame'[t].obj = n
      BY <3>1 DEF NoFrame
    <3> SUFFICES ASSUME NEW m \in Sock, status'[m] = "raw"
                 PROVE  \E u \in Thread : pc'[u] = "new" /\ frame'[u].obj = m
      BY DEF RawBuilt, InCall
    <3>3. CASE m = n
      BY <3>1, <3>2, <3>3
    <3>4. CASE m # n
      <4>1. PICK u \in Thread : pc[u] = "new" /\ frame[u].obj = m
        BY <3>1, <3>4 DEF RawBuilt, InCall
      <4> QED
        BY <1>1, <2>1, <4>1
    <3> QED
      BY <3>3, <3>4
  <2>3. CASE Lost(t, n)
    BY <1>1, <2>1, <2>3, RawStays DEF Lost
  <2> QED
    BY <1>1, <2>2, <2>3, TakeCases
<1>2. ASSUME NEW t \in Thread, NEW n \in Sock, NEW fd \in Fd,
             SocketCall(t, n, fd) \/ AcceptReturn(t, n, fd)
      PROVE  RawBuilt'
  BY <1>1, <1>2 DEF SocketCall, AcceptReturn, Fresh
<1>3. ASSUME NEW t \in Thread, Construct(t)
      PROVE  RawBuilt'
  <2>1. /\ \A m \in Sock : m # frame[t].obj => status'[m] = status[m]
        /\ frame[t].obj \in Sock => status'[frame[t].obj] = "live"
        /\ \A u \in Thread : u # t => pc'[u] = pc[u] /\ frame'[u] = frame[u]
    BY <1>3 DEF Construct, BackToProgram, GoTo, TypeOK
  <2> QED
    BY <2>1 DEF RawBuilt, InCall
<1>4. ASSUME NEW t \in Thread, SocketFails(t) \/ CallReturn(t) \/ CallStep(t)
      PROVE  RawBuilt'
  <2>1. /\ status' = status
        /\ \A u \in Thread : pc[u] = "new" => pc'[u] = "new" /\ frame'[u] = frame[u]
    BY <1>4 DEF SocketFails, CallReturn, CallStep, CallEnter, CallBadFd, CallRefused,
                BackToProgram, GoTo, TypeOK
  <2> QED
    BY <2>1, RawStays
<1>5. ASSUME NEW t \in Thread, CloseStep(t)
      PROVE  RawBuilt'
  <2>1. /\ status' = status
        /\ \A u \in Thread : pc[u] = "new" => pc'[u] = "new" /\ frame'[u] = frame[u]
    BY <1>5 DEF CloseStep, CloseNative, CloseRaises, ForgetFd, Detach, BackToProgram, GoTo, TypeOK
  <2> QED
    BY <2>1, RawStays
<1>6. ASSUME NEW t \in Thread, NEW n \in Sock, (\E op \in Op : CallBegin(t, n, op)) \/ CloseBegin(t, n)
      PROVE  RawBuilt'
  <2>1. /\ status' = status
        /\ \A u \in Thread : pc[u] = "new" => pc'[u] = "new" /\ frame'[u] = frame[u]
    BY <1>6 DEF CallBegin, CloseBegin, GoTo, TypeOK
  <2> QED
    BY <2>1, RawStays
<1>7. ASSUME NEW t \in Thread, NEW n \in Sock, Collect(t, n)
      PROVE  RawBuilt'
  <2>1. /\ pc' = pc /\ frame' = frame
        /\ \A m \in Sock : status'[m] = "raw" => status[m] = "raw"
    BY <1>7 DEF Collect, TypeOK
  <2> QED
    BY <2>1, RawStays
<1>8. CASE (\E n \in Sock : Drop(n)) \/ UNCHANGED vars
  BY <1>8, RawStays DEF Drop, vars
<1> QED
  BY <1>2, <1>3, <1>4, <1>5, <1>6, <1>7, <1>8 DEF Next

(***************************************************************************)
(* A slot that close() or a finalizer found in use drains only as long as  *)
(* a thread is inside, whose return frees it; and a descriptor that has no *)
(* Socket yet is in the hands of its constructor.  This needs no           *)
(* assumption on what overlaps or fails.                                   *)
(***************************************************************************)
THEOREM DrainsEnd == Spec => []HeldInv
<1>1. Init => HeldInv
  BY DEF Init, HeldInv, DrainHasUser, RawBuilt
<1>2. TypeOK /\ HeldInv /\ [Next]_vars => HeldInv'
  BY DrainStep, RawStep DEF HeldInv
<1> QED
  BY <1>1, <1>2, TypeCorrect, PTL DEF Spec

(***************************************************************************)
(* What CloseReleases rests on: every slot in the table is held by a       *)
(* thread inside it, by a constructor or by an armed finalizer, each of    *)
(* which goes on to free it or to hand it on; or the call that lost it has *)
(* raised, or lwip_close refused its finalizer.                            *)
(***************************************************************************)
THEOREM SlotsAreHeld == Spec => []EverySlotHeld
<1>1. IInv /\ LeakInv /\ HeldInv => EverySlotHeld
  <2> SUFFICES ASSUME IInv, LeakInv, HeldInv, NEW fd \in Fd, slot[fd] # NoSock,
                      ~Guarded(fd), slot[fd] \notin raised, ~Abandoned(fd)
               PROVE  \/ fd \in draining /\ Users(fd) # {}
                      \/ Building(fd)
    BY DEF EverySlotHeld
  <2>1. fd \in draining \/ status[slot[fd]] = "raw"
    BY DEF LeakInv, LeakIsTold, Accounted, Guarded
  <2>2. CASE fd \in draining
    BY <2>2 DEF HeldInv, DrainHasUser
  <2>3. CASE status[slot[fd]] = "raw"
    <3>1. slot[fd] \in Sock
      BY DEF IInv, TypeOK
    <3>2. PICK t \in Thread : pc[t] = "new" /\ frame[t].obj = slot[fd]
      BY <2>3, <3>1 DEF HeldInv, RawBuilt, InCall
    <3>3. fd = frame[t].fd
      BY <3>2 DEF LeakInv, NewOnce
    <3> QED
      BY <3>2, <3>3 DEF Building
  <2> QED
    BY <2>1, <2>2, <2>3
<1> QED
  BY <1>1, LeaksAreTold, Invariant, DrainsEnd, PTL

(***************************************************************************)
(* When all threads are back in the program, the table holds the           *)
(* connections of Sockets with an armed finalizer, those whose loss was    *)
(* raised and those whose finalizer was refused, and nothing else.         *)
(***************************************************************************)
THEOREM TidyAtRest == Spec => []RestIsTidy
<1>1. IInv /\ HeldInv /\ EverySlotHeld => RestIsTidy
  BY DEF IInv, TypeOK, HeldInv, DrainHasUser, EverySlotHeld, RestIsTidy, AtRest, Users, Building
<1> QED
  BY <1>1, Invariant, DrainsEnd, SlotsAreHeld, PTL

-----------------------------------------------------------------------------
(* The contract, when close() does not fall between the read of self._s and *)
(* the native call.                                                         *)

(* A connection is in one slot.                                             *)
OneSlot == \A f, g \in Fd : slot[f] # NoSock /\ slot[f] = slot[g] => f = g

(* A native call holds the slot of its connection until it leaves.          *)
NativeHolds ==
  \A t \in Thread : pc[t] = "native"
    => frame[t].fd \in Fd /\ frame[t].obj \in Sock /\ slot[frame[t].fd] = frame[t].obj

(* The invariants of SocketLifecycleProofs, and these two.                  *)
Base == IInv /\ CallInv /\ LeakInv
RInv == Base /\ OneSlot /\ NativeHolds

-----------------------------------------------------------------------------
(* The invariant.                                                           *)

(* Leaving or closing a slot empties it or leaves it as it is.              *)
LEMMA SlotsKept ==
  ASSUME TypeOK, \A f \in Fd : slot'[f] \in {slot[f], NoSock}
  PROVE  OneSlot => OneSlot'
BY DEF TypeOK, OneSlot

LEMMA OneSlotStep ==
  ASSUME RInv, [Next]_vars
  PROVE  OneSlot'
<1> USE DEF RInv, Base, IInv
<1>1. TypeOK
  OBVIOUS
<1>2. CASE \E t \in Thread, n \in Sock, fd \in Fd : SocketCall(t, n, fd) \/ AcceptReturn(t, n, fd)
  <2>1. PICK t \in Thread, n \in Sock, fd \in Fd : SocketCall(t, n, fd) \/ AcceptReturn(t, n, fd)
    BY <1>2
  <2>2. /\ \A f \in Fd : slot[f] # n
        /\ slot'[fd] = n
        /\ \A f \in Fd : f # fd => slot'[f] \in {slot[f], NoSock}
    BY <1>1, <2>1, LeaveSlot DEF SocketCall, AcceptReturn, Fresh, Occupies, TypeOK, SlotAfter
  <2> QED
    BY <2>2, LifecycleAssumption DEF OneSlot
<1>3. CASE \E t \in Thread : CallReturn(t) \/ CloseNative(t) \/ \E n \in Sock : Collect(t, n)
  <2>1. \A f \in Fd : slot'[f] \in {slot[f], NoSock}
    BY <1>1, <1>3, LeaveSlot DEF CallReturn, CloseNative, Collect, CloseSlot, TypeOK
  <2> QED
    BY <1>1, <2>1, SlotsKept
<1>4. CASE UNCHANGED slot
  BY <1>4 DEF OneSlot
<1> QED
  BY <1>2, <1>3, <1>4
  DEF Next, CallStep, CloseStep, SocketFails, Construct, CallBegin, CallEnter, CallBadFd,
      CallRefused, CloseBegin, CloseRaises, ForgetFd, Detach, Drop, vars

(* A slot that a call is inside is not freed and not given away.            *)
LEMMA NativeHoldsStep ==
  ASSUME RInv, [Next]_vars, TypeOK', CallInv'
  PROVE  NativeHolds'
<1> USE DEF RInv, Base, IInv, TypeOK
<1>1. ASSUME NEW t \in Thread, CallEnter(t)
      PROVE  NativeHolds'
  <2>1. /\ frame'[t].fd = frame[t].fd /\ frame'[t].obj = frame[t].obj
        /\ frame'[t].conn = slot[frame[t].fd]
        /\ frame[t].fd \in Fd /\ frame[t].obj \in Sock
    BY <1>1 DEF CallEnter, Frame, Open, Alive, InCallPc
  <2>2. /\ pc'[t] = "native" /\ UNCHANGED slot
        /\ \A u \in Thread : u # t => pc'[u] = pc[u] /\ frame'[u] = frame[u]
    BY <1>1 DEF CallEnter, GoTo
  <2>3. slot[frame[t].fd] = frame[t].obj
    BY <2>1, <2>2 DEF CallInv, CallOwn
  <2> QED
    BY <2>1, <2>2, <2>3 DEF NativeHolds
<1>2. ASSUME \A u \in Thread : pc'[u] = "native" => pc[u] = "native" /\ frame'[u] = frame[u],
             \A u \in Thread : pc'[u] = "native" => slot'[frame[u].fd] = slot[frame[u].fd]
      PROVE  NativeHolds'
  BY <1>2 DEF NativeHolds
<1>3. CASE \E t \in Thread, n \in Sock, fd \in Fd : SocketCall(t, n, fd) \/ AcceptReturn(t, n, fd)
  <2>1. PICK t \in Thread, n \in Sock, fd \in Fd : SocketCall(t, n, fd) \/ AcceptReturn(t, n, fd)
    BY <1>3
  <2>2. /\ pc'[t] # "native" /\ slot[fd] = NoSock
        /\ \A u \in Thread : u # t => pc'[u] = pc[u] /\ frame'[u] = frame[u]
    <3>1. TakeDescriptor(t, n, fd) /\ slot[fd] = NoSock
      BY <2>1 DEF SocketCall, AcceptReturn
    <3> QED
      BY <3>1, TakeMoves
  <2>3. slot' = [slot EXCEPT ![fd] = n] \/ slot' = [SlotAfter(t) EXCEPT ![fd] = n]
    BY <2>1 DEF SocketCall, AcceptReturn
  <2>4. ASSUME NEW u \in Thread, u # t, pc[u] = "native"
        PROVE  slot'[frame[u].fd] = slot[frame[u].fd]
    BY <2>2, <2>3, <2>4, LifecycleAssumption DEF NativeHolds, SlotAfter, LastOut, Users
  <2> QED
    BY <1>2, <2>2, <2>4
<1>4. ASSUME NEW t \in Thread, CallReturn(t)
      PROVE  NativeHolds'
  <2>1. /\ pc'[t] # "native" /\ slot' = SlotAfter(t)
        /\ \A u \in Thread : u # t => pc'[u] = pc[u] /\ frame'[u] = frame[u]
    BY <1>4 DEF CallReturn, BackToProgram, GoTo
  <2>2. ASSUME NEW u \in Thread, u # t, pc[u] = "native"
        PROVE  slot'[frame[u].fd] = slot[frame[u].fd]
    BY <2>1, <2>2 DEF NativeHolds, SlotAfter, LastOut, Users
  <2> QED
    BY <1>2, <2>1, <2>2
<1>5. ASSUME NEW t \in Thread, CloseNative(t) \/ \E n \in Sock : Collect(t, n)
      PROVE  NativeHolds'
  <2>1. \A u \in Thread : pc'[u] = "native" => pc[u] = "native" /\ frame'[u] = frame[u]
    BY <1>5 DEF CloseNative, Collect, GoTo
  <2>2. \A u \in Thread : pc[u] = "native" => slot'[frame[u].fd] = slot[frame[u].fd]
    BY <1>5 DEF CloseNative, Collect, CloseSlot, Users, NativeHolds
  <2> QED
    BY <1>2, <2>1, <2>2
<1>6. CASE /\ UNCHANGED slot
           /\ \A u \in Thread : pc'[u] = "native" => pc[u] = "native" /\ frame'[u] = frame[u]
  BY <1>2, <1>6
<1>7. CASE \E t \in Thread : SocketFails(t) \/ Construct(t) \/ CallBadFd(t) \/ CallRefused(t)
  BY <1>6, <1>7 DEF SocketFails, Construct, CallBadFd, CallRefused, BackToProgram, GoTo
<1>8. CASE \E t \in Thread, n \in Sock : (\E op \in Op : CallBegin(t, n, op)) \/ CloseBegin(t, n)
  BY <1>6, <1>8 DEF CallBegin, CloseBegin, GoTo
<1>9. CASE \E t \in Thread : CloseRaises(t) \/ ForgetFd(t) \/ Detach(t)
  BY <1>6, <1>9 DEF CloseRaises, ForgetFd, Detach, BackToProgram, GoTo
<1>10. CASE (\E n \in Sock : Drop(n)) \/ UNCHANGED vars
  BY <1>6, <1>10 DEF Drop, vars
<1> QED
  BY <1>1, <1>3, <1>4, <1>5, <1>7, <1>8, <1>9, <1>10 DEF Next, CallStep, CloseStep

(* The invariant is kept by every step, and holds from the start.           *)
LEMMA RInvStep ==
  ASSUME "args" \notin Overlap, RInv, [Next]_vars
  PROVE  RInv'
<1>1. IInv'
  BY InvStep DEF RInv, Base
<1>2. CallInv'
  BY CallInvStep DEF RInv, Base
<1>3. LeakInv'
  BY LeakStep DEF RInv, Base
<1>4. OneSlot' /\ NativeHolds'
  BY <1>1, <1>2, OneSlotStep, NativeHoldsStep DEF IInv
<1> QED
  BY <1>1, <1>2, <1>3, <1>4 DEF RInv, Base

LEMMA RInvInit == Init => RInv
<1>1. Init => IInv
  BY InvInit
<1>2. Init => CallInv
  BY DEF Init, CallInv, CallOwn
<1>3. Init => LeakInv
  BY LeakInit
<1>4. Init => OneSlot /\ NativeHolds
  BY DEF Init, OneSlot, NativeHolds
<1> QED
  BY <1>1, <1>2, <1>3, <1>4 DEF RInv, Base

-----------------------------------------------------------------------------
(* The stage of a connection.                                               *)

(* The stage of a connection is told by the one slot it is in.              *)
LEMMA Stages ==
  ASSUME RInv, NEW n \in Sock
  PROVE  /\ \A fd \in Fd : slot[fd] = n
              => StageOf(n) = IF fd \in draining THEN "draining"
                              ELSE IF Accounted(fd) THEN "open"
                              ELSE IF n \in raised THEN "lost" ELSE "leaked"
         /\ (\A fd \in Fd : slot[fd] # n) => StageOf(n) = "none"
BY LifecycleAssumption
DEF RInv, Base, IInv, TypeOK, OneSlot, StageOf, OpenIn, Occupies

LEMMA StagesNext ==
  ASSUME RInv', NEW n \in Sock
  PROVE  /\ \A fd \in Fd : slot'[fd] = n
              => StageOf(n)' = IF fd \in draining' THEN "draining"
                               ELSE IF Accounted(fd)' THEN "open"
                               ELSE IF n \in raised' THEN "lost" ELSE "leaked"
         /\ (\A fd \in Fd : slot'[fd] # n) => StageOf(n)' = "none"
BY LifecycleAssumption
DEF RInv, Base, IInv, TypeOK, OneSlot, StageOf, OpenIn, Occupies

(* A connection whose object is there is open, drains, or its loss raised.  *)
LEMMA LiveIsTold ==
  ASSUME RInv, NEW n \in Sock, status[n] = "live", NEW fd \in Fd, slot[fd] = n
  PROVE  Accounted(fd) \/ n \in raised
BY LifecycleAssumption DEF RInv, Base, LeakInv, LeakIsTold, Abandoned

(* The history of exceptions, as far as it bears on the stage of n.         *)
SameRaised(n) == \/ n \in raised' <=> n \in raised
                 \/ status[n] = "live" /\ raised \subseteq raised'

(* A step that leaves the slots and the object of a connection alone.       *)
LEMMA SameStage ==
  ASSUME RInv, RInv', NEW n \in Sock,
         \A fd \in Fd : slot'[fd] = n <=> slot[fd] = n,
         \A fd \in Fd : slot[fd] = n => (fd \in draining' <=> fd \in draining),
         status'[n] = status[n], finalizer'[n] = finalizer[n], SameRaised(n)
  PROVE  StageOf(n)' = StageOf(n)
<1>1. CASE \A fd \in Fd : slot[fd] # n
  BY <1>1, Stages, StagesNext
<1>2. ASSUME NEW fd \in Fd, slot[fd] = n
      PROVE  StageOf(n)' = StageOf(n)
  <2>1. slot'[fd] = n /\ (fd \in draining' <=> fd \in draining)
    BY <1>2
  <2>2. Accounted(fd)' <=> Accounted(fd)
    BY <1>2, <2>1 DEF Accounted
  <2>3. Accounted(fd) \/ (n \in raised' <=> n \in raised)
    <3>1. CASE status[n] = "live" /\ raised \subseteq raised'
      BY <1>2, <3>1, LiveIsTold
    <3> QED
      BY <3>1 DEF SameRaised
  <2> QED
    BY <1>2, <2>1, <2>2, <2>3, Stages, StagesNext
<1> QED
  BY <1>1, <1>2

(* The threads inside the connection in a slot are the users of the slot.   *)
LEMMA CallersAreUsers ==
  ASSUME RInv, NEW fd \in Fd, NEW n \in Sock, slot[fd] = n
  PROVE  {t \in Thread : InsideOf(t) = <<n, n>>} = Users(fd)
<1>1. ASSUME NEW t \in Thread, InsideOf(t) = <<n, n>>
      PROVE  t \in Users(fd)
  <2>1. pc[t] = "native" /\ frame[t].obj = n
    BY <1>1, LifecycleAssumption DEF InsideOf
  <2> QED
    BY <2>1, LifecycleAssumption DEF RInv, NativeHolds, OneSlot, Users
<1>2. ASSUME NEW t \in Thread, t \in Users(fd)
      PROVE  InsideOf(t) = <<n, n>>
  BY <1>2 DEF RInv, Base, CallInv, CallOwn, NativeHolds, Users, InsideOf
<1> QED
  BY <1>1, <1>2 DEF Users

-----------------------------------------------------------------------------
(* Every step is a step of the contract.                                    *)

ContractStep == [Contract!Next]_(Contract!contractVars)

(* Nobody enters or leaves a native call.                                   *)
SameInside == \A t \in Thread : InsideOf(t)' = InsideOf(t)

SameStages == \A n \in Sock : StageOf(n)' = StageOf(n)

(* The steps of the contract, in terms of the mapping.                      *)
LEMMA Stutters ==
  ASSUME SameStages, SameInside, InUse' = InUse
  PROVE  ContractStep
BY DEF ContractStep, SameStages, SameInside, Contract!contractVars

LEMMA Retires ==
  ASSUME NEW n \in Sock, SameStages, SameInside, InUse' = InUse \ {n}
  PROVE  ContractStep
<1>1. Contract!Retire(n)
  BY DEF SameStages, SameInside, Contract!Retire
<1> QED
  BY <1>1 DEF ContractStep, Contract!Next

LEMMA Uses ==
  ASSUME NEW n \in Sock, StageOf(n) = "open", SameStages, SameInside, InUse' = InUse \cup {n}
  PROVE  ContractStep
<1>1. Contract!Use(n)
  BY DEF SameStages, SameInside, Contract!Use
<1> QED
  BY <1>1 DEF ContractStep, Contract!Next

LEMMA Ends ==
  ASSUME NEW n \in Sock, StageOf(n) = "open", SameInside, InUse' = InUse \ {n},
         \A m \in Sock : m # n => StageOf(m)' = StageOf(m),
         StageOf(n)' = IF {t \in Thread : InsideOf(t) = <<n, n>>} = {} THEN "none" ELSE "draining"
  PROVE  ContractStep
<1>1. Contract!Callers(n) = {t \in Thread : InsideOf(t) = <<n, n>>}
  BY DEF Contract!Callers
<1>2. Contract!End(n)
  BY <1>1 DEF SameInside, Contract!End
<1> QED
  BY <1>2 DEF ContractStep, Contract!Next

LEMMA Loses ==
  ASSUME NEW n \in Sock, StageOf(n) = "open", SameInside, InUse' = InUse \ {n},
         \A m \in Sock : m # n => StageOf(m)' = StageOf(m),
         StageOf(n)' = "lost"
  PROVE  ContractStep
<1>1. Contract!Lose(n)
  BY DEF SameInside, Contract!Lose
<1> QED
  BY <1>1 DEF ContractStep, Contract!Next

LEMMA Abandons ==
  ASSUME NEW n \in Sock, CloseMayFail, StageOf(n) = "open", SameInside, InUse' = InUse \ {n},
         \A t \in Thread : InsideOf(t) # <<n, n>>,
         \A m \in Sock : m # n => StageOf(m)' = StageOf(m),
         StageOf(n)' = "leaked"
  PROVE  ContractStep
<1>1. Contract!Callers(n) = {}
  BY DEF Contract!Callers
<1>2. Contract!Abandon(n)
  BY <1>1 DEF SameInside, Contract!Abandon
<1> QED
  BY <1>2 DEF ContractStep, Contract!Next

LEMMA Creates ==
  ASSUME NEW n \in Sock, StageOf(n) = "none", SameInside, InUse' = InUse,
         \A m \in Sock : m # n => StageOf(m)' = StageOf(m),
         StageOf(n)' \in {"open", "lost"}
  PROVE  ContractStep
<1>1. Contract!Create(n)
  BY DEF SameInside, Contract!Create, Contract!Appear
<1> QED
  BY <1>1 DEF ContractStep, Contract!Next

LEMMA Enters ==
  ASSUME NEW t \in Thread, NEW n \in Sock, StageOf(n) \in {"open", "lost"}, SameStages,
         InUse' = InUse, InsideOf(t) = <<NoSock, NoSock>>, InsideOf(t)' = <<n, n>>,
         \A u \in Thread : u # t => InsideOf(u)' = InsideOf(u)
  PROVE  ContractStep
<1>1. Contract!Enter(t, n)
  BY DEF SameStages, Contract!Enter
<1> QED
  BY <1>1 DEF ContractStep, Contract!Next

(* What becomes of the stages when thread t leaves.                         *)
StageLeft(t, n) ==
  IF StageOf(n) = "draining" /\ {u \in Thread : InsideOf(u) = <<n, n>>} = {t}
  THEN "none" ELSE StageOf(n)

LEMMA LeftStages ==
  ASSUME NEW t \in Thread
  PROVE  Contract!StageWithout(t) = [n \in Sock |-> StageLeft(t, n)]
<1>1. \A n \in Sock : Contract!Callers(n) = {u \in Thread : InsideOf(u) = <<n, n>>}
  BY DEF Contract!Callers
<1> QED
  BY <1>1 DEF Contract!StageWithout, StageLeft

LEMMA Leaves ==
  ASSUME NEW t \in Thread, InsideOf(t) # <<NoSock, NoSock>>, InUse' = InUse,
         InsideOf(t)' = <<NoSock, NoSock>>,
         \A u \in Thread : u # t => InsideOf(u)' = InsideOf(u),
         \A n \in Sock : StageOf(n)' = StageLeft(t, n)
  PROVE  ContractStep
<1>1. Contract!Leave(t)
  BY LeftStages DEF Contract!Leave
<1> QED
  BY <1>1 DEF ContractStep, Contract!Next

LEMMA LeavesWith ==
  ASSUME NEW t \in Thread, NEW n \in Sock, InsideOf(t) # <<NoSock, NoSock>>, InUse' = InUse,
         InsideOf(t)' = <<NoSock, NoSock>>,
         \A u \in Thread : u # t => InsideOf(u)' = InsideOf(u),
         \A m \in Sock : m # n => StageOf(m)' = StageLeft(t, m),
         StageLeft(t, n) = "none", StageOf(n)' \in {"open", "lost"}
  PROVE  ContractStep
<1>1. Contract!LeaveWith(t, n)
  BY LeftStages DEF Contract!LeaveWith, Contract!Appear
<1> QED
  BY <1>1 DEF ContractStep, Contract!Next

(***************************************************************************)
(* Steps that leave the table and the objects alone, and take nobody into  *)
(* lwIP, out of it, into close() or out of it.                             *)
(***************************************************************************)
LEMMA QuietKeeps ==
  ASSUME RInv, RInv', UNCHANGED <<slot, draining, status, finalizer>>,
         \A n \in Sock : SameRaised(n),
         \A u \in Thread : \/ pc'[u] = pc[u] /\ frame'[u] = frame[u]
                           \/ pc[u] \in {"idle", "args"} /\ pc'[u] \in {"idle", "args"}
                           \/ pc[u] \in InClosePc /\ pc'[u] \in InClosePc /\ frame'[u] = frame[u]
  PROVE  ContractStep
<1>1. SameStages
  BY SameStage DEF SameStages
<1>2. SameInside
  BY DEF SameInside, InsideOf, InClosePc
<1>3. InUse' = InUse
  <2>1. \A n \in Sock : InClose(n)' <=> InClose(n)
    BY DEF InClose, InClosePc
  <2> QED
    BY <2>1 DEF InUse
<1> QED
  BY <1>1, <1>2, <1>3, Stutters

(* Socket.__init__ hands the connection to the program.                     *)
LEMMA ConstructKeeps ==
  ASSUME RInv, RInv', NEW t \in Thread, Construct(t)
  PROVE  ContractStep
<1>1. PICK n \in Sock, fd \in Fd :
        /\ frame[t].obj = n /\ status[n] = "raw" /\ pc[t] = "new"
        /\ frame[t].fd = fd /\ slot[fd] = n /\ fd \notin draining
  BY DEF RInv, Base, IInv, TypeOK, Construct, NewOwns, Open
<1>2. /\ UNCHANGED <<slot, draining, raised>>
      /\ \A m \in Sock : m # n => status'[m] = status[m] /\ finalizer'[m] = finalizer[m]
      /\ status'[n] = "live" /\ finalizer'[n] = fd
  BY <1>1 DEF RInv, Base, IInv, TypeOK, Construct
<1>3. /\ pc'[t] = "idle"
      /\ \A u \in Thread : u # t => pc'[u] = pc[u] /\ frame'[u] = frame[u]
  BY DEF RInv, Base, IInv, TypeOK, Construct, BackToProgram, GoTo
<1>4. StageOf(n) = "open" /\ StageOf(n)' = "open"
  <2>1. Accounted(fd) /\ Accounted(fd)'
    BY <1>1, <1>2 DEF Accounted
  <2> QED
    BY <1>1, <1>2, <2>1, Stages, StagesNext
<1>5. SameStages
  <2>1. \A m \in Sock : m # n => StageOf(m)' = StageOf(m)
    BY <1>2, SameStage DEF SameRaised
  <2> QED
    BY <1>4, <2>1 DEF SameStages
<1>6. SameInside
  BY <1>1, <1>3 DEF SameInside, InsideOf
<1>7. InUse' = InUse \cup {n}
  <2>1. \A m \in Sock : InClose(m)' <=> InClose(m)
    BY <1>1, <1>3 DEF InClose, InClosePc
  <2>2. ~InClose(n)
    BY <1>1 DEF RInv, Base, IInv, TypeOK, InClose, Alive
  <2> QED
    BY <1>1, <1>2, <2>1, <2>2, LifecycleAssumption DEF InUse
<1> QED
  BY <1>1, <1>4, <1>5, <1>6, <1>7, Uses

(* A call enters lwIP.                                                      *)
LEMMA CallEnterKeeps ==
  ASSUME RInv, RInv', NEW t \in Thread, CallEnter(t)
  PROVE  ContractStep
<1> DEFINE n == frame[t].obj
<1>1. /\ UNCHANGED <<slot, draining, status, finalizer, raised>>
      /\ pc[t] = "args" /\ pc'[t] = "native"
      /\ \A u \in Thread : u # t => pc'[u] = pc[u] /\ frame'[u] = frame[u]
      /\ frame'[t].fd = frame[t].fd /\ frame'[t].obj = n
      /\ Open(frame[t].fd)
  BY DEF RInv, Base, IInv, TypeOK, Frame, CallEnter, GoTo
<1>2. /\ n \in Sock /\ frame'[t].conn = n
      /\ frame[t].fd \in Fd /\ slot[frame[t].fd] = n
  BY <1>1 DEF RInv, Base, CallInv, CallOwn, NativeHolds, Open
<1>3. StageOf(n) \in {"open", "lost"}
  <2>1. status[n] = "live"
    BY <1>1 DEF RInv, Base, IInv, Alive, InCallPc
  <2> QED
    BY <1>1, <1>2, <2>1, Stages, LiveIsTold DEF Open
<1>4. SameStages
  BY <1>1, SameStage DEF SameStages, SameRaised
<1>5. /\ InsideOf(t) = <<NoSock, NoSock>> /\ InsideOf(t)' = <<n, n>>
      /\ \A u \in Thread : u # t => InsideOf(u)' = InsideOf(u)
  BY <1>1, <1>2 DEF InsideOf
<1>6. InUse' = InUse
  <2>1. \A m \in Sock : InClose(m)' <=> InClose(m)
    BY <1>1 DEF InClose, InClosePc
  <2> QED
    BY <1>1, <2>1 DEF InUse
<1> QED
  BY <1>2, <1>3, <1>4, <1>5, <1>6, Enters

(* close() is entered.                                                      *)
LEMMA CloseBeginKeeps ==
  ASSUME RInv, RInv', NEW t \in Thread, NEW n \in Sock, CloseBegin(t, n)
  PROVE  ContractStep
<1>1. /\ UNCHANGED <<slot, draining, status, finalizer, raised>>
      /\ pc[t] = "idle" /\ pc'[t] = "closing"
      /\ \A u \in Thread : u # t => pc'[u] = pc[u] /\ frame'[u] = frame[u]
  BY DEF RInv, Base, IInv, TypeOK, CloseBegin, GoTo
<1>2. frame'[t] = [NoFrame EXCEPT !.obj = n, !.fd = fileno[n]]
  BY DEF RInv, Base, IInv, TypeOK, CloseBegin
<1>3. frame'[t].obj = n
  BY <1>2 DEF NoFrame
<1>4. SameStages
  BY <1>1, SameStage DEF SameStages, SameRaised
<1>5. SameInside
  BY <1>1 DEF SameInside, InsideOf
<1>6. InUse' = InUse \ {n}
  <2>1. \A m \in Sock : InClose(m)' <=> InClose(m) \/ m = n
    BY <1>1, <1>3 DEF InClose, InClosePc
  <2> QED
    BY <1>1, <2>1 DEF InUse
<1> QED
  BY <1>4, <1>5, <1>6, Retires

(* lwip_close on the slot of connection n, which nobody uses from now on.   *)
LEMMA SlotCloses ==
  ASSUME RInv, RInv', NEW n \in Sock, NEW fd \in Fd, slot[fd] = n, Open(fd), Accounted(fd),
         CloseSlot(fd), SameInside, InUse' = InUse \ {n},
         \A m \in Sock : m # n => status'[m] = status[m] /\ finalizer'[m] = finalizer[m],
         \A m \in Sock : m # n => SameRaised(m)
  PROVE  ContractStep
<1>1. StageOf(n) = "open"
  BY Stages DEF Open
<1>2. \A m \in Sock : m # n => StageOf(m)' = StageOf(m)
  <2>1. /\ \A f \in Fd : f # fd => slot'[f] = slot[f]
        /\ slot'[fd] \in {n, NoSock}
        /\ \A f \in Fd : f # fd => (f \in draining' <=> f \in draining)
    BY DEF RInv, Base, IInv, TypeOK, CloseSlot
  <2> QED
    BY <2>1, LifecycleAssumption, SameStage
<1>3. StageOf(n)' = IF Users(fd) = {} THEN "none" ELSE "draining"
  <2>1. CASE Users(fd) = {}
    <3>1. \A f \in Fd : slot'[f] # n
      BY <2>1, LifecycleAssumption DEF RInv, Base, IInv, TypeOK, CloseSlot, OneSlot
    <3> QED
      BY <2>1, <3>1, StagesNext
  <2>2. CASE Users(fd) # {}
    <3>1. slot'[fd] = n /\ fd \in draining'
      BY <2>2 DEF CloseSlot
    <3> QED
      BY <2>2, <3>1, StagesNext
  <2> QED
    BY <2>1, <2>2
<1>4. {t \in Thread : InsideOf(t) = <<n, n>>} = Users(fd)
  BY CallersAreUsers
<1> QED
  BY <1>1, <1>2, <1>3, <1>4, Ends

(* lwip_close in close().                                                   *)
LEMMA CloseNativeKeeps ==
  ASSUME RInv, RInv', NEW t \in Thread, CloseNative(t)
  PROVE  ContractStep
<1> DEFINE n == frame[t].obj
<1>1. /\ n \in Sock /\ status[n] = "live" /\ pc[t] = "closing"
      /\ frame[t].fd \in Fd /\ frame[t].fd = finalizer[n]
  BY DEF RInv, Base, IInv, CloseNative, Alive, CloseOwns, InClosePc
<1>2. ~Closed(n)
  BY <1>1 DEF RInv, Base, IInv, Closed, ClosedPc, Exclusive, OwnerPc, InClosePc
<1>3. slot[frame[t].fd] = n /\ Accounted(frame[t].fd)
  BY <1>1, <1>2, LifecycleAssumption DEF RInv, Base, IInv, Armed, Accounted
<1>4. /\ UNCHANGED <<status, finalizer, frame>>
      /\ pc'[t] = "closed" /\ \A u \in Thread : u # t => pc'[u] = pc[u]
      /\ Open(frame[t].fd) /\ CloseSlot(frame[t].fd)
      /\ raised' = raised \/ raised' = raised \cup {n}
  BY DEF RInv, Base, IInv, TypeOK, CloseNative, GoTo
<1>5. SameInside
  BY <1>1, <1>4 DEF SameInside, InsideOf
<1>6. InUse' = InUse \ {n}
  <2>1. InClose(n)
    BY <1>1 DEF InClose, InClosePc
  <2>2. \A m \in Sock : InClose(m)' <=> InClose(m)
    BY <1>1, <1>4 DEF InClose, InClosePc
  <2> QED
    BY <1>4, <2>1, <2>2 DEF InUse
<1>7. \A m \in Sock : m # n => SameRaised(m)
  BY <1>4 DEF SameRaised
<1> QED
  BY <1>1, <1>3, <1>4, <1>5, <1>6, <1>7, SlotCloses

(* finally: self._finalizer.detach(); what close() has not freed is lost.   *)
LEMMA DetachKeeps ==
  ASSUME RInv, RInv', NEW t \in Thread, Detach(t)
  PROVE  ContractStep
<1>1. PICK n \in Sock : frame[t].obj = n /\ status[n] = "live" /\ pc[t] = "detach"
  BY DEF RInv, Base, IInv, Detach, Alive, InClosePc
<1>2. /\ UNCHANGED <<slot, draining, status, raised>>
      /\ finalizer'[n] = NoFd
      /\ \A m \in Sock : m # n => finalizer'[m] = finalizer[m]
      /\ pc'[t] = "idle"
      /\ \A u \in Thread : u # t => pc'[u] = pc[u] /\ frame'[u] = frame[u]
  BY <1>1 DEF RInv, Base, IInv, TypeOK, Detach, BackToProgram, GoTo
<1>3. SameInside
  BY <1>1, <1>2 DEF SameInside, InsideOf
<1>4. InUse' = InUse /\ n \notin InUse
  <2>1. \A m \in Sock : m # n => (InClose(m)' <=> InClose(m))
    BY <1>1, <1>2 DEF InClose, InClosePc
  <2>2. InClose(n)
    BY <1>1 DEF InClose, InClosePc
  <2> QED
    BY <1>2, <2>1, <2>2 DEF InUse
<1>5. \A m \in Sock : m # n => StageOf(m)' = StageOf(m)
  BY <1>2, SameStage DEF SameRaised
<1>6. CASE StageOf(n)' = StageOf(n)
  <2>1. SameStages
    BY <1>5, <1>6 DEF SameStages
  <2> QED
    BY <1>3, <1>4, <2>1, Stutters
<1>7. CASE StageOf(n)' # StageOf(n)
  <2>1. PICK fd \in Fd : slot[fd] = n
    BY <1>2, <1>7, Stages, StagesNext
  <2>2. ~Accounted(fd)' \/ fd \in draining
    BY <1>1, <1>2, <2>1, LifecycleAssumption DEF Accounted, RInv, Base, IInv, TypeOK
  <2>3. Accounted(fd)' \/ n \in raised'
    BY <1>1, <1>2, <2>1, LifecycleAssumption DEF RInv, Base, LeakInv, LeakIsTold, Abandoned
  <2>4. StageOf(n) = "open" /\ StageOf(n)' = "lost"
    BY <1>2, <1>7, <2>1, <2>2, <2>3, Stages, StagesNext
  <2> QED
    BY <1>3, <1>4, <1>5, <2>4, Loses
<1> QED
  BY <1>6, <1>7

(* An object is collected, with or without a finalizer to run.              *)
LEMMA CollectKeeps ==
  ASSUME RInv, RInv', NEW t \in Thread, NEW n \in Sock, Collect(t, n)
  PROVE  ContractStep
<1>1. /\ status[n] = "live" /\ ~InClose(n)
      /\ status'[n] = "none" /\ finalizer'[n] = NoFd
      /\ \A m \in Sock : m # n => status'[m] = status[m] /\ finalizer'[m] = finalizer[m]
      /\ UNCHANGED <<pc, frame, raised>>
  BY DEF RInv, Base, IInv, TypeOK, Collect, Unreachable, Busy, InClose, InClosePc
<1>2. SameInside
  BY <1>1 DEF SameInside, InsideOf
<1>3. InUse' = InUse \ {n}
  <2>1. \A m \in Sock : InClose(m)' <=> InClose(m)
    BY <1>1 DEF InClose
  <2> QED
    BY <1>1, <2>1 DEF InUse
<1>4. CASE finalizer[n] = NoFd /\ UNCHANGED <<slot, draining>>
  <2>1. \A m \in Sock : m # n => StageOf(m)' = StageOf(m)
    BY <1>1, <1>4, SameStage DEF SameRaised
  <2>2. \A fd \in Fd : slot[fd] = n => ~Accounted(fd) \/ fd \in draining
    BY <1>1, <1>4, LifecycleAssumption DEF Accounted
  <2>3. \A fd \in Fd : slot[fd] = n => ~Accounted(fd)' \/ fd \in draining
    BY <1>1, <1>4, LifecycleAssumption DEF Accounted
  <2>4. StageOf(n)' = StageOf(n)
    BY <1>1, <1>4, <2>2, <2>3, Stages, StagesNext
  <2>5. SameStages
    BY <2>1, <2>4 DEF SameStages
  <2> QED
    BY <1>2, <1>3, <2>5, Retires
<1>5. ASSUME finalizer[n] # NoFd
      PROVE  \E fd \in Fd : fd = finalizer[n] /\ Open(fd) /\ slot[fd] = n /\ Accounted(fd)
  <2>1. ~Closed(n)
    BY <1>1 DEF Closed, ClosedPc, InClose, InClosePc
  <2> QED
    BY <1>1, <1>5, <2>1 DEF RInv, Base, IInv, Armed, Open, Accounted
<1>6. CASE Open(finalizer[n]) /\ CloseSlot(finalizer[n])
  <2>1. PICK fd \in Fd : fd = finalizer[n] /\ Open(fd) /\ slot[fd] = n /\ Accounted(fd)
    BY <1>5, <1>6, LifecycleAssumption DEF Open
  <2>2. \A m \in Sock : m # n => SameRaised(m)
    BY <1>1 DEF SameRaised
  <2> QED
    BY <1>1, <1>2, <1>3, <1>6, <2>1, <2>2, SlotCloses
<1>7. CASE finalizer[n] # NoFd /\ CloseMayFail /\ UNCHANGED <<slot, draining>>
  <2>1. PICK fd \in Fd : fd = finalizer[n] /\ Open(fd) /\ slot[fd] = n /\ Accounted(fd)
    BY <1>5, <1>7
  <2>2. \A m \in Sock : m # n => StageOf(m)' = StageOf(m)
    BY <1>1, <1>7, SameStage DEF SameRaised
  <2>3. StageOf(n) = "open"
    BY <2>1, Stages DEF Open
  <2>4. StageOf(n)' \in {"lost", "leaked"}
    <3>1. slot'[fd] = n /\ fd \notin draining' /\ ~Accounted(fd)'
      BY <1>1, <1>7, <2>1 DEF Open, Accounted
    <3> QED
      BY <3>1, StagesNext
  <2>5. \A u \in Thread : InsideOf(u) # <<n, n>>
    <3>1. \A u \in Thread : pc[u] = "native" => frame[u].obj # n
      BY DEF Collect, Unreachable, Busy
    <3> QED
      BY <3>1, LifecycleAssumption DEF InsideOf
  <2> QED
    BY <1>2, <1>3, <1>7, <2>2, <2>3, <2>4, <2>5, Loses, Abandons
<1>8. CASE finalizer[n] # NoFd /\ ~Open(finalizer[n])
  BY <1>5, <1>8
<1> QED
  BY <1>4, <1>6, <1>7, <1>8 DEF Collect

(***************************************************************************)
(* The stages when thread t leaves its call and its slot: of the           *)
(* connections but n, which may be new.                                    *)
(***************************************************************************)
LEMMA StagesAfter ==
  ASSUME RInv, RInv', NEW t \in Thread, pc[t] = "native", NEW m \in Sock,
         \A fd \in Fd : slot'[fd] = m <=> SlotAfter(t)[fd] = m,
         draining' = DrainingAfter(t), status'[m] = status[m], UNCHANGED finalizer,
         m \in raised' <=> m \in raised
  PROVE  StageOf(m)' = StageLeft(t, m)
<1> DEFINE g == frame[t].fd
<1>1. g \in Fd /\ slot[g] \in Sock
  BY DEF RInv, NativeHolds
<1>2. CASE LastOut(t) /\ slot[g] = m
  <2>1. \A fd \in Fd : slot'[fd] # m
    BY <1>1, <1>2, LifecycleAssumption DEF RInv, Base, IInv, TypeOK, SlotAfter, OneSlot
  <2>2. StageOf(m)' = "none"
    BY <2>1, StagesNext
  <2>3. StageOf(m) = "draining" /\ {u \in Thread : InsideOf(u) = <<m, m>>} = {t}
    BY <1>1, <1>2, Stages, CallersAreUsers DEF LastOut
  <2> QED
    BY <2>2, <2>3 DEF StageLeft
<1>3. CASE ~(LastOut(t) /\ slot[g] = m)
  <2>1. /\ \A fd \in Fd : slot'[fd] = m <=> slot[fd] = m
        /\ \A fd \in Fd : slot[fd] = m => (fd \in draining' <=> fd \in draining)
    BY <1>1, <1>3, LifecycleAssumption
    DEF RInv, Base, IInv, TypeOK, SlotAfter, DrainingAfter, LastOut
  <2>2. StageOf(m)' = StageOf(m)
    BY <2>1, SameStage DEF SameRaised
  <2>3. ~(StageOf(m) = "draining" /\ {u \in Thread : InsideOf(u) = <<m, m>>} = {t})
    <3>1. SUFFICES ASSUME StageOf(m) = "draining", {u \in Thread : InsideOf(u) = <<m, m>>} = {t}
                   PROVE  FALSE
      OBVIOUS
    <3>2. PICK fd \in Fd : slot[fd] = m /\ fd \in draining
      BY <3>1, Stages
    <3>3. Users(fd) = {t}
      BY <3>1, <3>2, CallersAreUsers
    <3>4. g = fd
      BY <3>3 DEF Users
    <3> QED
      BY <1>3, <3>2, <3>3, <3>4 DEF LastOut
  <2> QED
    BY <2>2, <2>3 DEF StageLeft
<1> QED
  BY <1>2, <1>3

(* A call returns.                                                          *)
LEMMA CallReturnKeeps ==
  ASSUME RInv, RInv', NEW t \in Thread, CallReturn(t)
  PROVE  ContractStep
<1>1. /\ pc[t] = "native" /\ pc'[t] = "idle" /\ frame[t].obj \in Sock
      /\ slot' = SlotAfter(t) /\ draining' = DrainingAfter(t)
      /\ UNCHANGED <<status, finalizer, raised>>
      /\ \A u \in Thread : u # t => pc'[u] = pc[u] /\ frame'[u] = frame[u]
  BY DEF RInv, Base, IInv, TypeOK, NativeHolds, CallReturn, BackToProgram, GoTo
<1>2. /\ InsideOf(t) # <<NoSock, NoSock>> /\ InsideOf(t)' = <<NoSock, NoSock>>
      /\ \A u \in Thread : u # t => InsideOf(u)' = InsideOf(u)
  BY <1>1, LifecycleAssumption DEF InsideOf
<1>3. InUse' = InUse
  <2>1. \A m \in Sock : InClose(m)' <=> InClose(m)
    BY <1>1 DEF InClose, InClosePc
  <2> QED
    BY <1>1, <2>1 DEF InUse
<1>4. \A m \in Sock : StageOf(m)' = StageLeft(t, m)
  BY <1>1, StagesAfter
<1> QED
  BY <1>2, <1>3, <1>4, Leaves

(* What a new connection and its descriptor change, kept or lost.           *)
LEMMA TakeKeeps ==
  ASSUME RInv, RInv', NEW t \in Thread, NEW n \in Sock, NEW fd \in Fd,
         TakeDescriptor(t, n, fd), pc[t] \in {"idle", "native"}, status[n] = "none",
         slot'[fd] = n, fd \notin draining', UNCHANGED finalizer
  PROVE  /\ pc'[t] \in {"idle", "new"}
         /\ \A u \in Thread : u # t => pc'[u] = pc[u] /\ frame'[u] = frame[u]
         /\ \A m \in Sock : m # n => status'[m] = status[m]
         /\ \A m \in Sock : m # n => (m \in raised' <=> m \in raised)
         /\ InUse' = InUse
         /\ StageOf(n)' \in {"open", "lost"}
<1>1. /\ pc'[t] \in {"idle", "new"}
      /\ \A u \in Thread : u # t => pc'[u] = pc[u] /\ frame'[u] = frame[u]
      /\ \A m \in Sock : m # n => status'[m] = status[m] /\ (m \in raised' <=> m \in raised)
      /\ status'[n] # "live"
      /\ status'[n] = "raw" \/ n \in raised'
  <2>1. /\ pc \in [Thread -> Pc] /\ frame \in [Thread -> Frame]
        /\ status \in [Sock -> Status]
    BY DEF RInv, Base, IInv, TypeOK
  <2> QED
    BY <2>1, TakeMoves
<1>2. InUse' = InUse
  <2>1. \A m \in Sock : InClose(m)' <=> InClose(m)
    BY <1>1 DEF InClose, InClosePc
  <2> QED
    BY <1>1, <2>1 DEF InUse
<1>3. StageOf(n)' \in {"open", "lost"}
  BY <1>1, StagesNext DEF Accounted
<1> QED
  BY <1>1, <1>2, <1>3

(* LwIP.socket.                                                             *)
LEMMA SocketCallKeeps ==
  ASSUME RInv, RInv', NEW t \in Thread, NEW n \in Sock, NEW fd \in Fd, SocketCall(t, n, fd)
  PROVE  ContractStep
<1>1. /\ pc[t] = "idle" /\ status[n] = "none" /\ slot[fd] = NoSock
      /\ \A f \in Fd : slot[f] # n
      /\ slot' = [slot EXCEPT ![fd] = n]
      /\ TakeDescriptor(t, n, fd) /\ UNCHANGED <<draining, finalizer>>
  BY DEF SocketCall, Fresh, Occupies
<1>2. slot'[fd] = n /\ fd \notin draining'
  BY <1>1 DEF RInv, Base, IInv, TypeOK, DrainingOccupied
<1>3. /\ pc'[t] \in {"idle", "new"}
      /\ \A u \in Thread : u # t => pc'[u] = pc[u] /\ frame'[u] = frame[u]
      /\ \A m \in Sock : m # n => status'[m] = status[m] /\ (m \in raised' <=> m \in raised)
      /\ InUse' = InUse
      /\ StageOf(n)' \in {"open", "lost"}
  BY <1>1, <1>2, TakeKeeps
<1>4. SameInside
  BY <1>1, <1>3 DEF SameInside, InsideOf
<1>5. \A m \in Sock : m # n => StageOf(m)' = StageOf(m)
  <2>1. \A m \in Sock : m # n => \A f \in Fd : slot'[f] = m <=> slot[f] = m
    BY <1>1, LifecycleAssumption DEF RInv, Base, IInv, TypeOK
  <2> QED
    BY <1>1, <1>3, <2>1, SameStage DEF SameRaised
<1>6. StageOf(n) = "none"
  BY <1>1, Stages
<1> QED
  BY <1>3, <1>4, <1>5, <1>6, Creates

(* accept() returns with a connection.                                      *)
LEMMA AcceptReturnKeeps ==
  ASSUME RInv, RInv', NEW t \in Thread, NEW n \in Sock, NEW fd \in Fd, AcceptReturn(t, n, fd)
  PROVE  ContractStep
<1>1. /\ pc[t] = "native" /\ frame[t].obj \in Sock
      /\ status[n] = "none" /\ slot[fd] = NoSock
      /\ \A f \in Fd : slot[f] # n
      /\ slot' = [SlotAfter(t) EXCEPT ![fd] = n]
      /\ draining' = DrainingAfter(t)
      /\ TakeDescriptor(t, n, fd) /\ UNCHANGED finalizer
  BY DEF RInv, NativeHolds, AcceptReturn, Fresh, Occupies
<1>2. slot'[fd] = n /\ fd \notin draining'
  BY <1>1 DEF RInv, Base, IInv, TypeOK, DrainingOccupied, SlotAfter, DrainingAfter
<1>3. /\ pc'[t] \in {"idle", "new"}
      /\ \A u \in Thread : u # t => pc'[u] = pc[u] /\ frame'[u] = frame[u]
      /\ \A m \in Sock : m # n => status'[m] = status[m] /\ (m \in raised' <=> m \in raised)
      /\ InUse' = InUse
      /\ StageOf(n)' \in {"open", "lost"}
  BY <1>1, <1>2, TakeKeeps
<1>4. /\ InsideOf(t) # <<NoSock, NoSock>> /\ InsideOf(t)' = <<NoSock, NoSock>>
      /\ \A u \in Thread : u # t => InsideOf(u)' = InsideOf(u)
  BY <1>1, <1>3, LifecycleAssumption DEF InsideOf
<1>5. \A m \in Sock : m # n => StageOf(m)' = StageLeft(t, m)
  <2>1. \A m \in Sock : m # n => \A f \in Fd : slot'[f] = m <=> SlotAfter(t)[f] = m
    BY <1>1, LifecycleAssumption DEF RInv, Base, IInv, TypeOK, SlotAfter
  <2> QED
    BY <1>1, <1>3, <2>1, StagesAfter
<1>6. StageLeft(t, n) = "none"
  BY <1>1, Stages DEF StageLeft
<1> QED
  BY <1>3, <1>4, <1>5, <1>6, LeavesWith

(* Every step of the Socket methods is allowed by the contract.             *)
LEMMA EveryStepKeeps ==
  ASSUME RInv, RInv', [Next]_vars
  PROVE  ContractStep
<1>1. CASE \E t \in Thread, n \in Sock, fd \in Fd : SocketCall(t, n, fd) \/ AcceptReturn(t, n, fd)
  BY <1>1, SocketCallKeeps, AcceptReturnKeeps
<1>2. CASE \E t \in Thread : Construct(t) \/ CallEnter(t) \/ CallReturn(t) \/ CloseNative(t) \/ Detach(t)
  BY <1>2, ConstructKeeps, CallEnterKeeps, CallReturnKeeps, CloseNativeKeeps, DetachKeeps
<1>3. CASE \E t \in Thread, n \in Sock : CloseBegin(t, n) \/ Collect(t, n)
  BY <1>3, CloseBeginKeeps, CollectKeeps
<1>4. ASSUME NEW t \in Thread, NEW n \in Sock, NEW op \in Op, CallBegin(t, n, op)
      PROVE  ContractStep
  BY <1>4, QuietKeeps DEF CallBegin, GoTo, SameRaised, RInv, Base, IInv, TypeOK
<1>5. ASSUME NEW t \in Thread, CallBadFd(t) \/ CallRefused(t)
      PROVE  ContractStep
  BY <1>5, QuietKeeps
  DEF CallBadFd, CallRefused, BackToProgram, GoTo, SameRaised, RInv, Base, IInv, TypeOK
<1>6. ASSUME NEW t \in Thread, CloseRaises(t) \/ ForgetFd(t)
      PROVE  ContractStep
  <2>1. status[frame[t].obj] = "live" /\ pc[t] \in InClosePc
    BY <1>6 DEF CloseRaises, ForgetFd, InClosePc, RInv, Base, IInv, Alive
  <2>2. \A n \in Sock : SameRaised(n)
    BY <1>6, <2>1 DEF CloseRaises, ForgetFd, SameRaised
  <2>3. /\ UNCHANGED <<slot, draining, status, finalizer, frame>>
        /\ pc'[t] \in InClosePc /\ \A u \in Thread : u # t => pc'[u] = pc[u]
    BY <1>6 DEF CloseRaises, ForgetFd, GoTo, InClosePc, RInv, Base, IInv, TypeOK
  <2> QED
    BY <2>1, <2>2, <2>3, QuietKeeps
<1>7. CASE (\E t \in Thread : SocketFails(t)) \/ (\E n \in Sock : Drop(n)) \/ UNCHANGED vars
  BY <1>7, QuietKeeps DEF SocketFails, Drop, SameRaised, vars
<1> QED
  BY <1>1, <1>2, <1>3, <1>4, <1>5, <1>6, <1>7 DEF Next, CallStep, CloseStep

(* At the start no connection is there and nobody is inside one.            *)
LEMMA ContractInit == Init => Contract!Init
<1> SUFFICES ASSUME Init PROVE Contract!Init
  OBVIOUS
<1>1. \A n \in Sock : StageOf(n) = "none"
  BY LifecycleAssumption DEF Init, StageOf, Occupies
<1>2. InUse = {} /\ \A t \in Thread : InsideOf(t) = <<NoSock, NoSock>>
  BY DEF Init, InUse, InsideOf
<1> QED
  BY <1>1, <1>2 DEF Contract!Init

(***************************************************************************)
(* The methods, the constructor and the finalizer of Socket implement the  *)
(* contract, for any number of threads, Sockets and descriptors, when no   *)
(* close() falls between the read of self._s and the native call of        *)
(* another thread, whether lwip_close refuses or not.                      *)
(***************************************************************************)
THEOREM ContractKept ==
  ASSUME "args" \notin Overlap
  PROVE  Spec => KeepsContract
<1>1. Init => RInv /\ Contract!Init
  BY RInvInit, ContractInit
<1>2. RInv /\ [Next]_vars => RInv'
  BY RInvStep
<1>3. RInv /\ RInv' /\ [Next]_vars => [Contract!Next]_(Contract!contractVars)
  BY EveryStepKeeps DEF ContractStep
<1> QED
  BY <1>1, <1>2, <1>3, PTL DEF Spec, KeepsContract, Contract!Spec

=============================================================================
