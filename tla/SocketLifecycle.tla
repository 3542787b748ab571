-------------------------- MODULE SocketLifecycle --------------------------
(***************************************************************************)
(* The life of the Socket objects of src/lwip/socket.py: LwIP.socket and   *)
(* accept create them from a raw descriptor, any thread may call a method  *)
(* on them, close() or the weakref finalizer returns the descriptor.       *)
(*                                                                         *)
(* Python threads interleave between bytecodes and around every native     *)
(* call, so a method that reads self._s and then calls lwIP is two steps,  *)
(* and close() is four: read self._s, lwip_close, self._s = -1, detach.    *)
(*                                                                         *)
(* The lwIP socket table is external: a slot per descriptor, held by one   *)
(* connection; a slot closed while native calls are inside it is drained   *)
(* and only then reused (LWIP_NETCONN_FULLDUPLEX in lwipopts.h).  A        *)
(* connection and the Socket made for it share one name of the set Sock.   *)
(***************************************************************************)
EXTENDS LwipError

CONSTANTS
  Thread,            \* the Python threads of the program
  Sock,              \* names of connections and of the Socket objects made for them
  Fd,                \* the slots of lwIP's socket table
  NoFd,              \* self._s = -1, or a finalizer that has been detached
  NoSock,            \* no connection: a free slot, or an idle thread
  Overlap,           \* the stages of a call during which the program may close its Socket
  CloseMayFail       \* lwip_close may refuse and leave the slot open

ASSUME LifecycleAssumption ==
  /\ NoFd \notin Fd
  /\ NoSock \notin Sock
  /\ Overlap \subseteq {"args", "native"}
  /\ CloseMayFail \in BOOLEAN

VARIABLES
  slot,       \* lwIP: the connection in each slot
  draining,   \* lwIP: slots closed while native calls are still inside
  status,     \* none, raw (a descriptor without object yet) or live
  fileno,     \* Socket._s
  finalizer,  \* the descriptor Socket._finalizer would close
  held,       \* the Socket objects the program still refers to
  pc,         \* where each thread is
  frame,      \* the arguments of the call each thread is in
  errno,      \* ffi.errno of each thread, 0 or ErrnoSet
  raised      \* history: objects whose creation or close() raised an exception

vars == <<slot, draining, status, fileno, finalizer, held, pc, frame, errno, raised>>

ErrnoSet == 1
Status == {"none", "raw", "live"}
Op == {"io", "accept", "connect_ex"}
InCallPc == {"args", "native"}
InClosePc == {"closing", "closed", "detach"}
Pc == {"idle", "new"} \cup InCallPc \cup InClosePc

NoFrame == [obj |-> NoSock, fd |-> NoFd, op |-> "io", conn |-> NoSock]
Frame == [obj : Sock \cup {NoSock}, fd : Fd \cup {NoFd}, op : Op, conn : Sock \cup {NoSock}]

TypeOK ==
  /\ slot \in [Fd -> Sock \cup {NoSock}]
  /\ draining \subseteq Fd
  /\ status \in [Sock -> Status]
  /\ fileno \in [Sock -> Fd \cup {NoFd}]
  /\ finalizer \in [Sock -> Fd \cup {NoFd}]
  /\ held \subseteq Sock
  /\ pc \in [Thread -> Pc]
  /\ frame \in [Thread -> Frame]
  /\ errno \in [Thread -> {0, ErrnoSet}]
  /\ raised \subseteq Sock

Init ==
  /\ slot = [fd \in Fd |-> NoSock]
  /\ draining = {}
  /\ status = [n \in Sock |-> "none"]
  /\ fileno = [n \in Sock |-> NoFd]
  /\ finalizer = [n \in Sock |-> NoFd]
  /\ held = {}
  /\ pc = [t \in Thread |-> "idle"]
  /\ frame = [t \in Thread |-> NoFrame]
  /\ errno = [t \in Thread |-> 0]
  /\ raised = {}

-----------------------------------------------------------------------------
(* The lwIP socket table.                                                   *)

(* get_socket finds a connection behind the descriptor. *)
Open(fd) == fd \in Fd /\ slot[fd] # NoSock /\ fd \notin draining

(* The threads inside a native call on the slot. *)
Users(fd) == {t \in Thread : pc[t] = "native" /\ frame[t].fd = fd}

(* The connection is in the table. *)
Occupies(n) == \E fd \in Fd : slot[fd] = n

(* lwip_close on an open slot: free it, or let the calls inside drain. *)
CloseSlot(fd) ==
  \/ /\ Users(fd) = {}
     /\ slot' = [slot EXCEPT ![fd] = NoSock]
     /\ UNCHANGED draining
  \/ /\ Users(fd) # {}
     /\ draining' = draining \cup {fd}
     /\ UNCHANGED slot

(* The table when thread t leaves its slot: the last one out frees it. *)
LastOut(t) == frame[t].fd \in draining /\ Users(frame[t].fd) = {t}
SlotAfter(t) == IF LastOut(t) THEN [slot EXCEPT ![frame[t].fd] = NoSock] ELSE slot
DrainingAfter(t) == IF LastOut(t) THEN draining \ {frame[t].fd} ELSE draining

-----------------------------------------------------------------------------
(* What the program and the threads refer to.                               *)

Busy(n) == \E t \in Thread : pc[t] # "idle" /\ frame[t].obj = n
InCall(n, where) == \E t \in Thread : pc[t] = where /\ frame[t].obj = n
InClose(n) == \E t \in Thread : pc[t] \in InClosePc /\ frame[t].obj = n
Fresh(n) == status[n] = "none" /\ ~Occupies(n)

(* "Do not call close() concurrently from multiple threads." *)
SoleCloser(n) == ~InClose(n)

GoTo(t, where) == pc' = [pc EXCEPT ![t] = where]
BackToProgram(t) == GoTo(t, "idle") /\ frame' = [frame EXCEPT ![t] = NoFrame]

-----------------------------------------------------------------------------
(* Creation.                                                                *)

(***************************************************************************)
(* check_ret_errno around a native call that has just put connection n     *)
(* into slot fd.  The descriptor is a local value of thread t; when a      *)
(* stray errno makes the wrapper raise, nobody holds it any more.          *)
(***************************************************************************)
TakeDescriptor(t, n, fd) ==
  /\ errno' = [errno EXCEPT ![t] = ErrnoLeft(errno[t])]
  /\ \E after \in {0, ErrnoSet} :
       \/ /\ Outcome(0, after) = "ok"
          /\ status' = [status EXCEPT ![n] = "raw"]
          /\ raised' = raised \ {n}
          /\ GoTo(t, "new")
          /\ frame' = [frame EXCEPT ![t] = [NoFrame EXCEPT !.obj = n, !.fd = fd]]
       \/ /\ Outcome(0, after) # "ok"
          /\ raised' = raised \cup {n}
          /\ BackToProgram(t)
          /\ UNCHANGED status

(* LwIP.socket: lwip_socket finds a free slot. *)
SocketCall(t, n, fd) ==
  /\ pc[t] = "idle"
  /\ ~RefusesCall(errno[t])
  /\ Fresh(n)
  /\ slot[fd] = NoSock
  /\ slot' = [slot EXCEPT ![fd] = n]
  /\ TakeDescriptor(t, n, fd)
  /\ UNCHANGED <<draining, fileno, finalizer, held>>

(* LwIP.socket: no slot or no memory, or the wrapper refuses the call. *)
SocketFails(t) ==
  /\ pc[t] = "idle"
  /\ errno' = [errno EXCEPT ![t] = ErrnoLeft(errno[t])]
  /\ UNCHANGED <<slot, draining, status, fileno, finalizer, held, pc, frame, raised>>

(* Mutant of Construct: the finalizer is never armed. *)
ConstructUnarmed(t) ==
  /\ pc[t] = "new"
  /\ status' = [status EXCEPT ![frame[t].obj] = "live"]
  /\ fileno' = [fileno EXCEPT ![frame[t].obj] = frame[t].fd]
  /\ held' = held \cup {frame[t].obj}
  /\ BackToProgram(t)
  /\ UNCHANGED <<slot, draining, finalizer, errno, raised>>

(* Socket.__init__: store the descriptor and arm the finalizer. *)
Construct(t) ==
  /\ pc[t] = "new"
  /\ LET n == frame[t].obj IN
       /\ status' = [status EXCEPT ![n] = "live"]
       /\ fileno' = [fileno EXCEPT ![n] = frame[t].fd]
       /\ finalizer' = [finalizer EXCEPT ![n] = frame[t].fd]
       /\ held' = held \cup {n}
  /\ BackToProgram(t)
  /\ UNCHANGED <<slot, draining, errno, raised>>

-----------------------------------------------------------------------------
(* Method calls: bind, listen, connect, send*, recv*, shutdown, get*name,   *)
(* *sockopt, ioctl, fcntl ("io"), accept, and connect_ex.                   *)

(* The arguments of the native call are evaluated: self._s is read. *)
CallBegin(t, n, op) ==
  /\ pc[t] = "idle"
  /\ n \in held
  /\ InClose(n) => "args" \in Overlap
  /\ GoTo(t, "args")
  /\ frame' = [frame EXCEPT ![t] = [NoFrame EXCEPT !.obj = n, !.fd = fileno[n], !.op = op]]
  /\ UNCHANGED <<slot, draining, status, fileno, finalizer, held, errno, raised>>

(* connect_ex calls lwIP directly, every other method through check_ret_errno. *)
Checked(op) == op # "connect_ex"
Refused(t) == Checked(frame[t].op) /\ RefusesCall(errno[t])

(* The native function finds a connection behind the descriptor it was given. *)
CallEnter(t) ==
  /\ pc[t] = "args"
  /\ ~Refused(t)
  /\ Open(frame[t].fd)
  /\ GoTo(t, "native")
  /\ frame' = [frame EXCEPT ![t].conn = slot[frame[t].fd]]
  /\ UNCHANGED <<slot, draining, status, fileno, finalizer, held, errno, raised>>

(* EBADF: no connection behind the descriptor; connect_ex leaves errno set. *)
CallBadFd(t) ==
  /\ pc[t] = "args"
  /\ ~Refused(t)
  /\ ~Open(frame[t].fd)
  /\ errno' = [errno EXCEPT ![t] = IF Checked(frame[t].op) THEN ErrnoLeft(@) ELSE ErrnoSet]
  /\ BackToProgram(t)
  /\ UNCHANGED <<slot, draining, status, fileno, finalizer, held, raised>>

(* The wrapper raises its warning instead of calling lwIP. *)
CallRefused(t) ==
  /\ pc[t] = "args"
  /\ Refused(t)
  /\ BackToProgram(t)
  /\ UNCHANGED <<slot, draining, status, fileno, finalizer, held, errno, raised>>

(* The native call returns a value or fails, with or without setting errno. *)
CallReturn(t) ==
  /\ pc[t] = "native"
  /\ slot' = SlotAfter(t)
  /\ draining' = DrainingAfter(t)
  /\ \E after \in {errno[t], ErrnoSet} :
       errno' = [errno EXCEPT ![t] = IF Checked(frame[t].op) THEN ErrnoLeft(@) ELSE after]
  /\ BackToProgram(t)
  /\ UNCHANGED <<status, fileno, finalizer, held, raised>>

(* lwip_accept returns the descriptor of a new connection. *)
AcceptReturn(t, n, fd) ==
  /\ pc[t] = "native"
  /\ frame[t].op = "accept"
  /\ Fresh(n)
  /\ slot[fd] = NoSock
  /\ slot' = [SlotAfter(t) EXCEPT ![fd] = n]
  /\ draining' = DrainingAfter(t)
  /\ TakeDescriptor(t, n, fd)
  /\ UNCHANGED <<fileno, finalizer, held>>

-----------------------------------------------------------------------------
(* Socket.close, and the finalizer of an object that was never closed.      *)

CloseBegin(t, n) ==
  /\ pc[t] = "idle"
  /\ n \in held
  /\ fileno[n] # NoFd
  /\ SoleCloser(n)
  /\ \A where \in InCallPc : InCall(n, where) => where \in Overlap
  /\ GoTo(t, "closing")
  /\ frame' = [frame EXCEPT ![t] = [NoFrame EXCEPT !.obj = n, !.fd = fileno[n]]]
  /\ UNCHANGED <<slot, draining, status, fileno, finalizer, held, errno, raised>>

(* check_ret_errno('close', lwip_close, fd) closes the slot. *)
CloseNative(t) ==
  /\ pc[t] = "closing"
  /\ ~RefusesCall(errno[t])
  /\ Open(frame[t].fd)
  /\ CloseSlot(frame[t].fd)
  /\ errno' = [errno EXCEPT ![t] = ErrnoLeft(@)]
  /\ \E after \in {0, ErrnoSet} :
       raised' = IF Outcome(0, after) = "ok" THEN raised ELSE raised \cup {frame[t].obj}
  /\ GoTo(t, "closed")
  /\ UNCHANGED <<status, fileno, finalizer, held, frame>>

(* Mutant of CloseRaises: the exception is swallowed. *)
CloseSwallows(t) ==
  /\ pc[t] = "closing"
  /\ RefusesCall(errno[t]) \/ CloseMayFail \/ ~Open(frame[t].fd)
  /\ errno' = [errno EXCEPT ![t] = ErrnoLeft(@)]
  /\ GoTo(t, "closed")
  /\ UNCHANGED <<slot, draining, status, fileno, finalizer, held, frame, raised>>

(* The wrapper raises: it did not call lwip_close, or lwip_close refused. *)
CloseRaises(t) ==
  /\ pc[t] = "closing"
  /\ RefusesCall(errno[t]) \/ CloseMayFail \/ ~Open(frame[t].fd)
  /\ errno' = [errno EXCEPT ![t] = ErrnoLeft(@)]
  /\ raised' = raised \cup {frame[t].obj}
  /\ GoTo(t, "closed")
  /\ UNCHANGED <<slot, draining, status, fileno, finalizer, held, frame>>

(* Mutant of ForgetFd: the number stays in self._s. *)
ForgetFdNot(t) ==
  /\ pc[t] = "closed"
  /\ GoTo(t, "detach")
  /\ UNCHANGED <<slot, draining, status, fileno, finalizer, held, frame, errno, raised>>

(* Mutant of ForgetFd: self._s = None. *)
ForgetFdToNone(t) ==
  /\ pc[t] = "closed"
  /\ fileno' = [fileno EXCEPT ![frame[t].obj] = NoSock]
  /\ GoTo(t, "detach")
  /\ UNCHANGED <<slot, draining, status, finalizer, held, frame, errno, raised>>

(* finally: self._s = -1, whether or not lwip_close succeeded. *)
ForgetFd(t) ==
  /\ pc[t] = "closed"
  /\ fileno' = [fileno EXCEPT ![frame[t].obj] = NoFd]
  /\ GoTo(t, "detach")
  /\ UNCHANGED <<slot, draining, status, finalizer, held, frame, errno, raised>>

(* Mutant of Detach: the finalizer stays armed. *)
DetachNot(t) ==
  /\ pc[t] = "detach"
  /\ BackToProgram(t)
  /\ UNCHANGED <<slot, draining, status, fileno, finalizer, held, errno, raised>>

(* finally: self._finalizer.detach(). *)
Detach(t) ==
  /\ pc[t] = "detach"
  /\ finalizer' = [finalizer EXCEPT ![frame[t].obj] = NoFd]
  /\ BackToProgram(t)
  /\ UNCHANGED <<slot, draining, status, fileno, held, errno, raised>>

(* The program lets go of its last reference. *)
Drop(n) ==
  /\ n \in held
  /\ held' = held \ {n}
  /\ UNCHANGED <<slot, draining, status, fileno, finalizer, pc, frame, errno, raised>>

Unreachable(n) == status[n] = "live" /\ n \notin held /\ ~Busy(n)

(* Mutant of Collect: the object goes, its finalizer is not run. *)
CollectOnly(t, n) ==
  /\ pc[t] # "native"
  /\ Unreachable(n)
  /\ status' = [status EXCEPT ![n] = "none"]
  /\ fileno' = [fileno EXCEPT ![n] = NoFd]
  /\ finalizer' = [finalizer EXCEPT ![n] = NoFd]
  /\ UNCHANGED <<slot, draining, held, pc, frame, errno, raised>>

(***************************************************************************)
(* An unreachable object is collected in some thread that runs Python      *)
(* code; weakref.finalize calls lwip_close directly, so a failure goes     *)
(* unreported and leaves that thread's errno set.                          *)
(***************************************************************************)
Collect(t, n) ==
  /\ pc[t] # "native"
  /\ Unreachable(n)
  /\ \/ /\ finalizer[n] = NoFd
        /\ UNCHANGED <<slot, draining, errno>>
     \/ /\ Open(finalizer[n])
        /\ CloseSlot(finalizer[n])
        /\ UNCHANGED errno
     \/ /\ finalizer[n] # NoFd
        /\ CloseMayFail \/ ~Open(finalizer[n])
        /\ errno' = [errno EXCEPT ![t] = ErrnoSet]
        /\ UNCHANGED <<slot, draining>>
  /\ status' = [status EXCEPT ![n] = "none"]
  /\ fileno' = [fileno EXCEPT ![n] = NoFd]
  /\ finalizer' = [finalizer EXCEPT ![n] = NoFd]
  /\ UNCHANGED <<held, pc, frame, raised>>

-----------------------------------------------------------------------------

CallStep(t) == CallEnter(t) \/ CallBadFd(t) \/ CallRefused(t)
CloseStep(t) == CloseNative(t) \/ CloseRaises(t) \/ ForgetFd(t) \/ Detach(t)

Next ==
  \/ \E t \in Thread :
       \/ SocketFails(t) \/ Construct(t) \/ CallStep(t) \/ CallReturn(t) \/ CloseStep(t)
       \/ \E n \in Sock :
            \/ \E op \in Op : CallBegin(t, n, op)
            \/ CloseBegin(t, n)
            \/ Collect(t, n)
            \/ \E fd \in Fd : SocketCall(t, n, fd) \/ AcceptReturn(t, n, fd)
  \/ \E n \in Sock : Drop(n)

Spec == Init /\ [][Next]_vars

(***************************************************************************)
(* Every thread that is inside a wrapper is scheduled again; CPython       *)
(* collects an object no reference leads to; and lwIP wakes the calls      *)
(* inside a slot that is being closed.  Nothing makes a call on an open    *)
(* connection return, or the program call or drop anything.                *)
(***************************************************************************)
Fairness ==
  /\ \A t \in Thread :
       /\ WF_vars(Construct(t))
       /\ WF_vars(CallStep(t))
       /\ WF_vars(CloseStep(t))
       /\ WF_vars(frame[t].fd \in draining /\ CallReturn(t))
  /\ \A n \in Sock : SF_vars(\E t \in Thread : Collect(t, n))

FairSpec == Spec /\ Fairness

-----------------------------------------------------------------------------
(* Properties.                                                              *)

(***************************************************************************)
(* The descriptor of a Socket that nobody is closing is open, leads to its *)
(* own connection and is the one the finalizer would close: neither the    *)
(* close() nor the finalizer of another Socket has taken it away, although *)
(* lwIP hands out the same numbers again and again.                        *)
(***************************************************************************)
UnclosedKeepsConnection ==
  \A n \in Sock :
    status[n] = "live" /\ finalizer[n] # NoFd /\ ~InClose(n)
      => /\ fileno[n] = finalizer[n]
         /\ Open(finalizer[n])
         /\ slot[finalizer[n]] = n

(***************************************************************************)
(* A native call made for a method of a Socket acts on the connection of   *)
(* that Socket, never on one that has since received the same descriptor.  *)
(***************************************************************************)
NoCrossTalk ==
  \A t \in Thread : pc[t] = "native" => frame[t].conn = frame[t].obj

(* Somebody will still close the slot: a constructor, a finalizer, a drain. *)
Accounted(fd) ==
  \/ fd \in draining
  \/ status[slot[fd]] = "raw"
  \/ status[slot[fd]] = "live" /\ finalizer[slot[fd]] = fd

(***************************************************************************)
(* No slot of the table is lost while lwip_close succeeds and warnings are *)
(* only printed: at every moment something is left that will close it.     *)
(***************************************************************************)
NoLeak == \A fd \in Fd : slot[fd] # NoSock => Accounted(fd)

(***************************************************************************)
(* With warnings raised as exceptions, a slot can be lost; but then the    *)
(* socket(), accept() or close() that lost it raised.                      *)
(***************************************************************************)
LeakIsRaised ==
  \A fd \in Fd : slot[fd] # NoSock => Accounted(fd) \/ slot[fd] \in raised

(* Some thread is running Python code rather than sitting in lwIP. *)
PythonRuns == \E t \in Thread : pc[t] # "native"

(***************************************************************************)
(* Once close() has been entered the connection leaves the table, even     *)
(* with calls blocked inside it, or close() has raised; and so does the    *)
(* connection of an object that became unreachable, unless every thread    *)
(* stays blocked in lwIP and no thread is left to run the finalizer.       *)
(***************************************************************************)
CloseReleases ==
  \A n \in Sock :
    /\ InClose(n) ~> ~Occupies(n) \/ n \in raised
    /\ []<>PythonRuns => (Unreachable(n) ~> ~Occupies(n) \/ n \in raised)

=============================================================================
