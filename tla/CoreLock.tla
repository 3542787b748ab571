----------------------------- MODULE CoreLock ------------------------------
(***************************************************************************)
(* The locks under which the Python side and the native side of the        *)
(* binding call each other: the GIL, one per process, and the core lock of *)
(* every lwIP instance (LWIP_TCPIP_CORE_LOCKING in lwipopts.h).            *)
(*                                                                         *)
(* A native call releases the GIL.  Netif methods hold the core lock over  *)
(* Python code (class TcpIpCoreLock); socket functions and netif.input     *)
(* take it themselves.  lwIP calls drivers and the routing function back   *)
(* while it holds the core lock, and such a callback needs the GIL.  The   *)
(* core lock is not recursive.                                             *)
(*                                                                         *)
(* A thread is a stack of what it is in the middle of, innermost last.     *)
(* The thread an lwIP instance runs for itself has the instance's name.    *)
(***************************************************************************)
EXTENDS Naturals, Sequences

CONSTANTS
  Thread,     \* Python threads
  Instance,   \* LwIP objects, and their own threads
  Nobody,     \* a lock is free
  Reach       \* <<i, j>>: Python code run under the core lock of i may call into j

ASSUME CoreLockAssumption ==
  /\ Thread \cap Instance = {}
  /\ Nobody \notin Thread \cup Instance
  /\ Reach \subseteq Instance \X Instance

VARIABLES
  gil,      \* the thread that runs Python code
  core,     \* the owner of the core lock of each instance
  pc,       \* what each thread does
  stack,    \* what each thread is in the middle of
  started   \* tcpip_init of each instance

vars == <<gil, core, pc, stack, started>>

All == Thread \cup Instance

(* with: a with TcpIpCoreLock statement; netif: the netif_* function called  *)
(* in it; call: a native function that takes the lock; init: LwIP().         *)
How == {"with", "netif", "call", "init"}
Frame == [how : How, inst : Instance]

Top(t) == stack[t][Len(stack[t])]
Below(t) == SubSeq(stack[t], 1, Len(stack[t]) - 1)
Is(t, how) == stack[t] # <<>> /\ Top(t).how \in how

TypeOK ==
  /\ gil \in All \cup {Nobody}
  /\ core \in [Instance -> All \cup {Nobody}]
  /\ pc \in [All -> {"python", "acquire", "native", "blocked", "event", "idle"}]
  /\ stack \in [All -> Seq(Frame)]
  /\ started \in [Instance -> {"no", "starting", "done"}]
  /\ \A t \in All :
       /\ pc[t] = "event" => Is(t, {"init"})
       /\ pc[t] = "native" => Is(t, {"netif", "call"})
       /\ pc[t] = "acquire" => Is(t, {"with", "call"})
       /\ pc[t] = "blocked" => Is(t, {"call"})

Init ==
  /\ gil = Nobody
  /\ core = [i \in Instance |-> Nobody]
  /\ pc = [t \in All |-> IF t \in Thread THEN "python" ELSE "idle"]
  /\ stack = [t \in All |-> <<>>]
  /\ started = [i \in Instance |-> "no"]

GoTo(t, where) == pc' = [pc EXCEPT ![t] = where]
Push(t, how, i) == stack' = [stack EXCEPT ![t] = Append(@, [how |-> how, inst |-> i])]
Pop(t) == stack' = [stack EXCEPT ![t] = Below(t)]

-----------------------------------------------------------------------------
(* The GIL.                                                                 *)

(* The thread runs Python code now. *)
Runs(t) == pc[t] = "python" /\ gil = t

TakeGil(t) ==
  /\ pc[t] = "python"
  /\ gil = Nobody
  /\ gil' = t
  /\ UNCHANGED <<core, pc, stack, started>>

(* The interpreter switches threads, or a native call has returned. *)
YieldGil(t) ==
  /\ Runs(t)
  /\ gil' = Nobody
  /\ UNCHANGED <<core, pc, stack, started>>

-----------------------------------------------------------------------------
(* LwIP().                                                                  *)

(* tcpip_init has started lwIP's thread; init_done.wait(). *)
TcpipInit(t, i) ==
  /\ Runs(t)
  /\ stack[t] = <<>>
  /\ started[i] = "no"
  /\ started' = [started EXCEPT ![i] = "starting"]
  /\ Push(t, "init", i)
  /\ GoTo(t, "event")
  /\ gil' = Nobody
  /\ UNCHANGED core

(* lwIP's thread calls _tcpip_init_done with the core lock held. *)
TcpipThread(i) ==
  /\ pc[i] = "idle"
  /\ stack[i] = <<>>
  /\ started[i] = "starting"
  /\ core[i] = Nobody
  /\ core' = [core EXCEPT ![i] = i]
  /\ Push(i, "call", i)
  /\ GoTo(i, "python")
  /\ UNCHANGED <<gil, started>>

(* Mutant of TcpipInitDone: the event is not set. *)
TcpipInitNotDone(i) ==
  /\ Runs(i)
  /\ Is(i, {"call"})
  /\ started[i] = "starting"
  /\ GoTo(i, "native")
  /\ gil' = Nobody
  /\ UNCHANGED <<core, stack, started>>

(* _tcpip_init_done: init_done.set(), and back to lwIP. *)
TcpipInitDone(i) ==
  /\ Runs(i)
  /\ Is(i, {"call"})
  /\ started[i] = "starting"
  /\ started' = [started EXCEPT ![i] = "done"]
  /\ GoTo(i, "native")
  /\ gil' = Nobody
  /\ UNCHANGED <<core, stack>>

(* init_done.wait() returns. *)
InitDone(t) ==
  /\ pc[t] = "event"
  /\ started[Top(t).inst] = "done"
  /\ Pop(t)
  /\ GoTo(t, "python")
  /\ UNCHANGED <<gil, core, started>>

(***************************************************************************)
(* Python code may call into an instance that is up: that of a program,    *)
(* and under a core lock, in a callback or the body of a with statement,   *)
(* as Reach says.  _tcpip_init_done calls nothing.                         *)
(***************************************************************************)
MayCall(t, i) ==
  /\ started[i] = "done"
  /\ t \in Instance => started[t] = "done"
  /\ stack[t] # <<>> => <<Top(t).inst, i>> \in Reach

-----------------------------------------------------------------------------
(* Netif methods.                                                           *)

(* Mutant of Enter: the GIL is kept while the thread waits for the core lock. *)
EnterHoldingGil(t, i) ==
  /\ Runs(t)
  /\ MayCall(t, i)
  /\ Push(t, "with", i)
  /\ GoTo(t, "acquire")
  /\ UNCHANGED <<gil, core, started>>

(* TcpIpCoreLock.__enter__ calls sys_lock_tcpip_core, in a callback or another with, too. *)
Enter(t, i) ==
  /\ Runs(t)
  /\ MayCall(t, i)
  /\ Push(t, "with", i)
  /\ GoTo(t, "acquire")
  /\ gil' = Nobody
  /\ UNCHANGED <<core, started>>

(* Mutant of Acquire: the body of the statement is taken for a native call. *)
AcquireNative(t) ==
  /\ pc[t] = "acquire"
  /\ core[Top(t).inst] = Nobody
  /\ core' = [core EXCEPT ![Top(t).inst] = t]
  /\ GoTo(t, "native")
  /\ UNCHANGED <<gil, stack, started>>

(* The lock is free: on with the with statement, or with the function. *)
Acquire(t) ==
  /\ pc[t] = "acquire"
  /\ core[Top(t).inst] = Nobody
  /\ core' = [core EXCEPT ![Top(t).inst] = t]
  /\ GoTo(t, IF Is(t, {"with"}) THEN "python" ELSE "native")
  /\ UNCHANGED <<gil, stack, started>>

(* The body of the statement calls netif_add, netif_remove, netif_set_*. *)
CallNetif(t) ==
  /\ Runs(t)
  /\ Is(t, {"with"})
  /\ Push(t, "netif", Top(t).inst)
  /\ GoTo(t, "native")
  /\ gil' = Nobody
  /\ UNCHANGED <<core, started>>

(* Mutant of Exit: sys_unlock_tcpip_core is not called. *)
ExitLocked(t) ==
  /\ Runs(t)
  /\ Is(t, {"with"})
  /\ Pop(t)
  /\ UNCHANGED <<gil, core, pc, started>>

(* TcpIpCoreLock.__exit__: the body is done, or has raised. *)
Exit(t) ==
  /\ Runs(t)
  /\ Is(t, {"with"})
  /\ core' = [core EXCEPT ![Top(t).inst] = Nobody]
  /\ Pop(t)
  /\ UNCHANGED <<gil, pc, started>>

-----------------------------------------------------------------------------
(* Functions that take the core lock themselves.                            *)

(***************************************************************************)
(* A socket function, netif.input, or the lwip_close of a finalizer, which *)
(* may run wherever Python code does.                                      *)
(***************************************************************************)
Call(t, i) ==
  /\ Runs(t)
  /\ MayCall(t, i)
  /\ Push(t, "call", i)
  /\ GoTo(t, "acquire")
  /\ gil' = Nobody
  /\ UNCHANGED <<core, started>>

(* A timer or a message for lwIP's thread. *)
TcpipWork(i) ==
  /\ pc[i] = "idle"
  /\ started[i] = "done"
  /\ Push(i, "call", i)
  /\ GoTo(i, "acquire")
  /\ UNCHANGED <<gil, core, started>>

(* recv, accept or a full send buffer: wait without the core lock. *)
Block(t) ==
  /\ t \in Thread
  /\ pc[t] = "native"
  /\ Is(t, {"call"})
  /\ core' = [core EXCEPT ![Top(t).inst] = Nobody]
  /\ GoTo(t, "blocked")
  /\ UNCHANGED <<gil, stack, started>>

Wake(t) ==
  /\ pc[t] = "blocked"
  /\ GoTo(t, "acquire")
  /\ UNCHANGED <<gil, core, stack, started>>

(* _netif_init, _netif_output, _netif_output_ip6 or the routing hook is called. *)
Callback(t) ==
  /\ pc[t] = "native"
  /\ GoTo(t, "python")
  /\ UNCHANGED <<gil, core, stack, started>>

CallbackReturn(t) ==
  /\ Runs(t)
  /\ Is(t, {"netif", "call"})
  /\ t \in Instance => started[t] = "done"
  /\ GoTo(t, "native")
  /\ gil' = Nobody
  /\ UNCHANGED <<core, stack, started>>

(* The native function returns; what took the core lock gives it back. *)
Return(t) ==
  /\ pc[t] = "native"
  /\ core' = IF Is(t, {"call"}) THEN [core EXCEPT ![Top(t).inst] = Nobody] ELSE core
  /\ Pop(t)
  /\ GoTo(t, IF t \in Instance /\ Below(t) = <<>> THEN "idle" ELSE "python")
  /\ UNCHANGED <<gil, started>>

-----------------------------------------------------------------------------

Next ==
  \/ \E t \in All :
       \/ TakeGil(t) \/ YieldGil(t) \/ InitDone(t)
       \/ Acquire(t) \/ CallNetif(t) \/ Exit(t)
       \/ Block(t) \/ Wake(t) \/ Callback(t) \/ CallbackReturn(t) \/ Return(t)
       \/ \E i \in Instance : Enter(t, i) \/ Call(t, i)
  \/ \E t \in Thread, i \in Instance : TcpipInit(t, i)
  \/ \E i \in Instance : TcpipThread(i) \/ TcpipInitDone(i) \/ TcpipWork(i)

Spec == Init /\ [][Next]_vars

(***************************************************************************)
(* Native code runs; the interpreter passes the GIL on to every thread     *)
(* that keeps asking for it; with statements and callbacks come to their   *)
(* end.  The core lock promises no order, and nothing wakes a blocked call.*)
(***************************************************************************)
Fairness ==
  /\ \A t \in All :
       /\ SF_vars(TakeGil(t))
       /\ SF_vars(Exit(t))
       /\ SF_vars(CallbackReturn(t))
       /\ WF_vars(YieldGil(t))
       /\ WF_vars(Acquire(t))
       /\ WF_vars(InitDone(t))
       /\ SF_vars(Return(t))
  /\ \A i \in Instance : WF_vars(TcpipThread(i)) /\ SF_vars(TcpipInitDone(i))

FairSpec == Spec /\ Fairness

-----------------------------------------------------------------------------

(* The frame on which the thread holds, or waits for, a core lock. *)
Locks(frame) == frame.how \in {"with", "call"}

Holds(t, i) ==
  \E k \in 1..Len(stack[t]) :
    /\ Locks(stack[t][k]) /\ stack[t][k].inst = i
    /\ k < Len(stack[t]) \/ pc[t] \in {"python", "native"}

(***************************************************************************)
(* A core lock is held by exactly the thread that is between taking it and *)
(* giving it back: no path out of a with statement, a callback or a nested *)
(* call keeps it, and none works on the stack of an instance without it    *)
(* (LWIP_ASSERT_CORE_LOCKED in lwipopts.h).                                *)
(***************************************************************************)
CoreHeld == \A t \in All, i \in Instance : core[i] = t <=> Holds(t, i)

(* The thread that has what t needs to go on. *)
WaitsFor(t, u) ==
  \/ pc[t] = "acquire" /\ core[Top(t).inst] = u
  \/ pc[t] = "python" /\ gil = u /\ gil # t

(***************************************************************************)
(* No deadly embrace: no threads wait only for each other's core locks and *)
(* GIL.  It rests on Reach: a driver that feeds packets of one instance to *)
(* another from its output callback, or a Socket finalized in a callback,  *)
(* may make a cycle.                                                       *)
(***************************************************************************)
NoEmbrace ==
  \A S \in (SUBSET All) \ {{}} : \E t \in S : \A u \in S : ~WaitsFor(t, u)

(***************************************************************************)
(* A core lock that is taken is given back, when those who hold it call    *)
(* into no other instance: that callbacks need the GIL does not keep it.   *)
(***************************************************************************)
CoreReleased ==
  \A i \in Instance :
    (\A j \in Instance : <<i, j>> \notin Reach) => (core[i] # Nobody ~> core[i] = Nobody)

(* LwIP() returns: lwIP's thread gets through its first callback. *)
InitEnds == \A t \in Thread : pc[t] = "event" ~> pc[t] = "python"

=============================================================================
