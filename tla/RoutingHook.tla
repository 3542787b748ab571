---------------------------- MODULE RoutingHook ----------------------------
(***************************************************************************)
(* The IPv4 routing override: LwIP.set_routing_function of                 *)
(* src/lwip/__init__.py makes a cffi closure around a Python function,     *)
(* keeps it in self.routing_hook and stores its address in the C variable  *)
(* that custom_ip4_route_src_hook of liblwip/compat.c calls through.       *)
(*                                                                         *)
(* A closure is memory that cffi frees with the last Python reference and  *)
(* hands out again; the C variable is no reference.  Setters are Python    *)
(* threads; packets are routed one at a time under lwIP's core lock, by a  *)
(* thread that reads the C variable without the GIL and needs the GIL to   *)
(* enter the closure.                                                      *)
(***************************************************************************)
CONSTANTS
  Setter,       \* the threads that call set_routing_function
  Fn,           \* routing functions of the program
  Closure,      \* addresses of cffi closures
  NoFn,         \* free closure memory
  NoClosure,    \* NULL, or None
  Serialised    \* the program makes one set_routing_function call at a time

ASSUME RoutingAssumption ==
  /\ NoFn \notin Fn
  /\ NoClosure \notin Closure
  /\ Serialised \in BOOLEAN

VARIABLES
  mem,         \* the function behind each closure address
  attr,        \* LwIP.routing_hook
  override,    \* ip4_route_override
  pc,          \* where each setter is
  hook,        \* the local variable hook of each setter
  route,       \* the packet being routed: stage, closure called, function entered
  inForce,     \* history: the function of the last call that returned
  overlap      \* history: a call of set_routing_function, while the packet is routed

vars == <<mem, attr, override, pc, hook, route, inForce, overlap>>

NoRoute == [at |-> "none", closure |-> NoClosure, fn |-> NoFn]

TypeOK ==
  /\ mem \in [Closure -> Fn \cup {NoFn}]
  /\ attr \in Closure \cup {NoClosure}
  /\ override \in Closure \cup {NoClosure}
  /\ pc \in [Setter -> {"idle", "made", "kept", "set"}]
  /\ hook \in [Setter -> Closure \cup {NoClosure}]
  /\ route \in [at : {"none", "loaded", "inside", "undefined"},
                closure : Closure \cup {NoClosure}, fn : Fn \cup {NoFn}]
  /\ inForce \in Fn \cup {NoFn}
  /\ overlap \in {"none", "call"}

Init ==
  /\ mem = [c \in Closure |-> NoFn]
  /\ attr = NoClosure
  /\ override = NoClosure
  /\ pc = [s \in Setter |-> "idle"]
  /\ hook = [s \in Setter |-> NoClosure]
  /\ route = NoRoute
  /\ inForce = NoFn
  /\ overlap = "none"

-----------------------------------------------------------------------------
(* set_routing_function.                                                    *)

Setting(s) == pc[s] # "idle"
Settled == \A s \in Setter : ~Setting(s)

(* The closures that a local variable of some setter refers to. *)
Locals(h) == {h[s] : s \in Setter}

(* Memory once only the closures in kept are referred to from Python. *)
Release(kept) == [c \in Closure |-> IF c \in kept THEN mem[c] ELSE NoFn]

(* @ffi.callback: allocate a closure for the function f. *)
MakeHook(s, f, c) ==
  /\ pc[s] = "idle"
  /\ Serialised => Settled
  /\ mem[c] = NoFn
  /\ mem' = [mem EXCEPT ![c] = f]
  /\ hook' = [hook EXCEPT ![s] = c]
  /\ pc' = [pc EXCEPT ![s] = "made"]
  /\ overlap' = "call"
  /\ UNCHANGED <<attr, override, route, inForce>>

(* Mutant of KeepHook: nothing keeps the closure. *)
KeepNot(s) ==
  /\ pc[s] = "made"
  /\ pc' = [pc EXCEPT ![s] = "kept"]
  /\ UNCHANGED <<mem, attr, override, hook, route, inForce, overlap>>

(* Mutant of KeepHook: self.routing_hook = routing_fn. *)
KeepFunction(s) ==
  /\ pc[s] = "made"
  /\ attr' = mem[hook[s]]
  /\ mem' = Release(Locals(hook))
  /\ pc' = [pc EXCEPT ![s] = "kept"]
  /\ UNCHANGED <<override, hook, route, inForce, overlap>>

(* self.routing_hook = hook: the closure kept until now loses a reference. *)
KeepHook(s) ==
  /\ pc[s] = "made"
  /\ attr' = hook[s]
  /\ mem' = Release({hook[s]} \cup Locals(hook))
  /\ pc' = [pc EXCEPT ![s] = "kept"]
  /\ UNCHANGED <<override, hook, route, inForce, overlap>>

(* Mutant of InstallHook: an override that is there is not replaced. *)
InstallFirst(s) ==
  /\ pc[s] = "kept"
  /\ override' = IF override = NoClosure THEN hook[s] ELSE override
  /\ pc' = [pc EXCEPT ![s] = "set"]
  /\ UNCHANGED <<mem, attr, hook, route, inForce, overlap>>

(* set_ip4_route_fn_override(hook), without the core lock. *)
InstallHook(s) ==
  /\ pc[s] = "kept"
  /\ override' = hook[s]
  /\ pc' = [pc EXCEPT ![s] = "set"]
  /\ UNCHANGED <<mem, attr, hook, route, inForce, overlap>>

(* The method returns and its local variable goes. *)
SetReturn(s) ==
  /\ pc[s] = "set"
  /\ hook' = [hook EXCEPT ![s] = NoClosure]
  /\ mem' = Release({attr} \cup Locals(hook'))
  /\ inForce' = mem[hook[s]]
  /\ pc' = [pc EXCEPT ![s] = "idle"]
  /\ UNCHANGED <<attr, override, route, overlap>>

-----------------------------------------------------------------------------
(* custom_ip4_route_src_hook.                                               *)

(* An override is set: its address is read and called. *)
CallOverride ==
  /\ route = NoRoute
  /\ override # NoClosure
  /\ route' = [NoRoute EXCEPT !.at = "loaded", !.closure = override]
  /\ overlap' = IF Settled THEN "none" ELSE "call"
  /\ UNCHANGED <<mem, attr, override, pc, hook, inForce>>

(***************************************************************************)
(* The trampoline has the GIL.  In memory that was freed there may be      *)
(* another closure by now, or anything at all.                             *)
(***************************************************************************)
EnterHook ==
  /\ route.at = "loaded"
  /\ LET fn == mem[route.closure] IN
       route' = [route EXCEPT !.at = IF fn = NoFn THEN "undefined" ELSE "inside", !.fn = fn]
  /\ UNCHANGED <<mem, attr, override, pc, hook, inForce, overlap>>

(* The routing function answers with a Netif, None or an exception. *)
HookReturn ==
  /\ route.at \in {"inside", "undefined"}
  /\ route' = NoRoute
  /\ UNCHANGED <<mem, attr, override, pc, hook, inForce, overlap>>

Next ==
  \/ \E s \in Setter :
       \/ \E f \in Fn, c \in Closure : MakeHook(s, f, c)
       \/ KeepHook(s) \/ InstallHook(s) \/ SetReturn(s)
  \/ CallOverride \/ EnterHook \/ HookReturn

Spec == Init /\ [][Next]_vars

-----------------------------------------------------------------------------

(***************************************************************************)
(* lwIP never calls a closure whose memory Python has freed: what "Prevent *)
(* GC from taking it" (src/lwip/__init__.py:168) is for.                   *)
(***************************************************************************)
NeverCallsFreed == route.at # "undefined"

(***************************************************************************)
(* Between calls of set_routing_function the address lwIP would call is a  *)
(* closure Python keeps, and its function is that of the last call: "This  *)
(* will replace any previous override".                                    *)
(***************************************************************************)
OverrideInForce ==
  Settled /\ inForce # NoFn
    => override = attr /\ override \in Closure /\ mem[override] = inForce

(***************************************************************************)
(* A packet routed while set_routing_function is not called is routed by   *)
(* the function of the last call that returned, whatever was replaced      *)
(* before and whatever memory was used again.                              *)
(***************************************************************************)
RoutedByLast ==
  route.at \in {"inside", "undefined"} /\ overlap = "none" => route.fn = inForce

=============================================================================
