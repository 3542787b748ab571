------------------------- MODULE RoutingHookProofs -------------------------
(***************************************************************************)
(* Proofs about RoutingHook and PacketOutput, for every number of threads, *)
(* functions, closure addresses, interfaces and pbufs.  Which function     *)
(* routes a packet is proved for programs that make one                    *)
(* set_routing_function call at a time, the rest for all.                  *)
(***************************************************************************)
EXTENDS PacketOutput, SequenceTheorems, TLAPS

(* One call at a time, and a local variable only during a call.             *)
OneSetter ==
  /\ \A s, u \in Setter : Setting(s) /\ Setting(u) => s = u
  /\ \A s \in Setter : pc[s] = "idle" <=> hook[s] = NoClosure

(* A call in progress refers to a closure that is allocated.                *)
HookAllocated == \A s \in Setter : Setting(s) => hook[s] \in Closure /\ mem[hook[s]] # NoFn

(* How far self.routing_hook and the C variable have followed the call.     *)
Followed ==
  \A s \in Setter :
    /\ pc[s] \in {"kept", "set"} => attr = hook[s]
    /\ pc[s] = "set" => override = hook[s]

(* Between calls both name the closure of the function in force.            *)
Agreed ==
  Settled => /\ override = attr
             /\ attr = NoClosure => inForce = NoFn
             /\ attr # NoClosure => mem[attr] = inForce /\ inForce # NoFn

(* A packet that is about to be routed has the address of a closure.        *)
RouteLoaded == route.at = "loaded" => route.closure \in Closure

IInv == TypeOK /\ OneSetter /\ HookAllocated /\ Followed /\ Agreed /\ RouteLoaded

USE RoutingAssumption

(* Nothing is set, kept or called in the beginning.                         *)
LEMMA InvInit == Init => IInv
BY DEF Init, IInv, TypeOK, NoRoute, OneSetter, HookAllocated, Followed, Agreed, RouteLoaded, Settled, Setting

(* Releasing memory keeps it well typed and spares what is referred to.     *)
LEMMA ReleaseKeeps ==
  ASSUME TypeOK, NEW kept
  PROVE  /\ Release(kept) \in [Closure -> Fn \cup {NoFn}]
         /\ \A c \in Closure : c \in kept => Release(kept)[c] = mem[c]
BY DEF TypeOK, Release

(* Routing a packet changes nothing the invariant is about.                 *)
LEMMA RouteStep ==
  ASSUME IInv, CallOverride \/ EnterHook \/ HookReturn
  PROVE  IInv'
<1>1. TypeOK' /\ RouteLoaded'
  <2>1. CASE CallOverride
    <3>1. route' = [at |-> "loaded", closure |-> override, fn |-> NoFn]
      BY <2>1 DEF CallOverride, NoRoute
    <3> QED
      BY <2>1, <3>1 DEF IInv, TypeOK, RouteLoaded, CallOverride
  <2>2. CASE EnterHook
    <3>1. mem[route.closure] \in Fn \cup {NoFn}
      BY <2>2 DEF IInv, TypeOK, RouteLoaded, EnterHook
    <3>2. /\ route'.at \in {"inside", "undefined"}
          /\ route' \in [at : {"none", "loaded", "inside", "undefined"},
                         closure : Closure \cup {NoClosure}, fn : Fn \cup {NoFn}]
      BY <2>2, <3>1 DEF IInv, TypeOK, EnterHook
    <3> QED
      BY <2>2, <3>2 DEF IInv, TypeOK, RouteLoaded, EnterHook
  <2>3. CASE HookReturn
    BY <2>3 DEF IInv, TypeOK, RouteLoaded, HookReturn, NoRoute
  <2> QED
    BY <2>1, <2>2, <2>3
<1>2. UNCHANGED <<mem, attr, override, pc, hook, inForce>>
  BY DEF CallOverride, EnterHook, HookReturn
<1> QED
  BY <1>1, <1>2 DEF IInv, OneSetter, HookAllocated, Followed, Agreed, Settled, Setting

(* A new closure is one nobody referred to.                                 *)
LEMMA MakeStep ==
  ASSUME Serialised, IInv, NEW s \in Setter, NEW f \in Fn, NEW c \in Closure, MakeHook(s, f, c)
  PROVE  IInv'
<1> USE DEF IInv, MakeHook
<1>1. TypeOK'
  BY DEF TypeOK
<1>2. /\ \A u \in Setter : ~Setting(u)
      /\ \A u \in Setter : Setting(u)' => u = s
      /\ pc'[s] = "made" /\ hook'[s] = c /\ mem'[c] = f
      /\ \A u \in Setter : u # s => hook'[u] = hook[u] /\ pc'[u] = pc[u]
  BY DEF TypeOK, Settled, Setting
<1>3. OneSetter' /\ HookAllocated' /\ Followed'
  BY <1>2 DEF TypeOK, OneSetter, HookAllocated, Followed, Setting
<1>4. Agreed' /\ RouteLoaded'
  BY <1>2 DEF Agreed, RouteLoaded, Settled, Setting
<1> QED
  BY <1>1, <1>3, <1>4

(* Keeping the new closure may free the old one, not the new.               *)
LEMMA KeepStep ==
  ASSUME IInv, NEW s \in Setter, KeepHook(s)
  PROVE  IInv'
<1> DEFINE kept == {hook[s]} \cup Locals(hook)
<1>1. /\ mem' \in [Closure -> Fn \cup {NoFn}]
      /\ \A u \in Setter : hook[u] \in Closure => mem'[hook[u]] = mem[hook[u]]
  <2>1. \A u \in Setter : hook[u] \in kept
    BY DEF Locals
  <2> QED
    BY <2>1, ReleaseKeeps DEF IInv, KeepHook
<1> USE DEF IInv, KeepHook
<1>2. TypeOK' /\ RouteLoaded'
  BY <1>1 DEF TypeOK, RouteLoaded
<1>3. \A u \in Setter : Setting(u) <=> u = s
  BY DEF OneSetter, Setting
<1>4. pc'[s] = "kept" /\ \A u \in Setter : u # s => pc'[u] = pc[u]
  BY DEF TypeOK
<1>5. OneSetter'
  BY <1>3, <1>4 DEF OneSetter, Setting
<1>6. HookAllocated'
  BY <1>1, <1>3, <1>4 DEF HookAllocated, Setting
<1>7. Followed'
  BY <1>3, <1>4 DEF Followed, Setting
<1>8. Agreed'
  BY <1>4 DEF Agreed, Settled, Setting
<1> QED
  BY <1>2, <1>5, <1>6, <1>7, <1>8

(* Now the C variable names the closure that is kept.                       *)
LEMMA InstallStep ==
  ASSUME IInv, NEW s \in Setter, InstallHook(s)
  PROVE  IInv'
<1> USE DEF IInv, InstallHook
<1>1. TypeOK' /\ RouteLoaded'
  BY DEF TypeOK, RouteLoaded
<1>2. \A u \in Setter : Setting(u) <=> u = s
  BY DEF OneSetter, Setting
<1>3. OneSetter' /\ HookAllocated' /\ Followed' /\ Agreed'
  BY <1>2 DEF TypeOK, OneSetter, HookAllocated, Followed, Agreed, Settled, Setting
<1> QED
  BY <1>1, <1>3

(* When the call returns, self.routing_hook alone keeps the closure.        *)
LEMMA ReturnStep ==
  ASSUME IInv, NEW s \in Setter, SetReturn(s)
  PROVE  IInv'
<1> DEFINE c == hook[s]
<1>1. c \in Closure /\ mem[c] # NoFn /\ attr = c /\ override = c
  BY DEF IInv, HookAllocated, Followed, Setting, SetReturn
<1>2. \A u \in Setter : Setting(u) <=> u = s
  BY DEF IInv, OneSetter, Setting, SetReturn
<1>3. mem' \in [Closure -> Fn \cup {NoFn}] /\ mem'[c] = mem[c]
  <2>1. attr \in {attr} \cup Locals(hook')
    OBVIOUS
  <2>2. mem' = Release({attr} \cup Locals(hook'))
    BY DEF SetReturn
  <2> QED
    BY <1>1, <2>1, <2>2, ReleaseKeeps DEF IInv
<1> USE DEF IInv, SetReturn
<1>4. TypeOK' /\ RouteLoaded'
  BY <1>1, <1>3 DEF TypeOK, RouteLoaded
<1>5. \A u \in Setter : ~Setting(u)'
  BY <1>2 DEF TypeOK, Setting
<1>6. OneSetter' /\ HookAllocated' /\ Followed'
  BY <1>5 DEF TypeOK, OneSetter, HookAllocated, Followed, Setting
<1>7. Agreed'
  BY <1>1, <1>3 DEF Agreed
<1> QED
  BY <1>4, <1>6, <1>7

(* Every step preserves the invariant.                                      *)
LEMMA InvStep == Serialised /\ IInv /\ [Next]_vars => IInv'
<1> SUFFICES ASSUME Serialised, IInv, [Next]_vars PROVE IInv'
  OBVIOUS
<1>1. CASE \E s \in Setter, f \in Fn, c \in Closure : MakeHook(s, f, c)
  BY <1>1, MakeStep
<1>2. CASE \E s \in Setter : KeepHook(s) \/ InstallHook(s) \/ SetReturn(s)
  BY <1>2, KeepStep, InstallStep, ReturnStep
<1>3. CASE CallOverride \/ EnterHook \/ HookReturn
  BY <1>3, RouteStep
<1>4. CASE UNCHANGED vars
  BY <1>4
  DEF IInv, TypeOK, OneSetter, HookAllocated, Followed, Agreed, RouteLoaded, Settled, Setting, vars
<1> QED
  BY <1>1, <1>2, <1>3, <1>4 DEF Next

(***************************************************************************)
(* With one call of set_routing_function at a time, whenever no call is in *)
(* progress lwIP holds the closure Python keeps, and it runs the function  *)
(* of the last call, whatever packets are routed meanwhile.                *)
(***************************************************************************)
THEOREM OverrideReplaced ==
  ASSUME Serialised
  PROVE  Spec => []OverrideInForce
<1>1. IInv /\ [Next]_vars => IInv'
  BY InvStep
<1>2. IInv => OverrideInForce
  BY DEF IInv, TypeOK, Agreed, OverrideInForce
<1> QED
  BY InvInit, <1>1, <1>2, PTL DEF Spec

(***************************************************************************)
(* A packet that no call has disturbed has the address of the override, or *)
(* has entered the function in force.                                      *)
(***************************************************************************)
RouteInv ==
  route.at # "none" /\ overlap = "none"
    => /\ Settled
       /\ route.closure = override
       /\ override # NoClosure
       /\ route.at # "loaded" => route.fn = inForce

LEMMA RouteInvStep ==
  ASSUME IInv, RouteInv, [Next]_vars
  PROVE  RouteInv'
<1>1. CASE \E s \in Setter, f \in Fn, c \in Closure : MakeHook(s, f, c)
  BY <1>1 DEF MakeHook, RouteInv
<1>2. CASE \E s \in Setter : KeepHook(s) \/ InstallHook(s) \/ SetReturn(s)
  BY <1>2 DEF KeepHook, InstallHook, SetReturn, RouteInv, Settled, Setting
<1>3. CASE CallOverride
  <2>1. route' = [at |-> "loaded", closure |-> override, fn |-> NoFn]
    BY <1>3 DEF CallOverride, NoRoute
  <2> QED
    BY <1>3, <2>1 DEF CallOverride, RouteInv, Settled, Setting
<1>4. CASE EnterHook
  <2> SUFFICES ASSUME overlap = "none" PROVE RouteInv'
    BY <1>4 DEF EnterHook, RouteInv
  <2>1. mem[route.closure] = inForce /\ inForce # NoFn
    BY <1>4 DEF EnterHook, RouteInv, IInv, Agreed
  <2>2. /\ route'.at = "inside" /\ route'.fn = inForce /\ route'.closure = route.closure
        /\ UNCHANGED <<mem, attr, override, pc, hook, inForce, overlap>>
    BY <1>4, <2>1 DEF EnterHook, IInv, TypeOK
  <2> QED
    BY <1>4, <2>2 DEF EnterHook, RouteInv, Settled, Setting
<1>5. CASE HookReturn
  BY <1>5 DEF HookReturn, NoRoute, RouteInv
<1>6. CASE UNCHANGED vars
  BY <1>6 DEF vars, RouteInv, Settled, Setting
<1> QED
  BY <1>1, <1>2, <1>3, <1>4, <1>5, <1>6 DEF Next

LEMMA RouteInvInit == Init => RouteInv
BY DEF Init, NoRoute, RouteInv

(***************************************************************************)
(* With one call of set_routing_function at a time, a packet that meets no *)
(* such call is routed by the function of the last one, however often the  *)
(* override has been replaced and closures freed before.                   *)
(***************************************************************************)
THEOREM LastOverrideRoutes ==
  ASSUME Serialised
  PROVE  Spec => []RoutedByLast
<1>1. IInv /\ RouteInv => RoutedByLast
  BY DEF RouteInv, RoutedByLast
<1>2. IInv /\ [Next]_vars => IInv'
  BY InvStep
<1> QED
  BY InvInit, RouteInvInit, RouteInvStep, <1>1, <1>2, PTL DEF Spec

-----------------------------------------------------------------------------
(* Types, for calls of set_routing_function that may overlap.               *)

(* What is called is an address, and what is entered a function.            *)
TypeInv ==
  /\ TypeOK /\ RouteLoaded
  /\ \A s \in Setter : Setting(s) => hook[s] \in Closure
  /\ route.at = "inside" => route.fn \in Fn
  /\ route.at = "undefined" => route.fn = NoFn

LEMMA TypeInit == Init => TypeInv
BY DEF Init, TypeInv, TypeOK, NoRoute, RouteLoaded, Setting

LEMMA TypeStep == TypeInv /\ [Next]_vars => TypeInv'
<1> SUFFICES ASSUME TypeInv, [Next]_vars PROVE TypeInv'
  OBVIOUS
<1>1. CASE UNCHANGED vars
  BY <1>1 DEF vars, TypeInv, TypeOK, RouteLoaded, Setting
<1>2. ASSUME NEW s \in Setter, NEW f \in Fn, NEW c \in Closure, MakeHook(s, f, c) PROVE TypeInv'
  BY <1>2 DEF MakeHook, TypeInv, TypeOK, RouteLoaded, Setting
<1>3. ASSUME NEW s \in Setter, KeepHook(s) PROVE TypeInv'
  <2>1. mem' \in [Closure -> Fn \cup {NoFn}]
    BY <1>3, ReleaseKeeps DEF KeepHook, TypeInv
  <2> QED
    BY <1>3, <2>1 DEF KeepHook, TypeInv, TypeOK, RouteLoaded, Setting
<1>4. ASSUME NEW s \in Setter, InstallHook(s) PROVE TypeInv'
  BY <1>4 DEF InstallHook, TypeInv, TypeOK, RouteLoaded, Setting
<1>5. ASSUME NEW s \in Setter, SetReturn(s) PROVE TypeInv'
  <2>1. mem' \in [Closure -> Fn \cup {NoFn}]
    BY <1>5, ReleaseKeeps DEF SetReturn, TypeInv
  <2>2. hook[s] \in Closure /\ mem[hook[s]] \in Fn \cup {NoFn}
    BY <1>5 DEF SetReturn, TypeInv, TypeOK, Setting
  <2> QED
    BY <1>5, <2>1, <2>2 DEF SetReturn, TypeInv, TypeOK, RouteLoaded, Setting
<1>6. ASSUME CallOverride PROVE TypeInv'
  <2>1. route' = [at |-> "loaded", closure |-> override, fn |-> NoFn]
    BY <1>6 DEF CallOverride, NoRoute
  <2> QED
    BY <1>6, <2>1 DEF CallOverride, TypeInv, TypeOK, RouteLoaded, Setting
<1>7. ASSUME EnterHook PROVE TypeInv'
  <2>1. mem[route.closure] \in Fn \cup {NoFn}
    BY <1>7 DEF TypeInv, TypeOK, RouteLoaded, EnterHook
  <2>2. /\ route'.at \in {"inside", "undefined"}
        /\ route'.at = "inside" => route'.fn \in Fn
        /\ route'.at = "undefined" => route'.fn = NoFn
        /\ route' \in [at : {"none", "loaded", "inside", "undefined"},
                       closure : Closure \cup {NoClosure}, fn : Fn \cup {NoFn}]
    BY <1>7, <2>1 DEF TypeInv, TypeOK, EnterHook
  <2> QED
    BY <1>7, <2>2 DEF EnterHook, TypeInv, TypeOK, RouteLoaded, Setting
<1>8. ASSUME HookReturn PROVE TypeInv'
  BY <1>8 DEF HookReturn, NoRoute, TypeInv, TypeOK, RouteLoaded, Setting
<1> QED
  BY <1>1, <1>2, <1>3, <1>4, <1>5, <1>6, <1>7, <1>8 DEF Next

(* The states of RoutingHook are well typed, however its setters overlap.   *)
THEOREM TypeCorrect == Spec => []TypeOK
<1>1. TypeInv => TypeOK
  BY DEF TypeInv
<1> QED
  BY <1>1, TypeInit, TypeStep, PTL DEF Spec

(***************************************************************************)
(* What the freed closure of the finding is limited to: with one call of   *)
(* set_routing_function at a time, only a packet that meets such a call    *)
(* can call freed memory; a program that is not routing while it replaces  *)
(* its function never does, however often memory is used again.            *)
(***************************************************************************)
THEOREM UndisturbedNeverFreed ==
  ASSUME Serialised
  PROVE  Spec => [](overlap = "none" => NeverCallsFreed)
<1>1. IInv /\ RouteInv /\ TypeInv => (overlap = "none" => NeverCallsFreed)
  <2> SUFFICES ASSUME IInv, RouteInv, TypeInv, overlap = "none", route.at = "undefined"
               PROVE  FALSE
    BY DEF NeverCallsFreed
  <2>1. Settled /\ override # NoClosure /\ route.fn = inForce
    BY DEF RouteInv
  <2>2. inForce # NoFn
    BY <2>1 DEF IInv, Agreed
  <2>3. route.fn = NoFn
    BY DEF TypeInv
  <2> QED
    BY <2>1, <2>2, <2>3
<1>2. IInv /\ [Next]_vars => IInv'
  BY InvStep
<1> QED
  BY InvInit, RouteInvInit, TypeInit, RouteInvStep, TypeStep, <1>1, <1>2, PTL DEF Spec

-----------------------------------------------------------------------------
(* The path of a packet.                                                    *)

(* A step of the path is one of the hook's, or finds no override set.       *)
LEMMA PathSteps ==
  ASSUME [PathNext]_pathVars
  PROVE  [Next]_vars \/ NoOverride
BY DEF PathNext, pathVars, SetterStep, Next, HookAnswers, NetifOutput, PbufToBytes, DriverReturn

LEMMA PathTypes == TypeInv /\ [PathNext]_pathVars => TypeInv'
<1>1. TypeInv /\ NoOverride => TypeInv'
  BY DEF NoOverride, TypeInv, TypeOK, RouteLoaded, Setting
<1> QED
  BY <1>1, PathSteps, TypeStep

LEMMA PathRoutes ==
  ASSUME Serialised, IInv, RouteInv, [PathNext]_pathVars
  PROVE  IInv' /\ RouteInv'
<1>1. CASE NoOverride
  <2>1. route = NoRoute /\ UNCHANGED <<mem, attr, override, pc, hook, route, inForce>>
        /\ overlap' \in {"none", "call"}
    BY <1>1 DEF NoOverride
  <2> QED
    BY <2>1 DEF IInv, TypeOK, OneSetter, HookAllocated, Followed, Agreed, RouteLoaded, Settled, Setting,
                RouteInv, NoRoute
<1>2. CASE [Next]_vars
  BY <1>2, InvStep, RouteInvStep
<1> QED
  BY <1>1, <1>2, PathSteps

(***************************************************************************)
(* The two properties of routing hold of packets that are output, too.     *)
(***************************************************************************)
THEOREM PathKeepsRouting ==
  ASSUME Serialised
  PROVE  PathSpec => [](OverrideInForce /\ RoutedByLast)
<1>1. PathInit => IInv /\ RouteInv
  BY InvInit, RouteInvInit DEF PathInit
<1>2. IInv /\ RouteInv /\ [PathNext]_pathVars => IInv' /\ RouteInv'
  BY PathRoutes
<1>3. IInv /\ RouteInv => OverrideInForce /\ RoutedByLast
  BY DEF IInv, TypeOK, Agreed, OverrideInForce, RouteInv, RoutedByLast
<1> QED
  BY <1>1, <1>2, <1>3, PTL DEF PathSpec

(* The interface of a packet that met no call of set_routing_function.      *)
Chosen ==
  /\ out.at # "none" => route = NoRoute
  /\ out.at # "none" /\ overlap = "none"
       => /\ Settled
          /\ \/ out.netif = DefaultNif
             \/ inForce # NoFn /\ out.netif = Picks[inForce] /\ out.netif # NoNif

LEMMA ChosenStep ==
  ASSUME Serialised, TypeInv, IInv, RouteInv, Chosen, out.at = "none" <=> out = NoOutput, [PathNext]_pathVars
  PROVE  Chosen'
<1>1. CASE UNCHANGED pathVars
  BY <1>1 DEF pathVars, vars, outVars, Chosen, Settled, Setting
<1>2. CASE SetterStep /\ UNCHANGED outVars
  <2>1. CASE \E s \in Setter, f \in Fn, c \in Closure : MakeHook(s, f, c)
    BY <1>2, <2>1 DEF MakeHook, outVars, Chosen
  <2>2. CASE \E s \in Setter : KeepHook(s) \/ InstallHook(s) \/ SetReturn(s)
    BY <1>2, <2>2 DEF KeepHook, InstallHook, SetReturn, outVars, Chosen, Settled, Setting
  <2> QED
    BY <1>2, <2>1, <2>2 DEF SetterStep
<1>3. CASE EnterHook /\ UNCHANGED outVars
  BY <1>3 DEF EnterHook, outVars, Chosen, NoRoute
<1>4. CASE out = NoOutput /\ CallOverride /\ UNCHANGED outVars
  BY <1>4 DEF outVars, Chosen
<1>5. CASE HookAnswers
  <2>1. /\ route.at \in {"inside", "undefined"} /\ route' = NoRoute
        /\ UNCHANGED <<mem, attr, override, pc, hook, inForce, overlap>>
    BY <1>5 DEF HookAnswers, HookReturn
  <2>2. PICK netif \in IF route.at = "inside" THEN {Picks[route.fn], NoNif} ELSE Nif \cup {NoNif} : Choose(netif)
    BY <1>5 DEF HookAnswers
  <2>3. out'.netif = IF netif = NoNif THEN DefaultNif ELSE netif
    BY <2>2 DEF Choose, NoOutput
  <2>4. ASSUME overlap = "none"
        PROVE  Settled /\ inForce # NoFn /\ route.at = "inside" /\ route.fn = inForce
    BY <2>1, <2>4 DEF RouteInv, IInv, Agreed, TypeInv
  <2> QED
    BY <2>1, <2>2, <2>3, <2>4 DEF Chosen, Settled, Setting
<1>6. CASE NoOverride
  <2>1. out'.netif = DefaultNif /\ route' = NoRoute
    BY <1>6 DEF NoOverride, Choose, NoOutput
  <2>2. overlap' = "none" => Settled'
    BY <1>6 DEF NoOverride, Settled, Setting
  <2> QED
    BY <2>1, <2>2 DEF Chosen
<1>7. CASE NetifOutput \/ PbufToBytes
  <2>1. /\ out'.netif = out.netif /\ out.at # "none" /\ UNCHANGED vars
    <3>1. CASE NetifOutput
      BY <3>1 DEF NetifOutput
    <3>2. CASE PbufToBytes
      BY <3>2 DEF PbufToBytes
    <3> QED
      BY <1>7, <3>1, <3>2
  <2> QED
    BY <2>1 DEF vars, Chosen, Settled, Setting
<1>8. CASE DriverReturn
  BY <1>8 DEF DriverReturn, NoOutput, Chosen
<1> QED
  BY <1>1, <1>2, <1>3, <1>4, <1>5, <1>6, <1>7, <1>8 DEF PathNext

-----------------------------------------------------------------------------
(* The packet itself.                                                       *)

(* A function on 1..n is a sequence.                                        *)
LEMMA FunctionIsSeq ==
  ASSUME NEW S, NEW n \in Nat, NEW f \in [1..n -> S]
  PROVE  f \in Seq(S) /\ Len(f) = n
OBVIOUS

(* What a cut is, said with sequences.                                      *)
LEMMA CutTypes ==
  ASSUME NEW cut \in Cuts
  PROVE  /\ cut \in Seq(0..MaxBytes) /\ Len(cut) \in 1..MaxParts
         /\ \A i \in 1..Len(cut) : cut[i] \in Nat
         /\ \A i, j \in 1..Len(cut) : i <= j => cut[i] <= cut[j]
         /\ Last(cut) = cut[Len(cut)]
<1>1. PICK m \in 0..MaxParts : cut \in [1..m -> 0..MaxBytes]
  BY OutputAssumption DEF Cuts, BoundedSeq, SeqOf
<1>2. m \in Nat /\ cut # <<>> /\ \A i, j \in 1..Len(cut) : i <= j => cut[i] <= cut[j]
  BY OutputAssumption DEF Cuts
<1>3. cut \in Seq(0..MaxBytes) /\ Len(cut) = m
  <2> DEFINE S == 0..MaxBytes
  <2>1. cut \in [1..m -> S] /\ m \in Nat
    BY <1>1, <1>2
  <2> HIDE DEF S
  <2>2. cut \in Seq(S) /\ Len(cut) = m
    BY <2>1, FunctionIsSeq
  <2> QED
    BY <2>2 DEF S
<1>4. Len(cut) # 0
  BY <1>2, <1>3
<1> QED
  BY <1>1, <1>2, <1>3, <1>4, OutputAssumption DEF Last

(* The pbufs of all packets.                                                *)
Pbufs == (UNION {{Pbuf(cut, i) : i \in 1..Len(cut)} : cut \in Cuts}) \cup {Another}

(* Numbers of a packet's bytes: of the first n, and of those from m on.     *)
UpTo(n) == [k \in 1..n |-> k]
After(m, n) == [k \in 1..(n - m) |-> m + k]

LEMMA UpToSeq ==
  ASSUME NEW n \in Nat
  PROVE  UpTo(n) \in Seq(Nat) /\ Len(UpTo(n)) = n
<1>1. UpTo(n) \in [1..n -> Nat]
  BY DEF UpTo
<1> QED
  BY <1>1, FunctionIsSeq

(* One turn of the loop appends the bytes of a pbuf to those before it.     *)
LEMMA BytesJoin ==
  ASSUME NEW m \in Nat, NEW n \in Nat, m <= n
  PROVE  UpTo(m) \o After(m, n) = UpTo(n) /\ After(m, n) \in Seq(Nat) /\ Len(After(m, n)) = n - m
<1> DEFINE r == After(m, n)
<1>1. UpTo(m) \in [1..m -> Nat] /\ UpTo(n) \in [1..n -> Nat] /\ r \in [1..(n - m) -> Nat]
  BY DEF UpTo, After
<1>2. n - m \in Nat
  OBVIOUS
<1>3. /\ UpTo(m) \in Seq(Nat) /\ Len(UpTo(m)) = m
      /\ UpTo(n) \in Seq(Nat) /\ Len(UpTo(n)) = n
      /\ r \in Seq(Nat) /\ Len(r) = n - m
  <2> HIDE DEF r
  <2> QED
    BY <1>1, <1>2, FunctionIsSeq
<1>4. \A k \in 1..(n - m) : r[k] = m + k
  BY DEF After
<1> HIDE DEF r
<1>5. /\ UpTo(m) \o r \in Seq(Nat) /\ Len(UpTo(m) \o r) = m + (n - m)
      /\ \A k \in 1..(m + (n - m)) : (UpTo(m) \o r)[k] = IF k <= m THEN UpTo(m)[k] ELSE r[k - m]
  <2> DEFINE u == UpTo(m)
  <2>1. u \in Seq(Nat) /\ r \in Seq(Nat) /\ Len(u) = m /\ Len(r) = n - m
    BY <1>3
  <2> HIDE DEF u
  <2>2. /\ u \o r \in Seq(Nat) /\ Len(u \o r) = Len(u) + Len(r)
        /\ \A k \in 1..(Len(u) + Len(r)) : (u \o r)[k] = IF k <= Len(u) THEN u[k] ELSE r[k - Len(u)]
    BY <2>1, ConcatProperties
  <2> QED
    BY <2>1, <2>2 DEF u
<1>6. m + (n - m) = n
  OBVIOUS
<1>7. ASSUME NEW k \in 1..n PROVE (UpTo(m) \o r)[k] = UpTo(n)[k]
  <2>1. CASE k <= m
    BY <1>5, <1>6, <2>1 DEF UpTo
  <2>2. CASE ~(k <= m)
    <3>1. k - m \in 1..(n - m) /\ m + (k - m) = k
      BY <2>2
    <3>2. (UpTo(m) \o r)[k] = r[k - m]
      BY <1>5, <1>6, <2>2
    <3> QED
      BY <1>4, <3>1, <3>2 DEF UpTo
  <2> QED
    BY <2>1, <2>2
<1>8. UpTo(m) \o r = UpTo(n)
  <2> DEFINE s == UpTo(m) \o r
             t == UpTo(n)
  <2>1. s \in Seq(Nat) /\ t \in Seq(Nat) /\ Len(s) = Len(t) /\ \A k \in 1..Len(s) : s[k] = t[k]
    BY <1>3, <1>5, <1>6, <1>7
  <2> HIDE DEF s, t
  <2>2. s = t
    BY <2>1, SeqEqual
  <2> QED
    BY <2>2 DEF s, t
<1> QED
  BY <1>3, <1>8 DEF r

(* What _pbuf_to_bytes has done of a packet.                                *)
Converting ==
  /\ packet \in Cuts
  /\ out.turns < MaxFragments /\ out.turns < Len(packet)
  /\ Len(out.chain) \in {Len(packet) - out.turns, Len(packet) - out.turns + 1}
  /\ \A i \in 1..(Len(packet) - out.turns) : out.chain[i] = Pbuf(packet, out.turns + i)
  /\ out.payload = UpTo(Upto(packet, out.turns))

Converted ==
  /\ packet \in Cuts
  /\ \E i \in 1..Len(packet) :
       /\ out.payload = UpTo(packet[i])
       /\ packet[i] = Last(packet) \/ i = MaxFragments

OutInv ==
  /\ out \in [at : {"none", "chosen", "converting", "driver"}, netif : Nif \cup {NoNif},
              chain : Seq(Pbufs), turns : 0..MaxFragments, payload : Seq(Nat)]
  /\ Len(out.chain) <= MaxParts + 1
  /\ packet \in Cuts \cup {<<>>}
  /\ out.at = "none" <=> out = NoOutput
  /\ out.at = "chosen" => out.chain = <<>> /\ out.turns = 0 /\ out.payload = <<>>
  /\ out.at = "converting" => Converting
  /\ out.at = "driver" => Converted

(* A pbuf has the bytes after those of the pbufs before it.                 *)
LEMMA PbufBytes ==
  ASSUME NEW cut \in Cuts, NEW i \in 1..Len(cut)
  PROVE  /\ Upto(cut, i - 1) \in Nat /\ cut[i] \in Nat /\ Upto(cut, i) = cut[i]
         /\ UpTo(Upto(cut, i - 1)) \o Pbuf(cut, i).bytes = UpTo(cut[i])
         /\ UpTo(cut[i]) \in Seq(Nat)
         /\ EndsPacket(Pbuf(cut, i)) <=> cut[i] = Last(cut)
<1> DEFINE u == Upto(cut, i - 1)
           n == cut[i]
           bytes == After(u, n)
<1>1. u \in Nat /\ n \in Nat /\ u <= n /\ Last(cut) \in Nat /\ Upto(cut, i) = n
  <2>1. Len(cut) \in Nat /\ i \in Nat
    BY CutTypes
  <2>2. n \in Nat /\ Last(cut) \in Nat
    BY CutTypes
  <2>3. CASE i = 1
    BY <2>2, <2>3 DEF Upto
  <2>4. CASE i # 1
    <3>1. i - 1 \in 1..Len(cut) /\ i - 1 <= i /\ i - 1 # 0 /\ i # 0
      BY <2>1, <2>4
    <3>2. cut[i - 1] \in Nat /\ cut[i - 1] <= cut[i]
      BY <3>1, CutTypes
    <3> QED
      BY <2>2, <3>1, <3>2 DEF Upto
  <2> QED
    BY <2>3, <2>4
<1>2. Pbuf(cut, i) = [bytes |-> bytes, tot_len |-> Last(cut) - u]
  BY DEF Pbuf, After
<1> HIDE DEF u, n
<1>3. UpTo(u) \o After(u, n) = UpTo(n) /\ Len(After(u, n)) = n - u
  BY <1>1, BytesJoin
<1>4. UpTo(n) \in Seq(Nat)
  BY <1>1, UpToSeq
<1> HIDE DEF bytes
<1>5. EndsPacket(Pbuf(cut, i)) <=> n = Last(cut)
  <2>1. EndsPacket(Pbuf(cut, i)) <=> n - u = Last(cut) - u
    BY <1>2, <1>3 DEF EndsPacket, bytes
  <2> QED
    BY <1>1, <2>1
<1> QED
  BY <1>1, <1>2, <1>3, <1>4, <1>5 DEF u, n, bytes

LEMMA NoBytes == UpTo(0) = <<>>
<1>1. UpTo(0) \in Seq(Nat) /\ Len(UpTo(0)) = 0
  BY UpToSeq
<1> QED
  BY <1>1, EmptySeq

LEMMA OutInit == PathInit => OutInv
<1> SUFFICES ASSUME PathInit PROVE OutInv
  OBVIOUS
<1>1. out = NoOutput /\ packet = <<>> /\ 0 \in 0..MaxFragments
  BY OutputAssumption DEF PathInit
<1> QED
  BY <1>1, OutputAssumption DEF OutInv, NoOutput

LEMMA ChooseStep ==
  ASSUME OutInv, NEW netif \in Nif \cup {NoNif}, Choose(netif)
  PROVE  OutInv'
<1>1. /\ out' = [at |-> "chosen", netif |-> IF netif = NoNif THEN DefaultNif ELSE netif,
                 chain |-> <<>>, turns |-> 0, payload |-> <<>>]
      /\ packet' = packet
  BY DEF Choose, NoOutput
<1>2. 0 \in 0..MaxFragments
  BY OutputAssumption
<1> QED
  BY <1>1, <1>2, OutputAssumption DEF OutInv, NoOutput

(* The concatenation of two sequences over one set.                         *)
LEMMA Joined ==
  ASSUME NEW S, NEW a \in Seq(S), NEW b \in Seq(S)
  PROVE  /\ a \o b \in Seq(S) /\ Len(a \o b) = Len(a) + Len(b)
         /\ \A i \in 1..(Len(a) + Len(b)) : (a \o b)[i] = IF i <= Len(a) THEN a[i] ELSE b[i - Len(a)]
BY ConcatProperties

(* The chain that lwIP hands over.                                          *)
LEMMA ChainIs ==
  ASSUME NEW cut \in Cuts, NEW more \in {<<>>, <<Another>>}
  PROVE  /\ Chain(cut) \o more \in Seq(Pbufs)
         /\ Len(Chain(cut) \o more) \in {Len(cut), Len(cut) + 1}
         /\ \A i \in 1..Len(cut) : (Chain(cut) \o more)[i] = Pbuf(cut, i)
<1> DEFINE c == Chain(cut)
           n == Len(cut)
<1>1. n \in Nat
  BY CutTypes
<1>2. c \in Seq(Pbufs) /\ Len(c) = n
  <2>1. c \in [1..n -> Pbufs]
    BY DEF Chain, Pbufs
  <2> HIDE DEF c, n
  <2> QED
    BY <1>1, <2>1, FunctionIsSeq
<1>3. more \in Seq(Pbufs) /\ Len(more) \in {0, 1}
  <2>1. Another \in Pbufs
    BY Zenon DEF Pbufs
  <2>2. <<Another>> \in Seq(Pbufs) /\ Len(<<Another>>) = 1
    BY <2>1
  <2>3. <<>> \in Seq(Pbufs) /\ Len(<<>>) = 0
    OBVIOUS
  <2> QED
    BY <2>2, <2>3
<1>4. \A i \in 1..n : c[i] = Pbuf(cut, i)
  BY DEF Chain
<1> HIDE DEF c, n
<1>5. /\ c \o more \in Seq(Pbufs) /\ Len(c \o more) = Len(c) + Len(more)
      /\ \A i \in 1..(Len(c) + Len(more)) : (c \o more)[i] = IF i <= Len(c) THEN c[i] ELSE more[i - Len(c)]
  BY <1>2, <1>3, Joined
<1>6. \A i \in 1..n : (c \o more)[i] = Pbuf(cut, i)
  BY <1>1, <1>2, <1>3, <1>4, <1>5
<1>7. Len(c \o more) \in {n, n + 1}
  BY <1>1, <1>2, <1>3, <1>5
<1> QED
  BY <1>5, <1>6, <1>7 DEF c, n

LEMMA NetifOutputStep ==
  ASSUME OutInv, NetifOutput
  PROVE  OutInv'
<1>1. PICK cut \in Cuts, more \in {<<>>, <<Another>>} :
        out' = [out EXCEPT !.at = "converting", !.chain = Chain(cut) \o more] /\ packet' = cut
  BY DEF NetifOutput
<1> DEFINE c == Chain(cut) \o more
<1>2. /\ c \in Seq(Pbufs) /\ Len(c) \in {Len(cut), Len(cut) + 1}
      /\ \A i \in 1..Len(cut) : c[i] = Pbuf(cut, i)
  BY ChainIs
<1>3. Len(cut) \in 1..MaxParts
  BY CutTypes
<1>4. out.turns = 0 /\ out.payload = <<>> /\ out.at = "chosen"
  BY DEF OutInv, NetifOutput
<1> HIDE DEF c
<1>5. /\ out'.at = "converting" /\ out'.chain = c /\ out'.turns = 0 /\ out'.payload = <<>>
      /\ out' \in [at : {"none", "chosen", "converting", "driver"}, netif : Nif \cup {NoNif},
                   chain : Seq(Pbufs), turns : 0..MaxFragments, payload : Seq(Nat)]
  BY <1>1, <1>2, <1>4 DEF OutInv, c
<1>6. Converting'
  <2>1. out'.payload = UpTo(Upto(packet', out'.turns))
    BY <1>5, NoBytes DEF Upto
  <2>2. \A i \in 1..(Len(cut) - 0) : c[i] = Pbuf(cut, 0 + i)
    BY <1>2, <1>3
  <2> QED
    BY <1>1, <1>2, <1>3, <1>5, <2>1, <2>2, OutputAssumption DEF Converting
<1>7. Len(out'.chain) <= MaxParts + 1
  BY <1>2, <1>3, <1>5, OutputAssumption
<1>8. out' # NoOutput
  BY <1>5 DEF NoOutput
<1> QED
  BY <1>1, <1>5, <1>6, <1>7, <1>8 DEF OutInv

LEMMA PbufToBytesStep ==
  ASSUME OutInv, PbufToBytes
  PROVE  OutInv'
<1> DEFINE t == out.turns
           pbuf == Head(out.chain)
           n == Len(packet)
<1>1. out.at = "converting" /\ Converting /\ out.chain \in Seq(Pbufs) /\ packet' = packet
  BY DEF PbufToBytes, OutInv
<1>2. /\ packet \in Cuts /\ n \in 1..MaxParts /\ MaxParts \in Nat /\ MaxFragments \in Nat
      /\ t \in Nat /\ t < n /\ t < MaxFragments /\ t + 1 \in 1..n /\ (t + 1) - 1 = t
      /\ Len(out.chain) \in {n - t, n - t + 1} /\ Len(out.chain) \in Nat
  <2>1. packet \in Cuts /\ n \in 1..MaxParts
    BY <1>1, CutTypes DEF Converting
  <2> QED
    BY <1>1, <2>1, OutputAssumption DEF Converting, OutInv
<1>3. out.chain # <<>> /\ 1 \in 1..(n - t)
  BY <1>1, <1>2
<1>4. pbuf = Pbuf(packet, t + 1)
  <2>1. pbuf = out.chain[1]
    BY <1>1, <1>3
  <2> QED
    BY <1>1, <1>3, <2>1 DEF Converting
<1>5. /\ packet[t + 1] \in Nat /\ Upto(packet, t + 1) = packet[t + 1]
      /\ out.payload \o pbuf.bytes = UpTo(packet[t + 1]) /\ UpTo(packet[t + 1]) \in Seq(Nat)
      /\ EndsPacket(pbuf) <=> packet[t + 1] = Last(packet)
  <2> HIDE DEF n
  <2>1. packet \in Cuts /\ t + 1 \in 1..Len(packet)
    BY <1>2 DEF n
  <2>2. /\ packet[t + 1] \in Nat /\ Upto(packet, t + 1) = packet[t + 1]
        /\ UpTo(Upto(packet, (t + 1) - 1)) \o Pbuf(packet, t + 1).bytes = UpTo(packet[t + 1])
        /\ UpTo(packet[t + 1]) \in Seq(Nat)
        /\ EndsPacket(Pbuf(packet, t + 1)) <=> packet[t + 1] = Last(packet)
    BY <2>1, PbufBytes
  <2>3. out.payload = UpTo(Upto(packet, (t + 1) - 1))
    BY <1>1, <1>2 DEF Converting
  <2> QED
    BY <1>4, <2>2, <2>3
<1>6. t + 1 = n => packet[t + 1] = Last(packet)
  BY <1>2, CutTypes
<1>7. /\ out' = [out EXCEPT !.payload = out.payload \o pbuf.bytes, !.turns = t + 1,
                            !.chain = IF LastTurn(pbuf) THEN <<>> ELSE Tail(out.chain),
                            !.at = IF LastTurn(pbuf) THEN "driver" ELSE "converting"]
  BY DEF PbufToBytes
<1>8. Tail(out.chain) \in Seq(Pbufs) /\ Len(Tail(out.chain)) = Len(out.chain) - 1
      /\ \A i \in 1..(Len(out.chain) - 1) : Tail(out.chain)[i] = out.chain[i + 1]
  BY <1>1, <1>3, HeadTailProperties
<1>9. /\ out' \in [at : {"none", "chosen", "converting", "driver"}, netif : Nif \cup {NoNif},
                   chain : Seq(Pbufs), turns : 0..MaxFragments, payload : Seq(Nat)]
      /\ out'.at = (IF LastTurn(pbuf) THEN "driver" ELSE "converting")
      /\ out'.chain = (IF LastTurn(pbuf) THEN <<>> ELSE Tail(out.chain))
      /\ out'.turns = t + 1 /\ out'.payload = UpTo(packet[t + 1])
  <2>1. <<>> \in Seq(Pbufs) /\ t + 1 \in 0..MaxFragments
    BY <1>2
  <2>2. (IF LastTurn(pbuf) THEN <<>> ELSE Tail(out.chain)) \in Seq(Pbufs)
    BY <1>8, <2>1
  <2> HIDE DEF t, pbuf, n
  <2> QED
    BY <1>5, <1>7, <2>1, <2>2 DEF OutInv
<1>10. Len(out'.chain) <= MaxParts + 1
  <2>1. CASE LastTurn(pbuf)
    <3>1. Len(out'.chain) = 0
      BY <1>9, <2>1
    <3> QED
      BY <1>2, <3>1
  <2>2. CASE ~LastTurn(pbuf)
    BY <1>2, <1>8, <1>9, <2>2 DEF OutInv
  <2> QED
    BY <2>1, <2>2
<1> HIDE DEF t, pbuf, n
<1>11. CASE LastTurn(pbuf)
  <2>1. packet[t + 1] = Last(packet) \/ t + 1 = MaxFragments
    <3>1. Len(out.chain) = 1 => t + 1 = n
      BY <1>2
    <3>2. EndsPacket(pbuf) \/ Len(out.chain) = 1 \/ t + 1 = MaxFragments
      BY <1>11 DEF LastTurn, t
    <3> QED
      BY <1>5, <1>6, <3>1, <3>2
  <2>2. Converted'
    BY <1>1, <1>2, <1>9, <2>1 DEF Converted, n
  <2>3. out'.at = "driver" /\ out' # NoOutput
    BY <1>9, <1>11 DEF NoOutput
  <2> QED
    BY <1>1, <1>2, <1>9, <1>10, <2>2, <2>3 DEF OutInv
<1>12. CASE ~LastTurn(pbuf)
  <2>1. packet[t + 1] # Last(packet) /\ Len(out.chain) # 1 /\ t + 1 # MaxFragments
    BY <1>5, <1>12 DEF LastTurn, t
  <2>2. t + 1 < n /\ t + 1 < MaxFragments
    BY <1>2, <1>6, <2>1
  <2>3. out'.at = "converting" /\ out'.chain = Tail(out.chain) /\ out' # NoOutput
    BY <1>9, <1>12 DEF NoOutput
  <2>4. \A i \in 1..(n - (t + 1)) : Tail(out.chain)[i] = Pbuf(packet, (t + 1) + i)
    <3> SUFFICES ASSUME NEW i \in 1..(n - (t + 1)) PROVE Tail(out.chain)[i] = Pbuf(packet, (t + 1) + i)
      OBVIOUS
    <3>1. i \in 1..(Len(out.chain) - 1) /\ i + 1 \in 1..(n - t) /\ (t + 1) + i = t + (i + 1)
      BY <1>2
    <3>2. out.chain[i + 1] = Pbuf(packet, t + (i + 1))
      BY <1>1, <3>1 DEF Converting, n, t
    <3> QED
      BY <1>8, <3>1, <3>2
  <2>5. Len(out'.chain) \in {n - (t + 1), n - (t + 1) + 1}
    BY <1>2, <1>8, <2>3
  <2>6. out'.payload = UpTo(Upto(packet, t + 1))
    BY <1>5, <1>9
  <2>7. Converting'
    BY <1>1, <1>2, <1>9, <2>2, <2>3, <2>4, <2>5, <2>6 DEF Converting, n
  <2> QED
    BY <1>1, <1>2, <1>9, <1>10, <2>3, <2>7 DEF OutInv
<1> QED
  BY <1>11, <1>12

LEMMA OutStep == TypeInv /\ OutInv /\ [PathNext]_pathVars => OutInv'
<1> SUFFICES ASSUME TypeInv, OutInv, [PathNext]_pathVars PROVE OutInv'
  OBVIOUS
<1>1. CASE UNCHANGED outVars
  BY <1>1 DEF outVars, OutInv, Converting, Converted
<1>2. CASE HookAnswers
  <2>1. PICK netif \in IF route.at = "inside" THEN {Picks[route.fn], NoNif} ELSE Nif \cup {NoNif} : Choose(netif)
    BY <1>2 DEF HookAnswers
  <2>2. netif \in Nif \cup {NoNif}
    BY <2>1, OutputAssumption DEF TypeInv
  <2> QED
    BY <2>1, <2>2, ChooseStep
<1>3. CASE NoOverride
  BY <1>3, ChooseStep DEF NoOverride
<1>4. CASE DriverReturn
  <2>1. out' = NoOutput /\ packet' = <<>> /\ 0 \in 0..MaxFragments
    BY <1>4, OutputAssumption DEF DriverReturn
  <2> QED
    BY <2>1, OutputAssumption DEF OutInv, NoOutput
<1> QED
  BY <1>1, <1>2, <1>3, <1>4, NetifOutputStep, PbufToBytesStep DEF PathNext, pathVars

LEMMA OutInvariant == PathSpec => [](TypeInv /\ OutInv)
<1>1. PathInit => TypeInv
  BY TypeInit DEF PathInit
<1> QED
  BY <1>1, OutInit, PathTypes, OutStep, PTL DEF PathSpec

(* The path's states are well typed: the loop of _pbuf_to_bytes never takes *)
(* more turns than its range has.                                           *)
THEOREM PathTypeCorrect == PathSpec => [](TypeOK /\ OutTypeOK)
<1>1. TypeInv /\ OutInv => TypeOK /\ OutTypeOK
  BY DEF TypeInv, OutInv, OutTypeOK
<1> QED
  BY <1>1, OutInvariant, PTL

(***************************************************************************)
(* The driver gets all bytes of the packet in their order and none of the  *)
(* packet queued behind it, for any way to cut it into pbufs; it misses    *)
(* the end only of one in more than MAX_PBUF_FRAGMENTS pbufs.              *)
(***************************************************************************)
THEOREM PayloadIsPacket == PathSpec => []PayloadComplete
<1>1. OutInv => PayloadComplete
  <2> SUFFICES ASSUME OutInv, out.at = "driver"
               PROVE  /\ IsPrefix(out.payload, Whole(packet))
                      /\ Len(packet) <= MaxFragments => out.payload = Whole(packet)
    BY DEF PayloadComplete
  <2>1. PICK i \in 1..Len(packet) : /\ packet \in Cuts /\ out.payload = UpTo(packet[i])
                                    /\ packet[i] = Last(packet) \/ i = MaxFragments
    BY DEF OutInv, Converted
  <2> DEFINE m == packet[i]
             n == Last(packet)
  <2>2. /\ Len(packet) \in Nat /\ m \in Nat /\ n \in Nat /\ m <= n
        /\ i = Len(packet) => m = n
    <3>1. Len(packet) \in 1..Len(packet) /\ Len(packet) \in Nat
      BY <2>1, CutTypes
    <3> QED
      BY <2>1, <3>1, CutTypes
  <2>3. Whole(packet) = UpTo(n)
    BY DEF Whole, UpTo
  <2>4. Len(packet) <= MaxFragments => m = n
    BY <2>1, <2>2, OutputAssumption
  <2> HIDE DEF m, n
  <2>5. IsPrefix(UpTo(m), UpTo(n))
    <3>1. /\ UpTo(m) \in Seq(Nat) /\ Len(UpTo(m)) = m
          /\ UpTo(n) \in Seq(Nat) /\ Len(UpTo(n)) = n
      BY <2>2, UpToSeq
    <3>2. SubSeq(UpTo(m), 1, m) = SubSeq(UpTo(n), 1, m)
      <4>1. SubSeq(UpTo(m), 1, m) = UpTo(m)
        BY <2>2, <3>1 DEF UpTo
      <4>2. SubSeq(UpTo(n), 1, m) = UpTo(m)
        BY <2>2, <3>1 DEF UpTo
      <4> QED
        BY <4>1, <4>2
    <3> QED
      BY <2>2, <3>1, <3>2 DEF IsPrefix
  <2> QED
    BY <2>1, <2>3, <2>4, <2>5 DEF m
<1> QED
  BY <1>1, OutInvariant, PTL

(***************************************************************************)
(* With one call of set_routing_function at a time, a packet that meets no *)
(* such call leaves by the interface that the function of the last call    *)
(* picks, or by lwIP's default one.                                        *)
(***************************************************************************)
THEOREM LeavesByPicked ==
  ASSUME Serialised
  PROVE  PathSpec => []GoesToPicked
<1> DEFINE Inv == TypeInv /\ OutInv /\ IInv /\ RouteInv /\ Chosen
<1>1. PathInit => Inv
  <2>1. PathInit => Chosen
    BY DEF PathInit, NoOutput, Chosen
  <2> QED
    BY <2>1, TypeInit, OutInit, InvInit, RouteInvInit DEF PathInit
<1>2. Inv /\ [PathNext]_pathVars => Inv'
  <2> SUFFICES ASSUME Inv, [PathNext]_pathVars PROVE Inv'
    OBVIOUS
  <2>1. out.at = "none" <=> out = NoOutput
    BY DEF OutInv
  <2> QED
    BY <2>1, PathTypes, OutStep, PathRoutes, ChosenStep
<1>3. Inv => GoesToPicked
  BY DEF Chosen, GoesToPicked
<1> QED
  BY <1>1, <1>2, <1>3, PTL DEF PathSpec

=============================================================================
