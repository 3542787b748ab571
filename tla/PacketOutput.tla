---------------------------- MODULE PacketOutput ----------------------------
(***************************************************************************)
(* A packet on its way out of lwIP: the routing override (RoutingHook)     *)
(* chooses an interface, lwIP calls the interface's output function, and   *)
(* _netif_output of src/lwip/netif/__init__.py makes one bytes object of   *)
(* the pbuf chain for the driver.                                          *)
(*                                                                         *)
(* lwIP routes and outputs one packet at a time under its core lock.  In a *)
(* pbuf chain other packets may follow the one that is output: it ends     *)
(* where tot_len, the bytes from a pbuf to the packet's end, is len.       *)
(***************************************************************************)
EXTENDS RoutingHook, Naturals, Sequences, SequencesExt

CONSTANTS
  Nif,           \* interfaces
  NoNif,         \* None, or NULL
  DefaultNif,    \* the interface lwIP's own routing finds
  Picks,         \* what each routing function answers
  MaxParts,      \* bound: pbufs of a packet
  MaxBytes,      \* bound: its length
  MaxFragments   \* MAX_PBUF_FRAGMENTS

ASSUME OutputAssumption ==
  /\ NoNif \notin Nif /\ DefaultNif \in Nif
  /\ Picks \in [Fn -> Nif \cup {NoNif}]
  /\ MaxFragments \in Nat \ {0} /\ MaxParts \in Nat \ {0} /\ MaxBytes \in Nat

VARIABLES
  out,       \* the interface, by whom it was chosen, and what _pbuf_to_bytes is doing
  packet     \* history: how the packet is cut into pbufs

outVars == <<out, packet>>
pathVars == <<vars, outVars>>

NoOutput == [at |-> "none", netif |-> NoNif, chain |-> <<>>, turns |-> 0, payload |-> <<>>]

(* The bytes of a packet are numbered; a cut gives the last of each pbuf,   *)
(* which may have none.                                                     *)
Cuts ==
  {cut \in BoundedSeq(0..MaxBytes, MaxParts) :
     cut # <<>> /\ \A i, j \in 1..Len(cut) : i <= j => cut[i] <= cut[j]}
Upto(cut, i) == IF i = 0 THEN 0 ELSE cut[i]
Whole(cut) == [k \in 1..Last(cut) |-> k]

(* The pbufs, with the length of the packet's rest; one of another packet.  *)
Pbuf(cut, i) ==
  [bytes |-> [k \in 1..(cut[i] - Upto(cut, i - 1)) |-> Upto(cut, i - 1) + k],
   tot_len |-> Last(cut) - Upto(cut, i - 1)]
Chain(cut) == [i \in 1..Len(cut) |-> Pbuf(cut, i)]
Another == [bytes |-> <<0>>, tot_len |-> 1]

OutTypeOK ==
  /\ out.at \in {"none", "chosen", "converting", "driver"}
  /\ out.netif \in Nif \cup {NoNif}
  /\ out.at = "none" <=> out = NoOutput
  /\ out.turns \in 0..MaxFragments
  /\ out.payload \in Seq(Nat)
  /\ Len(out.chain) <= MaxParts + 1
  /\ packet \in Cuts \cup {<<>>}

PathInit ==
  /\ Init
  /\ out = NoOutput
  /\ packet = <<>>

-----------------------------------------------------------------------------
(* The interface.                                                           *)

Choose(netif) ==
  /\ out' = [NoOutput EXCEPT !.at = "chosen", !.netif = IF netif = NoNif THEN DefaultNif ELSE netif]
  /\ UNCHANGED packet

(***************************************************************************)
(* The routing function's answer reaches lwIP, as output.native_netif() or *)
(* NULL; an exception in a cffi callback is printed and NULL returned.     *)
(* Freed closure memory may answer anything.                               *)
(***************************************************************************)
HookAnswers ==
  /\ HookReturn
  /\ \E netif \in IF route.at = "inside" THEN {Picks[route.fn], NoNif} ELSE Nif \cup {NoNif} :
       Choose(netif)

(* No override is set. *)
NoOverride ==
  /\ route = NoRoute
  /\ out = NoOutput
  /\ override = NoClosure
  /\ overlap' = IF Settled THEN "none" ELSE "call"
  /\ Choose(NoNif)
  /\ UNCHANGED <<mem, attr, override, pc, hook, route, inForce>>

-----------------------------------------------------------------------------
(* _netif_output and _pbuf_to_bytes.                                        *)

(* lwIP hands the packet to the interface's output function. *)
NetifOutput ==
  /\ out.at = "chosen"
  /\ \E cut \in Cuts, more \in {<<>>, <<Another>>} :
       /\ out' = [out EXCEPT !.at = "converting", !.chain = Chain(cut) \o more]
       /\ packet' = cut
  /\ UNCHANGED vars

(* pbuf.len == pbuf.tot_len: the packet ends here. *)
EndsPacket(pbuf) == Len(pbuf.bytes) = pbuf.tot_len

(* Mutant of LastTurn: the chain is taken to its end. *)
LastTurnChain(pbuf) == Len(out.chain) = 1 \/ out.turns + 1 = MaxFragments

(* Mutant of LastTurn: while True. *)
LastTurnUnbounded(pbuf) == EndsPacket(pbuf) \/ Len(out.chain) = 1

(* The loop breaks, or its range is used up. *)
LastTurn(pbuf) == EndsPacket(pbuf) \/ Len(out.chain) = 1 \/ out.turns + 1 = MaxFragments

(* One turn of the loop; the bytes are copied. *)
PbufToBytes ==
  /\ out.at = "converting"
  /\ LET pbuf == Head(out.chain) IN
       out' = [out EXCEPT !.payload = @ \o pbuf.bytes,
                          !.turns = @ + 1,
                          !.chain = IF LastTurn(pbuf) THEN <<>> ELSE Tail(@),
                          !.at = IF LastTurn(pbuf) THEN "driver" ELSE "converting"]
  /\ UNCHANGED <<vars, packet>>

(* lwip_on_output(payload, addr) returns, or raises and lwIP sees ERR_OK. *)
DriverReturn ==
  /\ out.at = "driver"
  /\ out' = NoOutput
  /\ packet' = <<>>
  /\ UNCHANGED vars

-----------------------------------------------------------------------------

SetterStep ==
  \E s \in Setter :
    \/ \E f \in Fn, c \in Closure : MakeHook(s, f, c)
    \/ KeepHook(s) \/ InstallHook(s) \/ SetReturn(s)

PathNext ==
  \/ (SetterStep \/ EnterHook) /\ UNCHANGED outVars
  \/ out = NoOutput /\ CallOverride /\ UNCHANGED outVars
  \/ HookAnswers \/ NoOverride \/ NetifOutput \/ PbufToBytes \/ DriverReturn

PathSpec == PathInit /\ [][PathNext]_pathVars

-----------------------------------------------------------------------------

(***************************************************************************)
(* A packet routed while set_routing_function is not called goes to the    *)
(* interface that the function of the last call picks, or to the default   *)
(* one if it picks none, raises, or was never set.                         *)
(***************************************************************************)
GoesToPicked ==
  out.at # "none" /\ overlap = "none" =>
    out.netif \in {DefaultNif} \cup (IF inForce = NoFn THEN {} ELSE {Picks[inForce]} \ {NoNif})

(***************************************************************************)
(* The driver gets the packet and nothing of the next one, however it is   *)
(* cut into pbufs, empty ones included: "payload is the complete IP        *)
(* packet" (src/lwip/netif/driver.py:24); of a packet in more than         *)
(* MAX_PBUF_FRAGMENTS pbufs the rest is missing.                           *)
(***************************************************************************)
PayloadComplete ==
  out.at = "driver" =>
    /\ IsPrefix(out.payload, Whole(packet))
    /\ Len(packet) <= MaxFragments => out.payload = Whole(packet)

=============================================================================
