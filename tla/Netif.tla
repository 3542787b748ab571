------------------------------- MODULE Netif --------------------------------
(***************************************************************************)
(* Network interfaces: LwIP.create_netif, the class Netif of               *)
(* src/lwip/netif/__init__.py and what lwIP keeps about each struct netif. *)
(*                                                                         *)
(* Netif methods run one lwIP function each under the core lock (module    *)
(* CoreLock), so a method is one step, the driver's callback included.     *)
(* lwIP routes a packet and calls the output function under the lock too.  *)
(* The flags property is read and assigned without it: an update of the    *)
(* driver's own flags, which are left out, writes back up and link as they *)
(* were read.  The struct lives as long as its Netif object; lwIP keeps a  *)
(* plain pointer to it.                                                    *)
(***************************************************************************)
CONSTANTS
  Thread,          \* Python threads that update flags
  NetifId,         \* Netif objects, or the struct each of them owns
  NoNetif          \* no default interface, no update, no packet

ASSUME NetifAssumption == NoNetif \notin NetifId

VARIABLES
  instance,   \* the LwIP object is referred to
  allocs,     \* LwIP.allocs
  held,       \* Netif objects the program refers to
  wanted,     \* history: added or made the default since they were removed
  asked,      \* history: what the set_* calls since add() asked for
  raced,      \* history: since add(), an update wrote back stale flags
  listed,     \* lwIP: netif_list
  default,    \* lwIP: netif_default
  flags,      \* struct netif.flags: up and link
  output,     \* struct netif.output
  update,     \* the flags update each thread is in the middle of
  packet      \* lwIP: the packet that is output, and who picked the interface

vars == <<instance, allocs, held, wanted, asked, raced, listed, default, flags, output, update, packet>>

Flag == {"up", "link"}
NoUpdate == [netif |-> NoNetif, flags |-> {}]
NoPacket == [netif |-> NoNetif, by |-> "nobody"]

TypeOK ==
  /\ instance \in BOOLEAN
  /\ allocs \subseteq NetifId
  /\ held \subseteq NetifId
  /\ wanted \subseteq NetifId
  /\ asked \in [NetifId -> SUBSET Flag]
  /\ raced \subseteq NetifId
  /\ listed \subseteq NetifId
  /\ default \in NetifId \cup {NoNetif}
  /\ flags \in [NetifId -> SUBSET Flag]
  /\ output \in [NetifId -> {"none", "null", "driver"}]
  /\ update \in [Thread -> [netif : NetifId \cup {NoNetif}, flags : SUBSET Flag]]
  /\ packet \in [netif : NetifId \cup {NoNetif}, by : {"nobody", "lwip", "function"}]

Init ==
  /\ instance = TRUE
  /\ allocs = {}
  /\ held = {}
  /\ wanted = {}
  /\ asked = [n \in NetifId |-> {}]
  /\ raced = {}
  /\ listed = {}
  /\ default = NoNetif
  /\ flags = [n \in NetifId |-> {}]
  /\ output = [n \in NetifId |-> "none"]
  /\ update = [t \in Thread |-> NoUpdate]
  /\ packet = NoPacket

(* The memory of the struct is there. *)
Alive(n) == n \in held \/ (instance /\ n \in allocs)

(* The interfaces lwIP goes through to route a packet. *)
Known == listed \cup ({default} \ {NoNetif})

-----------------------------------------------------------------------------
(* Objects.                                                                 *)

Fresh(n) == n \notin allocs \cup held \cup listed

(* Mutant of CreateNetif: the object is not kept in allocs. *)
CreateNetifUnkept(n) ==
  /\ instance
  /\ Fresh(n)
  /\ held' = held \cup {n}
  /\ UNCHANGED <<instance, allocs, wanted, asked, raced, listed, default, flags, output, update, packet>>

(* Mutant of CreateNetif: what is appended is not the Netif object. *)
CreateNetifNone(n) ==
  /\ instance
  /\ Fresh(n)
  /\ held' = held \cup {n}
  /\ allocs' = allocs \cup {NoNetif}
  /\ UNCHANGED <<instance, wanted, asked, raced, listed, default, flags, output, update, packet>>

CreateNetif(n) ==
  /\ instance
  /\ Fresh(n)
  /\ held' = held \cup {n}
  /\ allocs' = allocs \cup {n}
  /\ UNCHANGED <<instance, wanted, asked, raced, listed, default, flags, output, update, packet>>

(* The program and the driver let go of a Netif object. *)
DropNetif(n) ==
  /\ n \in held
  /\ \A t \in Thread : update[t].netif # n
  /\ held' = held \ {n}
  /\ UNCHANGED <<instance, allocs, wanted, asked, raced, listed, default, flags, output, update, packet>>

(* The program lets go of the LwIP object and with it of allocs. *)
DropInstance ==
  /\ instance
  /\ instance' = FALSE
  /\ UNCHANGED <<allocs, held, wanted, asked, raced, listed, default, flags, output, update, packet>>

-----------------------------------------------------------------------------
(* Netif.add and Netif.remove.                                              *)

(* No packet is being output. *)
CoreFree == packet = NoPacket

(***************************************************************************)
(* _netif_init under netif_add: what lwIP is told, and which output        *)
(* function it finds.  An exception in a cffi callback is printed and      *)
(* ERR_OK returned; it is raised before output is set (get_prefix, or its  *)
(* assertion) or after (lwip_on_init).                                     *)
(***************************************************************************)
InitOutcome ==
  {[ok |-> TRUE, output |-> "driver"], [ok |-> TRUE, output |-> "null"],
   [ok |-> FALSE, output |-> "driver"]}

(* Mutant of Add: netif_add leaves the flags of an earlier life. *)
AddKeepingFlags(n) ==
  /\ n \in held \ listed
  /\ CoreFree
  /\ \E result \in InitOutcome :
       /\ listed' = IF result.ok THEN listed \cup {n} ELSE listed
       /\ output' = [output EXCEPT ![n] = result.output]
  /\ wanted' = wanted \cup {n}
  /\ asked' = [asked EXCEPT ![n] = {}]
  /\ raced' = raced \ {n}
  /\ UNCHANGED <<instance, allocs, held, default, flags, update, packet>>

(***************************************************************************)
(* netif_add clears the flags, calls _netif_init and lists the interface   *)
(* if that returned ERR_OK; its own result is not looked at.  That the     *)
(* interface is not listed already is an assertion of lwIP.                *)
(***************************************************************************)
Add(n) ==
  /\ n \in held \ listed
  /\ CoreFree
  /\ \E result \in InitOutcome :
       /\ listed' = IF result.ok THEN listed \cup {n} ELSE listed
       /\ output' = [output EXCEPT ![n] = result.output]
  /\ flags' = [flags EXCEPT ![n] = {}]
  /\ wanted' = wanted \cup {n}
  /\ asked' = [asked EXCEPT ![n] = {}]
  /\ raced' = raced \ {n}
  /\ UNCHANGED <<instance, allocs, held, default, update, packet>>

(* Mutant of Remove: without the core lock. *)
RemoveUnlocked(n) ==
  /\ n \in held
  /\ listed' = listed \ {n}
  /\ default' = IF default = n THEN NoNetif ELSE default
  /\ flags' = [flags EXCEPT ![n] = @ \ {"up"}]
  /\ wanted' = wanted \ {n}
  /\ asked' = [asked EXCEPT ![n] = @ \ {"up"}]
  /\ UNCHANGED <<instance, allocs, held, raced, output, update, packet>>

(* netif_remove takes the interface down and out of list and default, if it is there. *)
Remove(n) ==
  /\ n \in held
  /\ CoreFree
  /\ listed' = listed \ {n}
  /\ default' = IF default = n THEN NoNetif ELSE default
  /\ flags' = [flags EXCEPT ![n] = @ \ {"up"}]
  /\ wanted' = wanted \ {n}
  /\ asked' = [asked EXCEPT ![n] = @ \ {"up"}]
  /\ UNCHANGED <<instance, allocs, held, raced, output, update, packet>>

-----------------------------------------------------------------------------
(* set_up, set_down, set_link_up, set_link_down, set_default, whether the   *)
(* interface is listed or not.                                              *)

SetFlags(n, add, remove) ==
  /\ n \in held
  /\ CoreFree
  /\ flags' = [flags EXCEPT ![n] = (@ \ remove) \cup add]
  /\ asked' = [asked EXCEPT ![n] = (@ \ remove) \cup add]
  /\ UNCHANGED <<instance, allocs, held, wanted, raced, listed, default, output, update, packet>>

SetUp(n) == SetFlags(n, {"up"}, {})
SetDown(n) == SetFlags(n, {}, {"up"})
SetLinkUp(n) == SetFlags(n, {"link"}, {})
SetLinkDown(n) == SetFlags(n, {}, {"link"})

SetDefault(n) ==
  /\ n \in held
  /\ CoreFree
  /\ default' = n
  /\ wanted' = wanted \cup {n}
  /\ UNCHANGED <<instance, allocs, held, asked, raced, listed, flags, output, update, packet>>

-----------------------------------------------------------------------------
(* netif.flags |= x and netif.flags &= ~x.                                  *)

(* The getter. *)
ReadFlags(t, n) ==
  /\ n \in held
  /\ update[t] = NoUpdate
  /\ update' = [update EXCEPT ![t] = [netif |-> n, flags |-> flags[n]]]
  /\ UNCHANGED <<instance, allocs, held, wanted, asked, raced, listed, default, flags, output, packet>>

(* The setter. *)
WriteFlags(t) ==
  LET n == update[t].netif IN
  /\ update[t] # NoUpdate
  /\ flags' = [flags EXCEPT ![n] = update[t].flags]
  /\ raced' = IF update[t].flags = flags[n] THEN raced ELSE raced \cup {n}
  /\ update' = [update EXCEPT ![t] = NoUpdate]
  /\ UNCHANGED <<instance, allocs, held, wanted, asked, listed, default, output, packet>>

-----------------------------------------------------------------------------
(* Packets that leave lwIP, from the choice of an interface to the return   *)
(* of its output function.                                                  *)

(* What lwIP itself looks at; netif_add sets the address and an output function. *)
Usable(n) ==
  /\ n \in listed \/ default = n
  /\ flags[n] = Flag
  /\ output[n] # "none"

(***************************************************************************)
(* No override is set, or the routing function answers None or raises.     *)
(* Where lwIP goes through freed memory it may find any interface.         *)
(***************************************************************************)
RouteByLwip(n) ==
  /\ CoreFree
  /\ Usable(n) \/ ~ \A m \in Known : Alive(m)
  /\ packet' = [netif |-> n, by |-> "lwip"]
  /\ UNCHANGED <<instance, allocs, held, wanted, asked, raced, listed, default, flags, output, update>>

(***************************************************************************)
(* The routing function answers with a Netif, any that the program has:    *)
(* lwIP takes it as it is, unlisted, down or never added.                  *)
(***************************************************************************)
RouteByFunction(n) ==
  /\ instance
  /\ n \in held
  /\ CoreFree
  /\ packet' = [netif |-> n, by |-> "function"]
  /\ UNCHANGED <<instance, allocs, held, wanted, asked, raced, listed, default, flags, output, update>>

(* The output function, the driver's or that of netif_add, returns; a call of NULL does not. *)
OutputReturns ==
  /\ packet # NoPacket
  /\ output[packet.netif] # "none"
  /\ packet' = NoPacket
  /\ UNCHANGED <<instance, allocs, held, wanted, asked, raced, listed, default, flags, output, update>>

-----------------------------------------------------------------------------

Next ==
  \/ \E n \in NetifId :
       \/ CreateNetif(n) \/ DropNetif(n) \/ Add(n) \/ Remove(n)
       \/ SetUp(n) \/ SetDown(n) \/ SetLinkUp(n) \/ SetLinkDown(n) \/ SetDefault(n)
       \/ RouteByLwip(n) \/ RouteByFunction(n)
       \/ \E t \in Thread : ReadFlags(t, n)
  \/ \E t \in Thread : WriteFlags(t)
  \/ DropInstance \/ OutputReturns

Spec == Init /\ [][Next]_vars

-----------------------------------------------------------------------------

(***************************************************************************)
(* While the LwIP object is there, a packet that no routing function sent  *)
(* there is output only to an interface that the program has added or made *)
(* the default since it last removed it, and has asked to be up and with   *)
(* its link, until the output ends: "Send traffic and ensure it does not   *)
(* get to the interface" (tests/test_netif.py:100).  Only an update that   *)
(* wrote back stale flags may have brought it up instead.                  *)
(***************************************************************************)
SentWhereAsked ==
  instance /\ packet.by = "lwip" =>
    /\ packet.netif \in wanted
    /\ packet.netif \in raced \/ asked[packet.netif] = Flag

(***************************************************************************)
(* While the LwIP object is there, so is the memory of every interface     *)
(* lwIP points to, the one of a packet that is output included: allocs is  *)
(* to "Prevent GC from freeing memory in use by lwIP"                      *)
(* (src/lwip/__init__.py:42).                                              *)
(***************************************************************************)
ListedAlive ==
  instance => \A n \in Known \cup ({packet.netif} \ {NoNetif}) : Alive(n)

(***************************************************************************)
(* What set_up, set_down, set_link_up and set_link_down last asked for is  *)
(* in force on every interface, whether listed, added in vain, removed or  *)
(* the default, repeated add() and remove() included; only an update of    *)
(* flags that read them before such a call and writes them after it may    *)
(* undo it.                                                                *)
(***************************************************************************)
FlagsKept == \A n \in NetifId \ raced : flags[n] = asked[n]

(***************************************************************************)
(* Without that exception: set_up "Enables the interface so it can handle  *)
(* traffic" (src/lwip/netif/__init__.py:88).                               *)
(***************************************************************************)
SettingsInForce == \A n \in listed : flags[n] = asked[n]

=============================================================================
