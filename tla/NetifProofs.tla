---------------------------- MODULE NetifProofs -----------------------------
(***************************************************************************)
(* Theorems about the module Netif.  Sets of interfaces are not assumed to *)
(* be finite.                                                              *)
(*                                                                         *)
(* The memory argument: what lwIP points to was once made by create_netif, *)
(* so it is in allocs, which only the LwIP object can let go of.  The      *)
(* flags argument: the flags up and link change only where asked changes   *)
(* with them, or a stale update marks the interface as raced.  The routing *)
(* argument needs both, and that methods wait for a packet that is output. *)
(***************************************************************************)
EXTENDS Netif, TLAPS

(* The types the arguments rest on. *)
Typed ==
  /\ flags \in [NetifId -> SUBSET Flag]
  /\ asked \in [NetifId -> SUBSET Flag]
  /\ update \in [Thread -> [netif : NetifId \cup {NoNetif}, flags : SUBSET Flag]]

(* What the program holds or lwIP points to is in allocs. *)
Made ==
  /\ held \subseteq allocs /\ allocs \subseteq NetifId
  /\ listed \subseteq allocs
  /\ default \in allocs \cup {NoNetif}
  /\ instance => packet.netif \in allocs \cup {NoNetif}

(* A packet of a sound lwIP is output to an interface the program made. *)
LEMMA MadeRoute ==
  ASSUME Made, NEW n \in NetifId, RouteByLwip(n)
  PROVE  Made'
<1>1. packet'.netif = n /\ UNCHANGED <<instance, allocs, held, listed, default>>
  BY DEF RouteByLwip
<1>2. ASSUME instance PROVE n \in allocs
  <2>1. \A m \in Known : Alive(m)
    BY <1>2 DEF Made, Known, Alive
  <2>2. n \in listed \/ default = n
    BY <2>1 DEF RouteByLwip, Usable
  <2> QED
    BY <2>2, NetifAssumption DEF Made
<1> QED
  BY <1>1, <1>2 DEF Made

(* The memory argument, one step of it. *)
LEMMA MadeStep == Made /\ [Next]_vars => Made'
<1> SUFFICES ASSUME Made, [Next]_vars PROVE Made' OBVIOUS
<1> USE DEF Made
<1>1. ASSUME NEW n \in NetifId, CreateNetif(n) PROVE Made' BY <1>1 DEF CreateNetif
<1>2. ASSUME NEW n \in NetifId, DropNetif(n) PROVE Made' BY <1>2 DEF DropNetif
<1>3. ASSUME NEW n \in NetifId, Add(n) PROVE Made' BY <1>3 DEF Add
<1>4. ASSUME NEW n \in NetifId, Remove(n) PROVE Made' BY <1>4 DEF Remove
<1>5. ASSUME NEW n \in NetifId, SetUp(n) \/ SetDown(n) \/ SetLinkUp(n) \/ SetLinkDown(n)
      PROVE  Made'
  BY <1>5 DEF SetUp, SetDown, SetLinkUp, SetLinkDown, SetFlags
<1>6. ASSUME NEW n \in NetifId, SetDefault(n) PROVE Made' BY <1>6 DEF SetDefault
<1>7. ASSUME NEW n \in NetifId, NEW t \in Thread, ReadFlags(t, n) PROVE Made'
  BY <1>7 DEF ReadFlags
<1>8. ASSUME NEW t \in Thread, WriteFlags(t) PROVE Made' BY <1>8 DEF WriteFlags
<1>9. ASSUME NEW n \in NetifId, RouteByLwip(n) PROVE Made' BY <1>9, MadeRoute
<1>10. ASSUME NEW n \in NetifId, RouteByFunction(n) PROVE Made' BY <1>10 DEF RouteByFunction
<1>11. CASE OutputReturns BY <1>11 DEF OutputReturns, NoPacket
<1>12. CASE DropInstance BY <1>12 DEF DropInstance
<1>13. CASE UNCHANGED vars BY <1>13 DEF vars
<1> QED
  BY <1>1, <1>2, <1>3, <1>4, <1>5, <1>6, <1>7, <1>8, <1>9, <1>10, <1>11, <1>12, <1>13 DEF Next

(***************************************************************************)
(* As long as the LwIP object is there, no interface lwIP has in its list, *)
(* as its default or under a packet loses its memory, whatever Netif       *)
(* objects the program drops: what LwIP.allocs is for.                     *)
(***************************************************************************)
THEOREM MemoryKept == Spec => []ListedAlive
<1>1. Init => Made BY DEF Init, Made, NoPacket
<1>2. Made /\ [Next]_vars => Made' BY MadeStep
<1>3. Made => ListedAlive BY DEF Made, ListedAlive, Known, Alive
<1> QED BY <1>1, <1>2, <1>3, PTL DEF Spec

-----------------------------------------------------------------------------

FlagsInv == Typed /\ FlagsKept

(* An operation of one interface that changes flags and asked alike. *)
LEMMA SetFlagsStep ==
  ASSUME FlagsInv, NEW n \in NetifId, NEW add \in SUBSET Flag, NEW remove \in SUBSET Flag,
         SetFlags(n, add, remove)
  PROVE  FlagsInv'
<1>1. Typed' BY DEF SetFlags, FlagsInv, Typed
<1>2. ASSUME NEW k \in NetifId \ raced PROVE flags'[k] = asked'[k]
  BY <1>2 DEF SetFlags, FlagsInv, Typed, FlagsKept
<1>3. FlagsKept' BY <1>2 DEF SetFlags, FlagsKept
<1> QED BY <1>1, <1>3 DEF FlagsInv

(* netif_add starts from nothing, and netif_remove takes the interface down. *)
LEMMA AddRemoveStep ==
  ASSUME FlagsInv, NEW n \in NetifId, Add(n) \/ Remove(n)
  PROVE  FlagsInv'
<1>1. CASE Add(n)
  <2>1. Typed' BY <1>1 DEF Add, FlagsInv, Typed
  <2>2. ASSUME NEW k \in NetifId \ raced' PROVE flags'[k] = asked'[k]
    BY <1>1, <2>2 DEF Add, FlagsInv, Typed, FlagsKept
  <2> QED BY <2>1, <2>2 DEF FlagsInv, FlagsKept
<1>2. CASE Remove(n)
  <2>1. Typed' BY <1>2 DEF Remove, FlagsInv, Typed
  <2>2. ASSUME NEW k \in NetifId \ raced' PROVE flags'[k] = asked'[k]
    BY <1>2, <2>2 DEF Remove, FlagsInv, Typed, FlagsKept
  <2> QED BY <2>1, <2>2 DEF FlagsInv, FlagsKept
<1> QED BY <1>1, <1>2

(* A setter that finds the flags as its getter did, or marks the interface. *)
LEMMA WriteFlagsStep ==
  ASSUME FlagsInv, NEW t \in Thread, WriteFlags(t)
  PROVE  FlagsInv'
<1> DEFINE n == update[t].netif
<1>1. flags' = [flags EXCEPT ![n] = update[t].flags] /\ asked' = asked
  BY DEF WriteFlags
<1>2. update[t].flags \in SUBSET Flag
  BY DEF FlagsInv, Typed
<1>3. Typed'
  <2>1. update' \in [Thread -> [netif : NetifId \cup {NoNetif}, flags : SUBSET Flag]]
    BY DEF WriteFlags, NoUpdate, FlagsInv, Typed
  <2> QED BY <1>1, <1>2, <2>1 DEF FlagsInv, Typed
<1>4. ASSUME NEW k \in NetifId \ raced' PROVE flags'[k] = asked'[k]
  <2>1. k \notin raced /\ (k = n => update[t].flags = flags[k])
    BY <1>4 DEF WriteFlags
  <2>2. flags'[k] = flags[k]
    BY <1>1, <2>1 DEF FlagsInv, Typed
  <2> QED BY <1>1, <2>1, <2>2 DEF FlagsInv, FlagsKept
<1> QED BY <1>3, <1>4 DEF FlagsInv, FlagsKept

LEMMA FlagsStep == FlagsInv /\ [Next]_vars => FlagsInv'
<1> SUFFICES ASSUME FlagsInv, [Next]_vars PROVE FlagsInv' OBVIOUS
<1>1. ASSUME NEW n \in NetifId,
             \/ CreateNetif(n) \/ DropNetif(n) \/ SetDefault(n)
             \/ RouteByLwip(n) \/ RouteByFunction(n)
      PROVE  FlagsInv'
  BY <1>1 DEF CreateNetif, DropNetif, SetDefault, RouteByLwip, RouteByFunction, FlagsInv, Typed, FlagsKept
<1>2. ASSUME NEW n \in NetifId, Add(n) \/ Remove(n) PROVE FlagsInv' BY <1>2, AddRemoveStep
<1>3. ASSUME NEW n \in NetifId, SetUp(n) \/ SetDown(n) \/ SetLinkUp(n) \/ SetLinkDown(n)
      PROVE  FlagsInv'
  BY <1>3, SetFlagsStep DEF SetUp, SetDown, SetLinkUp, SetLinkDown, Flag
<1>4. ASSUME NEW n \in NetifId, NEW t \in Thread, ReadFlags(t, n) PROVE FlagsInv'
  BY <1>4 DEF ReadFlags, FlagsInv, Typed, FlagsKept
<1>5. ASSUME NEW t \in Thread, WriteFlags(t) PROVE FlagsInv' BY <1>5, WriteFlagsStep
<1>6. CASE DropInstance \/ OutputReturns BY <1>6 DEF DropInstance, OutputReturns, FlagsInv, Typed, FlagsKept
<1>7. CASE UNCHANGED vars BY <1>7 DEF vars, FlagsInv, Typed, FlagsKept
<1> QED BY <1>1, <1>2, <1>3, <1>4, <1>5, <1>6, <1>7 DEF Next

LEMMA FlagsInit == Init => FlagsInv
BY DEF Init, FlagsInv, Typed, FlagsKept, NoUpdate

(***************************************************************************)
(* What the set_* methods asked for stays in force on every interface, for *)
(* any number of threads, failing drivers and repeated add() and remove()  *)
(* included, unless an update wrote back stale flags.                      *)
(***************************************************************************)
THEOREM SettingsKept == Spec => []FlagsKept
<1>1. FlagsInv => FlagsKept BY DEF FlagsInv
<1> QED BY <1>1, FlagsInit, FlagsStep, PTL DEF Spec

-----------------------------------------------------------------------------
(* Where lwIP sends packets.                                                *)

(* What is in lwIP's list or its default was put there since it was removed. *)
Registered == \A n \in NetifId : n \in listed \/ default = n => n \in wanted

SentInv == FlagsInv /\ Made /\ Registered /\ SentWhereAsked

(* lwIP's own choice, while what it goes through has not been freed. *)
LEMMA RouteStep ==
  ASSUME SentInv, NEW n \in NetifId, RouteByLwip(n)
  PROVE  SentWhereAsked'
<1> SUFFICES ASSUME instance PROVE n \in wanted /\ (n \in raced \/ asked[n] = Flag)
  BY DEF RouteByLwip, SentWhereAsked
<1>1. \A m \in Known : Alive(m)
  BY DEF SentInv, Made, Known, Alive
<1>2. (n \in listed \/ default = n) /\ flags[n] = Flag
  BY <1>1 DEF RouteByLwip, Usable
<1> QED
  BY <1>2 DEF SentInv, Registered, FlagsInv, FlagsKept

(* A method of Netif waits until no packet is output. *)
LEMMA LockedStep ==
  ASSUME CoreFree, packet' = packet
  PROVE  SentWhereAsked'
BY DEF CoreFree, NoPacket, SentWhereAsked

(* list, default and wanted change together. *)
LEMMA RegisteredStep == Registered /\ [Next]_vars => Registered'
<1> SUFFICES ASSUME Registered, [Next]_vars PROVE Registered' OBVIOUS
<1>1. ASSUME NEW n \in NetifId, Add(n) PROVE Registered'
  <2>1. PICK result \in InitOutcome : listed' = IF result.ok THEN listed \cup {n} ELSE listed
    BY <1>1 DEF Add
  <2>2. listed' \subseteq listed \cup {n} /\ default' = default /\ wanted' = wanted \cup {n}
    BY <1>1, <2>1 DEF Add
  <2> QED BY <2>2 DEF Registered
<1>2. ASSUME NEW n \in NetifId, Remove(n) PROVE Registered'
  BY <1>2, NetifAssumption DEF Remove, Registered
<1>3. ASSUME NEW n \in NetifId, SetDefault(n) PROVE Registered'
  BY <1>3 DEF SetDefault, Registered
<1>4. ASSUME UNCHANGED <<listed, default, wanted>> PROVE Registered'
  BY <1>4 DEF Registered
<1>5. ASSUME NEW n \in NetifId,
             \/ SetUp(n) \/ SetDown(n) \/ SetLinkUp(n) \/ SetLinkDown(n)
             \/ CreateNetif(n) \/ DropNetif(n) \/ RouteByLwip(n) \/ RouteByFunction(n)
             \/ \E t \in Thread : ReadFlags(t, n)
      PROVE  UNCHANGED <<listed, default, wanted>>
  BY <1>5 DEF SetUp, SetDown, SetLinkUp, SetLinkDown, SetFlags, CreateNetif, DropNetif,
              RouteByLwip, RouteByFunction, ReadFlags
<1>6. ASSUME (\E t \in Thread : WriteFlags(t)) \/ DropInstance \/ OutputReturns \/ UNCHANGED vars
      PROVE  UNCHANGED <<listed, default, wanted>>
  BY <1>6 DEF WriteFlags, DropInstance, OutputReturns, vars
<1> QED BY <1>1, <1>2, <1>3, <1>4, <1>5, <1>6 DEF Next

(* A packet stays where it was sent until its output ends. *)
LEMMA SentStep == SentInv /\ [Next]_vars => SentWhereAsked'
<1> SUFFICES ASSUME SentInv, [Next]_vars PROVE SentWhereAsked' OBVIOUS
<1> USE DEF SentInv
<1>1. ASSUME NEW n \in NetifId,
             \/ Add(n) \/ Remove(n) \/ SetDefault(n)
             \/ SetUp(n) \/ SetDown(n) \/ SetLinkUp(n) \/ SetLinkDown(n)
      PROVE  CoreFree /\ packet' = packet
  BY <1>1 DEF Add, Remove, SetDefault, SetUp, SetDown, SetLinkUp, SetLinkDown, SetFlags
<1>2. ASSUME NEW n \in NetifId, RouteByLwip(n) PROVE SentWhereAsked'
  BY <1>2, RouteStep
<1>3. ASSUME NEW n \in NetifId, RouteByFunction(n) PROVE SentWhereAsked'
  BY <1>3 DEF RouteByFunction, SentWhereAsked
<1>4. CASE OutputReturns BY <1>4 DEF OutputReturns, NoPacket, SentWhereAsked
<1>5. ASSUME NEW t \in Thread, WriteFlags(t) PROVE SentWhereAsked'
  BY <1>5 DEF WriteFlags, SentWhereAsked
<1>6. ASSUME NEW n \in NetifId,
             CreateNetif(n) \/ DropNetif(n) \/ (\E t \in Thread : ReadFlags(t, n))
      PROVE  SentWhereAsked'
  <2>1. UNCHANGED <<instance, wanted, asked, raced, packet>> BY <1>6 DEF CreateNetif, DropNetif, ReadFlags
  <2> QED BY <2>1, Zenon DEF SentWhereAsked
<1>7. CASE DropInstance BY <1>7, Zenon DEF DropInstance, SentWhereAsked
<1>8. CASE UNCHANGED vars BY <1>8, Zenon DEF vars, SentWhereAsked
<1> HIDE DEF SentInv
<1> QED BY <1>1, <1>2, <1>3, <1>4, <1>5, <1>6, <1>7, <1>8, LockedStep DEF Next

LEMMA SentInvStep == SentInv /\ [Next]_vars => SentInv'
BY FlagsStep, MadeStep, RegisteredStep, SentStep DEF SentInv

(***************************************************************************)
(* With failing drivers, methods called in any order on interfaces that    *)
(* are listed or not, flags assigned at any moment and a routing function  *)
(* that answers anything, lwIP itself outputs packets only to interfaces   *)
(* the program added or made the default since it removed them, and asked  *)
(* to be up, except for stale flags; and no method changes that while a    *)
(* packet is output.                                                       *)
(***************************************************************************)
THEOREM LwipSendsWhereAsked == Spec => []SentWhereAsked
<1>1. Init => SentInv
  <2>1. Init => Made BY DEF Init, Made, NoPacket
  <2>2. Init => Registered /\ SentWhereAsked
    BY NetifAssumption DEF Init, Registered, SentWhereAsked, NoPacket
  <2> QED BY <2>1, <2>2, FlagsInit DEF SentInv
<1>2. SentInv => SentWhereAsked BY DEF SentInv
<1> QED BY <1>1, <1>2, SentInvStep, PTL DEF Spec

-----------------------------------------------------------------------------

(* A thread in the middle of an update has read some interface's flags.     *)
ReadsOne == \A t \in Thread : update[t] # NoUpdate => update[t].netif \in NetifId

TypeInv == TypeOK /\ ReadsOne

LEMMA TypeAdd ==
  ASSUME TypeInv, NEW n \in NetifId, Add(n)
  PROVE  TypeInv'
<1>1. PICK result \in InitOutcome :
        /\ listed' = IF result.ok THEN listed \cup {n} ELSE listed
        /\ output' = [output EXCEPT ![n] = result.output]
  BY DEF Add
<1>2. result.output \in {"none", "null", "driver"} BY DEF InitOutcome
<1>3. listed' \subseteq NetifId BY <1>1 DEF TypeInv, TypeOK
<1>4. output' \in [NetifId -> {"none", "null", "driver"}] BY <1>1, <1>2 DEF TypeInv, TypeOK
<1>5. /\ flags' \in [NetifId -> SUBSET Flag] /\ asked' \in [NetifId -> SUBSET Flag]
      /\ wanted' \subseteq NetifId /\ raced' \subseteq NetifId
  BY DEF Add, TypeInv, TypeOK
<1>6. ReadsOne' BY DEF Add, TypeInv, ReadsOne
<1> QED BY <1>3, <1>4, <1>5, <1>6 DEF Add, TypeInv, TypeOK

LEMMA TypeWrite ==
  ASSUME TypeInv, NEW t \in Thread, WriteFlags(t)
  PROVE  TypeInv'
<1> DEFINE n == update[t].netif
<1>1. n \in NetifId /\ update[t].flags \in SUBSET Flag
  BY DEF WriteFlags, TypeInv, TypeOK, ReadsOne
<1>2. flags' = [flags EXCEPT ![n] = update[t].flags]
  BY DEF WriteFlags
<1>3. flags' \in [NetifId -> SUBSET Flag]
  BY <1>1, <1>2 DEF TypeInv, TypeOK
<1>4. raced' \subseteq NetifId BY <1>1 DEF WriteFlags, TypeInv, TypeOK
<1>5. NoUpdate \in [netif : NetifId \cup {NoNetif}, flags : SUBSET Flag] BY DEF NoUpdate
<1>6. update' = [update EXCEPT ![t] = NoUpdate] BY DEF WriteFlags
<1>7. update' \in [Thread -> [netif : NetifId \cup {NoNetif}, flags : SUBSET Flag]]
  BY <1>5, <1>6 DEF TypeInv, TypeOK
<1>8. ReadsOne' BY <1>6 DEF TypeInv, TypeOK, ReadsOne
<1> QED BY <1>3, <1>4, <1>7, <1>8 DEF WriteFlags, TypeInv, TypeOK

LEMMA TypeRead ==
  ASSUME TypeInv, NEW t \in Thread, NEW n \in NetifId, ReadFlags(t, n)
  PROVE  TypeInv'
<1>1. update' = [update EXCEPT ![t] = [netif |-> n, flags |-> flags[n]]] BY DEF ReadFlags
<1>2. update' \in [Thread -> [netif : NetifId \cup {NoNetif}, flags : SUBSET Flag]]
  BY <1>1 DEF TypeInv, TypeOK
<1>3. ReadsOne' BY <1>1 DEF TypeInv, TypeOK, ReadsOne
<1> QED BY <1>2, <1>3 DEF ReadFlags, TypeInv, TypeOK

(* A packet is output to an interface. *)
LEMMA TypePacket ==
  ASSUME TypeInv, (\E n \in NetifId : RouteByLwip(n) \/ RouteByFunction(n)) \/ OutputReturns
  PROVE  TypeInv'
<1>1. packet' \in [netif : NetifId \cup {NoNetif}, by : {"nobody", "lwip", "function"}]
  BY DEF RouteByLwip, RouteByFunction, OutputReturns, NoPacket
<1>2. UNCHANGED <<instance, allocs, held, wanted, asked, raced, listed, default, flags, output, update>>
  BY DEF RouteByLwip, RouteByFunction, OutputReturns
<1>3. ReadsOne' BY <1>2 DEF TypeInv, ReadsOne
<1> QED BY <1>1, <1>2, <1>3 DEF TypeInv, TypeOK

LEMMA TypeStep == TypeInv /\ [Next]_vars => TypeInv'
<1> SUFFICES ASSUME TypeInv, [Next]_vars PROVE TypeInv' OBVIOUS
<1>1. ASSUME NEW n \in NetifId, CreateNetif(n) PROVE TypeInv'
  BY <1>1 DEF CreateNetif, TypeInv, TypeOK, ReadsOne
<1>2. ASSUME NEW n \in NetifId, DropNetif(n) PROVE TypeInv'
  BY <1>2 DEF DropNetif, TypeInv, TypeOK, ReadsOne
<1>3. ASSUME NEW n \in NetifId, Remove(n) PROVE TypeInv'
  BY <1>3 DEF Remove, TypeInv, TypeOK, ReadsOne
<1>4. ASSUME NEW n \in NetifId, NEW add \in SUBSET Flag, NEW remove \in SUBSET Flag,
             SetFlags(n, add, remove)
      PROVE  TypeInv'
  BY <1>4 DEF SetFlags, TypeInv, TypeOK, ReadsOne
<1>5. ASSUME NEW n \in NetifId, SetUp(n) \/ SetDown(n) \/ SetLinkUp(n) \/ SetLinkDown(n)
      PROVE  TypeInv'
  BY <1>4, <1>5 DEF SetUp, SetDown, SetLinkUp, SetLinkDown, Flag
<1>6. ASSUME NEW n \in NetifId, SetDefault(n) PROVE TypeInv'
  BY <1>6 DEF SetDefault, TypeInv, TypeOK, ReadsOne
<1>7. CASE DropInstance
  BY <1>7 DEF DropInstance, TypeInv, TypeOK, ReadsOne
<1>8. CASE UNCHANGED vars
  BY <1>8 DEF vars, TypeInv, TypeOK, ReadsOne
<1> QED
  BY <1>1, <1>2, <1>3, <1>5, <1>6, <1>7, <1>8, TypeAdd, TypeRead, TypeWrite, TypePacket DEF Next

LEMMA TypeInit == Init => TypeInv
<1> SUFFICES ASSUME Init PROVE TypeInv OBVIOUS
<1>1. update \in [Thread -> [netif : NetifId \cup {NoNetif}, flags : SUBSET Flag]]
  BY DEF Init, NoUpdate
<1>2. packet \in [netif : NetifId \cup {NoNetif}, by : {"nobody", "lwip", "function"}]
  BY DEF Init, NoPacket
<1>3. ReadsOne BY DEF Init, ReadsOne
<1> QED BY <1>1, <1>2, <1>3 DEF Init, TypeInv, TypeOK

(***************************************************************************)
(* The state of the interfaces is well typed: allocs has Netif objects     *)
(* only, and a setter of flags writes to an interface its getter read.     *)
(***************************************************************************)
THEOREM TypeCorrect == Spec => []TypeOK
<1>1. TypeInv => TypeOK BY DEF TypeInv
<1> QED BY <1>1, TypeInit, TypeStep, PTL DEF Spec

=============================================================================
