--------------------------- MODULE LwipPollProofs ---------------------------
(***************************************************************************)
(* Proofs about LwipPoll for every number of threads, descriptors and      *)
(* arrays.  What poll() uses is what is registered when no registration    *)
(* changes while an array is made; lwip_poll's number fits the array when  *)
(* one thread polls.                                                       *)
(***************************************************************************)
EXTENDS LwipPoll, FiniteSetTheorems, TLAPS

(* Who has built an array, or is in lwip_poll, has it; once _fds is set it  *)
(* is never None again.                                                     *)
ArraysHeld ==
  \A p \in Poller :
    /\ pc[p] \in {"built"} \cup PollPc => local[p] \in Array
    /\ pc[p] \in {"published", "take"} => fds \in Array

TypeInv == TypeOK /\ ArraysHeld

(* Nobody changes the dict while an array is made of it.                    *)
Quiet == (\E p \in Poller : pc[p] \in PopulatePc) => changing = {}

(* The array that is made, or has been, holds the registrations.            *)
Current ==
  \A p \in Poller :
    /\ pc[p] = "built" => heap[local[p]].events = registered
    /\ pc[p] \in {"published", "take"} => heap[fds].events = registered

IInv == TypeInv /\ Quiet /\ Current /\ CacheCurrent

-----------------------------------------------------------------------------
(* Types.                                                                   *)

(* What a scan leaves is an array of revents, and a count of it is a        *)
(* number of descriptors.                                                   *)
LEMMA ScanTypes ==
  ASSUME TypeOK, NEW a \in Array
  PROVE  Scan(heap[a].events) \in [Fd -> SUBSET (Event \cup {Invalid})]
<1> SUFFICES ASSUME NEW fd \in Fd
             PROVE  ready[fd] \cap (heap[a].events[fd] \cup {Invalid}) \subseteq Event \cup {Invalid}
  BY DEF Scan
<1>1. ready[fd] \subseteq Event \cup {Invalid}
  BY DEF TypeOK, Found
<1> QED
  BY <1>1

LEMMA CountTypes ==
  ASSUME NEW revents
  PROVE  Cardinality(NonZero(revents)) \in 0..Cardinality(Fd)
<1>1. NonZero(revents) \subseteq Fd /\ IsFiniteSet(Fd)
  BY PollAssumption DEF NonZero
<1>2. /\ IsFiniteSet(NonZero(revents))
      /\ Cardinality(NonZero(revents)) <= Cardinality(Fd)
  BY <1>1, FS_Subset
<1>3. Cardinality(NonZero(revents)) \in Nat /\ Cardinality(Fd) \in Nat
  BY <1>1, <1>2, FS_CardinalityType
<1> QED
  BY <1>2, <1>3

(* What a scan step changes.                                                *)
LEMMA ScanStep ==
  ASSUME TypeInv, NEW p \in Poller, PollCall(p) \/ PollWake(p)
  PROVE  \E a \in Array, revents \in [Fd -> SUBSET (Event \cup {Invalid})], where \in {"wait", "scan"} :
           /\ pc[p] \in {"call", "wait"} /\ a = local[p]
           /\ heap' = [heap EXCEPT ![a].revents = revents]
           /\ nready' = [nready EXCEPT ![p] = Cardinality(NonZero(revents))]
           /\ pc' = [pc EXCEPT ![p] = where]
           /\ UNCHANGED <<registered, fds, fresh, changing, local, ready>>
<1> DEFINE a == local[p]
           scan == Scan(heap[a].events)
           both == [fd \in Fd |-> heap[a].revents[fd] \cup scan[fd]]
<1>1. a \in Array
  BY DEF TypeInv, ArraysHeld, PollPc, PollCall, PollWake
<1>2. scan \in [Fd -> SUBSET (Event \cup {Invalid})]
  BY <1>1, ScanTypes DEF TypeInv
<1>3. both \in [Fd -> SUBSET (Event \cup {Invalid})]
  <2>1. heap[a].revents \in [Fd -> SUBSET (Event \cup {Invalid})]
    BY <1>1 DEF TypeInv, TypeOK, Pollfds
  <2> QED
    BY <1>2, <2>1
<1>4. CASE PollCall(p)
  <2>1. PICK where \in {"wait", "scan"} : ScanInto(p, scan, where)
    BY <1>4 DEF PollCall
  <2> QED
    BY <1>1, <1>2, <1>4, <2>1 DEF PollCall, ScanInto, GoTo
<1>5. CASE PollWake(p)
  <2>1. ScanInto(p, both, "scan")
    BY <1>5 DEF PollWake
  <2> QED
    BY <1>1, <1>3, <1>5, <2>1 DEF PollWake, ScanInto, GoTo
<1> QED
  BY <1>4, <1>5

LEMMA TypeInit == Init => TypeInv
<1> SUFFICES ASSUME Init PROVE TypeInv
  OBVIOUS
<1>1. heap \in [Array -> Pollfds]
  BY DEF Init, Unused, Pollfds
<1>2. 0 \in 0..Cardinality(Fd)
  BY PollAssumption, FS_CardinalityType
<1>3. TypeOK
  BY <1>1, <1>2 DEF Init, TypeOK, Found
<1> QED
  BY <1>3 DEF Init, TypeInv, ArraysHeld, PollPc

LEMMA TypeStep == TypeInv /\ [Next]_vars => TypeInv'
<1> SUFFICES ASSUME TypeInv, [Next]_vars PROVE TypeInv'
  OBVIOUS
<1> USE DEF TypeInv, TypeOK, ArraysHeld, PopulatePc, PollPc, GoTo
<1>1. CASE UNCHANGED vars
  BY <1>1 DEF vars
<1>2. ASSUME NEW p \in Poller, PollBegin(p) \/ MarkFresh(p) \/ Publish(p) \/ Take(p)
      PROVE  TypeInv'
  <2>1. CASE PollBegin(p)
    BY <2>1 DEF PollBegin
  <2>2. CASE MarkFresh(p)
    BY <2>2 DEF MarkFresh
  <2>3. CASE Publish(p)
    BY <2>3 DEF Publish
  <2>4. CASE Take(p)
    BY <2>4 DEF Take
  <2> QED
    BY <1>2, <2>1, <2>2, <2>3, <2>4
<1>3. ASSUME NEW p \in Poller, PollReturn(p) PROVE TypeInv'
  <2>1. 0 \in 0..Cardinality(Fd)
    BY PollAssumption, FS_CardinalityType
  <2> QED
    BY <1>3, <2>1 DEF PollReturn
<1>4. ASSUME NEW p \in Poller, NEW a \in Array, Snapshot(p, a) PROVE TypeInv'
  <2>1. [Unused EXCEPT !.events = registered] \in Pollfds
    BY DEF Unused, Pollfds
  <2> QED
    BY <1>4, <2>1 DEF Snapshot
<1>5. ASSUME NEW p \in Poller, PollCall(p) \/ PollWake(p) PROVE TypeInv'
  <2>1. PICK a \in Array, revents \in [Fd -> SUBSET (Event \cup {Invalid})], where \in {"wait", "scan"} :
          /\ pc[p] \in {"call", "wait"} /\ a = local[p]
          /\ heap' = [heap EXCEPT ![a].revents = revents]
          /\ nready' = [nready EXCEPT ![p] = Cardinality(NonZero(revents))]
          /\ pc' = [pc EXCEPT ![p] = where]
          /\ UNCHANGED <<registered, fds, fresh, changing, local, ready>>
    BY <1>5, ScanStep
  <2>2. Cardinality(NonZero(revents)) \in 0..Cardinality(Fd)
    BY CountTypes
  <2>3. heap' \in [Array -> Pollfds]
    <3>1. [heap[a] EXCEPT !.revents = revents] \in Pollfds
      BY DEF Pollfds
    <3>2. heap' = [heap EXCEPT ![a] = [heap[a] EXCEPT !.revents = revents]]
      BY <2>1
    <3> QED
      BY <3>1, <3>2
  <2> QED
    BY <2>1, <2>2, <2>3
<1>6. ASSUME NEW r \in Registrar, NEW fd \in Fd, NEW mask \in Mask \cup {NoMask},
             ChangeDict(r, fd, mask)
      PROVE  TypeInv'
  BY <1>6 DEF ChangeDict
<1>7. ASSUME NEW r \in Registrar, MarkStale(r) PROVE TypeInv'
  BY <1>7 DEF MarkStale
<1>8. ASSUME NEW fd \in Fd, NEW found \in Found, SocketEvent(fd, found) PROVE TypeInv'
  BY <1>8 DEF SocketEvent
<1> QED
  BY <1>1, <1>2, <1>3, <1>4, <1>5, <1>6, <1>7, <1>8
     DEF Next, PollStep, Register, Modify, Unregister

(***************************************************************************)
(* The types of LwipPoll, with the assertion of _populate_fds: an array    *)
(* that _fds_fresh vouches for is there.                                   *)
(***************************************************************************)
THEOREM TypeCorrect == Spec => []TypeOK
<1>1. TypeInv => TypeOK
  BY DEF TypeInv
<1> QED
  BY <1>1, TypeInit, TypeStep, PTL DEF Spec

-----------------------------------------------------------------------------
(* What is polled is what is registered.                                    *)

LEMMA CurrentStep ==
  ASSUME "populate" \notin During, IInv, [Next]_vars
  PROVE  Quiet' /\ Current' /\ CacheCurrent'
<1> USE DEF IInv, Quiet, Current, CacheCurrent
<1>0. TypeOK /\ ArraysHeld
  BY DEF TypeInv
<1>1. CASE UNCHANGED vars
  BY <1>1 DEF vars
<1>2. ASSUME NEW p \in Poller, PollBegin(p) \/ MarkFresh(p) \/ Publish(p) \/ Take(p)
      PROVE  Quiet' /\ Current' /\ CacheCurrent'
  <2> USE <1>0 DEF TypeOK, ArraysHeld, PopulatePc, PollPc, GoTo
  <2>1. CASE PollBegin(p)
    BY <2>1 DEF PollBegin, MayPopulate
  <2>2. CASE MarkFresh(p)
    BY <2>2 DEF MarkFresh
  <2>3. CASE Publish(p)
    BY <2>3 DEF Publish
  <2>4. CASE Take(p)
    BY <2>4 DEF Take
  <2> QED
    BY <1>2, <2>1, <2>2, <2>3, <2>4
<1>3. ASSUME NEW p \in Poller, PollReturn(p) PROVE Quiet' /\ Current' /\ CacheCurrent'
  BY <1>0, <1>3 DEF PollReturn, TypeOK, PopulatePc, PollPc, GoTo
<1>4. ASSUME NEW p \in Poller, NEW a \in Array, Snapshot(p, a)
      PROVE  Quiet' /\ Current' /\ CacheCurrent'
  <2>1. a # fds /\ \A q \in Poller : local[q] # a
    BY <1>4 DEF Snapshot, InUse
  <2>2. /\ pc[p] = "snapshot" /\ pc' = [pc EXCEPT ![p] = "built"]
        /\ local' = [local EXCEPT ![p] = a]
        /\ heap'[a].events = registered /\ \A b \in Array \ {a} : heap'[b] = heap[b]
        /\ UNCHANGED <<registered, fds, fresh, changing>>
    BY <1>0, <1>4 DEF Snapshot, GoTo, TypeOK, Unused
  <2> QED
    BY <1>0, <2>1, <2>2 DEF TypeOK, ArraysHeld, PopulatePc, PollPc
<1>5. ASSUME NEW p \in Poller, PollCall(p) \/ PollWake(p)
      PROVE  Quiet' /\ Current' /\ CacheCurrent'
  <2>1. PICK a \in Array, revents \in [Fd -> SUBSET (Event \cup {Invalid})], where \in {"wait", "scan"} :
          /\ pc[p] \in {"call", "wait"} /\ a = local[p]
          /\ heap' = [heap EXCEPT ![a].revents = revents]
          /\ nready' = [nready EXCEPT ![p] = Cardinality(NonZero(revents))]
          /\ pc' = [pc EXCEPT ![p] = where]
          /\ UNCHANGED <<registered, fds, fresh, changing, local, ready>>
    BY <1>5, ScanStep
  <2>2. \A b \in Array : heap'[b].events = heap[b].events
    BY <1>0, <2>1 DEF TypeOK, Pollfds
  <2> QED
    BY <1>0, <2>1, <2>2 DEF TypeOK, ArraysHeld, PopulatePc, PollPc
<1>6. ASSUME NEW r \in Registrar, NEW fd \in Fd, NEW mask \in Mask \cup {NoMask},
             MayChange(r), ChangeDict(r, fd, mask)
      PROVE  Quiet' /\ Current' /\ CacheCurrent'
  <2>1. \A p \in Poller : pc[p] \notin PopulatePc
    BY <1>6 DEF MayChange, Stage
  <2> QED
    BY <1>6, <2>1 DEF ChangeDict, PopulatePc
<1>7. ASSUME NEW r \in Registrar, MarkStale(r) PROVE Quiet' /\ Current' /\ CacheCurrent'
  BY <1>7 DEF MarkStale
<1>8. ASSUME NEW fd \in Fd, NEW found \in Found, SocketEvent(fd, found)
      PROVE  Quiet' /\ Current' /\ CacheCurrent'
  BY <1>8 DEF SocketEvent
<1> QED
  BY <1>1, <1>2, <1>3, <1>4, <1>5, <1>6, <1>7, <1>8
     DEF Next, PollStep, Register, Modify, Unregister

LEMMA CurrentInit == Init => IInv
BY TypeInit DEF Init, IInv, Quiet, Current, CacheCurrent, PopulatePc

LEMMA Invariant ==
  ASSUME "populate" \notin During
  PROVE  Spec => []IInv
<1>1. IInv /\ [Next]_vars => IInv'
  BY CurrentStep, TypeStep DEF IInv
<1> QED
  BY <1>1, CurrentInit, PTL DEF Spec

(***************************************************************************)
(* When no registration changes while poll() makes its array, _fds_fresh   *)
(* never vouches for an array that misses a registration, with any number  *)
(* of threads that poll and register; registrations may change while       *)
(* others wait in lwip_poll.                                               *)
(***************************************************************************)
THEOREM CacheIsCurrent ==
  ASSUME "populate" \notin During
  PROVE  Spec => []CacheCurrent
<1>1. IInv => CacheCurrent
  BY DEF IInv
<1> QED
  BY <1>1, Invariant, PTL

(***************************************************************************)
(* And the array a poll() is about to use holds every registration.        *)
(***************************************************************************)
THEOREM PollsWhatIsRegistered ==
  ASSUME "populate" \notin During
  PROVE  Spec => []PollsRegistered
<1>1. IInv => PollsRegistered
  BY DEF IInv, Current, PollsRegistered
<1> QED
  BY <1>1, Invariant, PTL

-----------------------------------------------------------------------------
(* The number of ready descriptors.                                         *)

LEMMA CountStep ==
  ASSUME \A p, q \in Poller : p = q, TypeInv, NreadyMatches, [Next]_vars
  PROVE  NreadyMatches'
<1> USE DEF NreadyMatches, ReadyFds
<1>0. TypeOK /\ ArraysHeld
  BY DEF TypeInv
<1>1. ASSUME NEW p \in Poller, PollStep(p), ~PollCall(p), ~PollWake(p) PROVE NreadyMatches'
  <2>1. pc' = [pc EXCEPT ![p] = pc'[p]] /\ pc'[p] # "scan"
    BY <1>0, <1>1 DEF PollStep, PollBegin, Publish, MarkFresh, Take, PollReturn, Snapshot, GoTo, TypeOK
  <2> QED
    BY <2>1
<1>2. ASSUME NEW p \in Poller, PollCall(p) \/ PollWake(p) PROVE NreadyMatches'
  <2>1. PICK a \in Array, revents \in [Fd -> SUBSET (Event \cup {Invalid})], where \in {"wait", "scan"} :
          /\ pc[p] \in {"call", "wait"} /\ a = local[p]
          /\ heap' = [heap EXCEPT ![a].revents = revents]
          /\ nready' = [nready EXCEPT ![p] = Cardinality(NonZero(revents))]
          /\ pc' = [pc EXCEPT ![p] = where]
          /\ UNCHANGED <<registered, fds, fresh, changing, local, ready>>
    BY <1>0, <1>2, ScanStep DEF TypeInv
  <2>2. heap'[local'[p]].revents = revents /\ nready'[p] = Cardinality(NonZero(revents))
    BY <1>0, <2>1 DEF TypeOK, Pollfds
  <2> QED
    BY <2>2
<1>3. CASE UNCHANGED <<heap, pc, local, nready>>
  BY <1>3 DEF NonZero
<1>4. (\E p \in Poller : PollStep(p)) \/ UNCHANGED <<heap, pc, local, nready>>
  BY DEF Next, vars, Register, Modify, Unregister, ChangeDict, MarkStale, SocketEvent
<1> QED
  BY <1>1, <1>2, <1>3, <1>4

(***************************************************************************)
(* poll()'s assertion holds when one thread polls, whatever others do to   *)
(* the registrations and the sockets meanwhile.                            *)
(***************************************************************************)
THEOREM CountIsRight ==
  ASSUME \A p, q \in Poller : p = q
  PROVE  Spec => []NreadyMatches
<1>1. Init => TypeInv /\ NreadyMatches
  BY TypeInit DEF Init, NreadyMatches
<1>2. TypeInv /\ NreadyMatches /\ [Next]_vars => (TypeInv /\ NreadyMatches)'
  BY TypeStep, CountStep
<1> QED
  BY <1>1, <1>2, PTL DEF Spec

=============================================================================
