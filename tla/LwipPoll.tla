----------------------------- MODULE LwipPoll ------------------------------
(***************************************************************************)
(* src/lwip/poll.py: a poll object keeps the registered descriptors in a   *)
(* dict and a pollfd array made from it, reused while _fds_fresh says that *)
(* the dict has not changed.  Threads change the registrations and poll;   *)
(* they interleave between bytecodes, and lwip_poll runs without the GIL.  *)
(*                                                                         *)
(* The array is shared by reference: two threads in poll() may hand the    *)
(* same array to lwip_poll, which clears and fills its revents.            *)
(* lwip_poll and the readiness of sockets are external.                    *)
(***************************************************************************)
EXTENDS Naturals, FiniteSets

CONSTANTS
  Poller,     \* threads that call poll()
  Registrar,  \* threads that call register(), modify(), unregister()
  Fd,         \* descriptors of lwIP sockets
  Event,      \* events a program can ask for
  Mask,       \* the event masks it uses
  NoMask,     \* not registered, not in the array
  Array,      \* pollfd arrays in memory
  NoArray,    \* None
  Invalid,    \* POLLNVAL, reported whatever the mask
  During      \* the stages of poll() at which another thread may start to change registrations

ASSUME PollAssumption ==
  /\ Mask \subseteq SUBSET Event
  /\ NoMask \notin Mask
  /\ NoArray \notin Array
  /\ Invalid \notin Event
  /\ During \subseteq {"populate", "poll"}
  /\ IsFiniteSet(Fd)   \* lwIP's table of sockets

VARIABLES
  registered,  \* _registered_fds: the event mask of each descriptor
  fds,         \* _fds
  fresh,       \* _fds_fresh
  heap,        \* the events and revents of each pollfd array
  changing,    \* registrars that have changed the dict and not yet reset _fds_fresh
  pc,          \* where each poller is
  local,       \* the array a poller works with
  nready,      \* what lwip_poll returned to each poller
  ready        \* lwIP: what a scan of each descriptor finds, asked for or not

vars == <<registered, fds, fresh, heap, changing, pc, local, nready, ready>>

PopulatePc == {"snapshot", "built", "published", "take"}
PollPc == {"call", "wait", "scan"}
Found == (SUBSET Event) \cup {{Invalid}}
Pollfds == [events : [Fd -> Mask \cup {NoMask}], revents : [Fd -> SUBSET (Event \cup {Invalid})]]
Unused == [events |-> [fd \in Fd |-> NoMask], revents |-> [fd \in Fd |-> {}]]

(* _populate_fds asserts that a fresh array is there. *)
TypeOK ==
  /\ registered \in [Fd -> Mask \cup {NoMask}]
  /\ fds \in Array \cup {NoArray}
  /\ fresh \in BOOLEAN /\ (fresh => fds \in Array)
  /\ heap \in [Array -> Pollfds]
  /\ changing \subseteq Registrar
  /\ pc \in [Poller -> {"idle"} \cup PopulatePc \cup PollPc]
  /\ local \in [Poller -> Array \cup {NoArray}]
  /\ nready \in [Poller -> 0..Cardinality(Fd)]
  /\ ready \in [Fd -> Found]

Init ==
  /\ registered = [fd \in Fd |-> NoMask]
  /\ fds = NoArray
  /\ fresh = FALSE
  /\ heap = [a \in Array |-> Unused]
  /\ changing = {}
  /\ pc = [p \in Poller |-> "idle"]
  /\ local = [p \in Poller |-> NoArray]
  /\ nready = [p \in Poller |-> 0]
  /\ ready = [fd \in Fd |-> {}]

GoTo(p, where) == pc' = [pc EXCEPT ![p] = where]

(* The arrays that self._fds or a local variable refers to. *)
InUse == {fds} \cup {local[p] : p \in Poller}

-----------------------------------------------------------------------------
(* register, modify, unregister: change the dict, then _fds_fresh = False.  *)

Stage(p) ==
  IF pc[p] \in PopulatePc THEN "populate" ELSE IF pc[p] \in PollPc THEN "poll" ELSE "idle"

MayChange(r) ==
  /\ r \notin changing
  /\ \A p \in Poller : Stage(p) \in During \cup {"idle"}

ChangeDict(r, fd, mask) ==
  /\ registered' = [registered EXCEPT ![fd] = mask]
  /\ changing' = changing \cup {r}
  /\ UNCHANGED <<fds, fresh, heap, pc, local, nready, ready>>

Register(r, fd, mask) == MayChange(r) /\ ChangeDict(r, fd, mask)

(* OSError(ENOENT) without registration. *)
Modify(r, fd, mask) ==
  /\ MayChange(r)
  /\ registered[fd] # NoMask
  /\ ChangeDict(r, fd, mask)

(* KeyError without registration. *)
Unregister(r, fd) ==
  /\ MayChange(r)
  /\ registered[fd] # NoMask
  /\ ChangeDict(r, fd, NoMask)

(* Mutant of MarkStale: _fds_fresh is not touched. *)
MarkNot(r) ==
  /\ r \in changing
  /\ changing' = changing \ {r}
  /\ UNCHANGED <<registered, fds, fresh, heap, pc, local, nready, ready>>

(* Mutant of MarkStale: _fds_fresh = True. *)
MarkInverted(r) ==
  /\ r \in changing
  /\ fresh' = TRUE
  /\ changing' = changing \ {r}
  /\ UNCHANGED <<registered, fds, heap, pc, local, nready, ready>>

MarkStale(r) ==
  /\ r \in changing
  /\ fresh' = FALSE
  /\ changing' = changing \ {r}
  /\ UNCHANGED <<registered, fds, heap, pc, local, nready, ready>>

-----------------------------------------------------------------------------
(* _populate_fds.                                                           *)

MayPopulate == changing # {} => "populate" \in During

(* Mutant of PollBegin: any array is taken for a fresh one. *)
PollBeginAny(p) ==
  /\ pc[p] = "idle"
  /\ MayPopulate
  /\ GoTo(p, IF fds # NoArray THEN "take" ELSE "snapshot")
  /\ UNCHANGED <<registered, fds, fresh, heap, changing, local, nready, ready>>

(* poll() starts with the cached array if it is fresh. *)
PollBegin(p) ==
  /\ pc[p] = "idle"
  /\ MayPopulate
  /\ GoTo(p, IF fresh THEN "take" ELSE "snapshot")
  /\ UNCHANGED <<registered, fds, fresh, heap, changing, local, nready, ready>>

(* ffi.new: an array with the registrations of this moment. *)
Snapshot(p, a) ==
  /\ pc[p] = "snapshot"
  /\ a \notin InUse
  /\ heap' = [heap EXCEPT ![a] = [Unused EXCEPT !.events = registered]]
  /\ local' = [local EXCEPT ![p] = a]
  /\ GoTo(p, "built")
  /\ UNCHANGED <<registered, fds, fresh, changing, nready, ready>>

(* self._fds = the new array. *)
Publish(p) ==
  /\ pc[p] = "built"
  /\ fds' = local[p]
  /\ local' = [local EXCEPT ![p] = NoArray]
  /\ GoTo(p, "published")
  /\ UNCHANGED <<registered, fresh, heap, changing, nready, ready>>

(* self._fds_fresh = True. *)
MarkFresh(p) ==
  /\ pc[p] = "published"
  /\ fresh' = TRUE
  /\ GoTo(p, "take")
  /\ UNCHANGED <<registered, fds, heap, changing, local, nready, ready>>

(* return self._fds *)
Take(p) ==
  /\ pc[p] = "take"
  /\ local' = [local EXCEPT ![p] = fds]
  /\ GoTo(p, "call")
  /\ UNCHANGED <<registered, fds, fresh, heap, changing, nready, ready>>

-----------------------------------------------------------------------------
(* lwip_poll, and what poll() makes of it.                                  *)

(* What a scan finds for the entries of an array. *)
Scan(events) ==
  [fd \in Fd |-> IF events[fd] = NoMask THEN {} ELSE ready[fd] \cap (events[fd] \cup {Invalid})]

NonZero(revents) == {fd \in Fd : revents[fd] # {}}

(* The array after a scan, and where its count takes the poller. *)
ScanInto(p, revents, where) ==
  /\ heap' = [heap EXCEPT ![local[p]].revents = revents]
  /\ nready' = [nready EXCEPT ![p] = Cardinality(NonZero(revents))]
  /\ GoTo(p, where)
  /\ UNCHANGED <<registered, fds, fresh, changing, local, ready>>

(* The first scan clears revents; without event or timeout it waits. *)
PollCall(p) ==
  /\ pc[p] = "call"
  /\ LET revents == Scan(heap[local[p]].events) IN
       \E where \in {"wait", "scan"} :
         /\ NonZero(revents) # {} => where = "scan"
         /\ ScanInto(p, revents, where)

(* The second scan, after an event or the timeout, adds to revents. *)
PollWake(p) ==
  /\ pc[p] = "wait"
  /\ LET pollfds == heap[local[p]] IN
       ScanInto(p, [fd \in Fd |-> pollfds.revents[fd] \cup Scan(pollfds.events)[fd]], "scan")

(* Mutant of ReadyFds: s.revents & s.events. *)
ReadyAsked(p) ==
  LET pollfds == heap[local[p]] IN
    {fd \in Fd : pollfds.events[fd] # NoMask /\ pollfds.revents[fd] \cap pollfds.events[fd] # {}}

(* ready_fds: the entries of the array with revents. *)
ReadyFds(p) == NonZero(heap[local[p]].revents)

(* poll() returns, or its assertion fails; the array may be garbage now. *)
PollReturn(p) ==
  /\ pc[p] = "scan"
  /\ local' = [local EXCEPT ![p] = NoArray]
  /\ nready' = [nready EXCEPT ![p] = 0]
  /\ GoTo(p, "idle")
  /\ UNCHANGED <<registered, fds, fresh, heap, changing, ready>>

(* A socket gets or loses data or room, is closed, or its slot reused. *)
SocketEvent(fd, found) ==
  /\ ready' = [ready EXCEPT ![fd] = found]
  /\ UNCHANGED <<registered, fds, fresh, heap, changing, pc, local, nready>>

-----------------------------------------------------------------------------

PollStep(p) ==
  \/ PollBegin(p) \/ Publish(p) \/ MarkFresh(p) \/ Take(p)
  \/ PollCall(p) \/ PollWake(p) \/ PollReturn(p)
  \/ \E a \in Array : Snapshot(p, a)

Next ==
  \/ \E p \in Poller : PollStep(p)
  \/ \E r \in Registrar, fd \in Fd :
       \/ \E mask \in Mask : Register(r, fd, mask) \/ Modify(r, fd, mask)
       \/ Unregister(r, fd)
  \/ \E r \in Registrar : MarkStale(r)
  \/ \E fd \in Fd, found \in Found : SocketEvent(fd, found)

Spec == Init /\ [][Next]_vars

-----------------------------------------------------------------------------

(***************************************************************************)
(* The number lwip_poll returned is the number of entries with revents     *)
(* when poll() looks at them: "assert nready == len(ready_fds), 'Incorrect *)
(* nready'" (src/lwip/poll.py:92).                                         *)
(***************************************************************************)
NreadyMatches ==
  \A p \in Poller : pc[p] = "scan" => nready[p] = Cardinality(ReadyFds(p))

(***************************************************************************)
(* The array poll() is about to use holds the registrations of this        *)
(* moment, however they were reached, unless some are being changed.       *)
(***************************************************************************)
PollsRegistered ==
  \A p \in Poller : pc[p] = "take" /\ changing = {} => heap[fds].events = registered

(***************************************************************************)
(* Whenever _fds_fresh is set and nobody is changing registrations, the    *)
(* cached array is the dict: no registration is lost to a later poll().    *)
(***************************************************************************)
CacheCurrent == fresh /\ changing = {} => heap[fds].events = registered

=============================================================================
