------------------------------ MODULE Selector ------------------------------
(***************************************************************************)
(* LwipPollSelector of src/lwip/selector.py over the LwipPoll object of    *)
(* src/lwip/poll.py.  The selector keeps a map from descriptors to keys    *)
(* next to the dict of its poll object; a key remembers the object it was  *)
(* registered for, but the number in it may by now belong to another one,  *)
(* because lwIP reuses the numbers of closed sockets.                      *)
(*                                                                         *)
(* One thread changes registrations, opens and closes sockets; another may *)
(* be in select().  The methods of the base class, the stdlib's            *)
(* _PollLikeSelector, are external.                                        *)
(***************************************************************************)
EXTENDS FiniteSets

CONSTANTS
  Obj,      \* Socket objects
  Foreign,  \* those of another LwIP instance, with numbers of their own
  Fd,       \* descriptors of lwIP sockets
  NoObj, NoFd, NoMask

Event == {"read", "write"}
Mask == {{}, {"read"}, {"write"}, Event}
Revents == Mask \cup {{"error"}, {"invalid"}}   \* an error counts as all events
Entry == [obj : Obj, fd : Fd, events : Mask]
NoEntry == [obj |-> NoObj, fd |-> NoFd, events |-> {}]

ASSUME SelectorAssumption == NoObj \notin Obj /\ NoFd \notin Fd /\ NoMask \notin Mask /\ Foreign \subseteq Obj

VARIABLES
  made,        \* the Socket objects made so far
  fileno,      \* Socket.fileno(), NoFd once closed
  keyObj,      \* _fd_to_key: the object of each key
  keyEvents,   \* _fd_to_key: the events of each key
  registered,  \* LwipPoll._registered_fds
  pc, fd, events,  \* the method of the changing thread, its key's number and events
  selecting,   \* the stage of the thread in select()
  asked,       \* the pollfd array it polls
  found,       \* revents of the array
  owner,       \* history: the objects that had the numbers when they were polled
  collected,   \* the pair select() has collected last
  changed,     \* history: numbers whose registration has changed since select() began
  left         \* history: objects closed while they were registered

vars == <<made, fileno, keyObj, keyEvents, registered, pc, fd, events,
          selecting, asked, found, owner, collected, changed, left>>
objVars == <<made, fileno>>
keyVars == <<keyObj, keyEvents, registered, changed>>
changeVars == <<pc, fd, events>>
selectVars == <<selecting, asked, found, owner, collected>>

TypeOK ==
  /\ made \subseteq Obj
  /\ fileno \in [Obj -> Fd \cup {NoFd}]
  /\ keyObj \in [Fd -> Obj \cup {NoObj}]
  /\ keyEvents \in [Fd -> Mask]
  /\ registered \in [Fd -> Mask \cup {NoMask}]
  /\ pc \in {"idle", "register", "unregister", "modify", "replace"}
  /\ fd \in Fd \cup {NoFd}
  /\ events \in Mask
  /\ selecting \in {"no", "polling", "collecting"}
  /\ asked \in [Fd -> Mask \cup {NoMask}]
  /\ found \in [Fd -> Revents]
  /\ owner \in [Fd -> Obj \cup {NoObj}]
  /\ collected \in Entry \cup {NoEntry}
  /\ changed \subseteq Fd
  /\ left \subseteq Obj

Init ==
  /\ made = {}
  /\ fileno = [o \in Obj |-> NoFd]
  /\ keyObj = [f \in Fd |-> NoObj]
  /\ keyEvents = [f \in Fd |-> {}]
  /\ registered = [f \in Fd |-> NoMask]
  /\ pc = "idle" /\ fd = NoFd /\ events = {}
  /\ selecting = "no"
  /\ asked = [f \in Fd |-> NoMask]
  /\ found = [f \in Fd |-> {}]
  /\ owner = [f \in Fd |-> NoObj]
  /\ collected = NoEntry
  /\ changed = {}
  /\ left = {}

-----------------------------------------------------------------------------
(* Sockets.                                                                 *)

(* The object lwIP's slot belongs to. *)
OwnerOf(f) ==
  IF \E o \in made \ Foreign : fileno[o] = f THEN CHOOSE o \in made \ Foreign : fileno[o] = f ELSE NoObj

Create(o, f) ==
  /\ pc = "idle"
  /\ o \notin made
  /\ o \notin Foreign => OwnerOf(f) = NoObj
  /\ made' = made \cup {o}
  /\ fileno' = [fileno EXCEPT ![o] = f]
  /\ UNCHANGED <<keyVars, changeVars, selectVars, left>>

(* Socket.close(), whether or not the object is still registered. *)
Close(o) ==
  /\ pc = "idle"
  /\ fileno[o] # NoFd
  /\ fileno' = [fileno EXCEPT ![o] = NoFd]
  /\ left' = IF keyObj[fileno[o]] = o THEN left \cup {o} ELSE left
  /\ UNCHANGED <<made, keyVars, changeVars, selectVars>>

-----------------------------------------------------------------------------
(* register, unregister, modify: the key map, then the poll object.         *)

(* The number of the key that was made for the object. *)
Search(o) == IF \E f \in Fd : keyObj[f] = o THEN CHOOSE f \in Fd : keyObj[f] = o ELSE NoFd

(* Mutant of FileobjLookup: no search for a closed object. *)
LookupOpen(o) == IF o \notin Foreign THEN fileno[o] ELSE NoFd

(* Mutant of FileobjLookup: the instance is not checked. *)
LookupAnyInstance(o) == IF fileno[o] # NoFd THEN fileno[o] ELSE Search(o)

(***************************************************************************)
(* _fileobj_lookup: the number of an open object of the instance; for any  *)
(* other the keys are searched.  ValueError when none was made for it.     *)
(***************************************************************************)
FileobjLookup(o) == IF o \notin Foreign /\ fileno[o] # NoFd THEN fileno[o] ELSE Search(o)

(* A method has found key's number f and goes on at where. *)
Enter(where, f, mask) ==
  /\ pc = "idle"
  /\ f # NoFd
  /\ pc' = where
  /\ fd' = f
  /\ events' = mask

Leave == pc' = "idle" /\ fd' = NoFd /\ events' = {}

(* KeyError if the number has a key, whoever it was made for. *)
RegisterKey(o, mask) ==
  /\ o \in made
  /\ mask # {}
  /\ Enter("register", FileobjLookup(o), mask)
  /\ keyObj[fd'] = NoObj
  /\ keyObj' = [keyObj EXCEPT ![fd'] = o]
  /\ keyEvents' = [keyEvents EXCEPT ![fd'] = mask]
  /\ changed' = changed \cup {fd'}
  /\ UNCHANGED <<objVars, registered, selectVars, left>>

RegisterPoll ==
  /\ pc = "register"
  /\ registered' = [registered EXCEPT ![fd] = events]
  /\ Leave
  /\ UNCHANGED <<objVars, keyObj, keyEvents, changed, selectVars, left>>

(* Pops the key with the number o has now, whoever it was made for. *)
UnregisterKey(o) ==
  /\ o \in made
  /\ Enter("unregister", FileobjLookup(o), {})
  /\ keyObj[fd'] # NoObj
  /\ keyObj' = [keyObj EXCEPT ![fd'] = NoObj]
  /\ keyEvents' = [keyEvents EXCEPT ![fd'] = {}]
  /\ changed' = changed \cup {fd'}
  /\ UNCHANGED <<objVars, registered, selectVars, left>>

(* Mutant of UnregisterPoll: the mask becomes -1. *)
UnregisterPollMinus ==
  /\ pc = "unregister"
  /\ registered' = [registered EXCEPT ![fd] = NoFd]
  /\ Leave
  /\ UNCHANGED <<objVars, keyObj, keyEvents, changed, selectVars, left>>

(* Mutant of UnregisterPoll: a closed number is left to the poll object. *)
UnregisterPollOpen ==
  /\ pc = "unregister"
  /\ registered' = IF OwnerOf(fd) # NoObj THEN [registered EXCEPT ![fd] = NoMask] ELSE registered
  /\ Leave
  /\ UNCHANGED <<objVars, keyObj, keyEvents, changed, selectVars, left>>

UnregisterPoll ==
  /\ pc = "unregister"
  /\ registered' = [registered EXCEPT ![fd] = NoMask]
  /\ Leave
  /\ UNCHANGED <<objVars, keyObj, keyEvents, changed, selectVars, left>>

(* Only a change of events reaches the poll object. *)
ModifyKey(o, mask) ==
  /\ o \in made
  /\ Enter("modify", FileobjLookup(o), mask)
  /\ keyObj[fd'] # NoObj
  /\ keyEvents[fd'] # mask
  /\ UNCHANGED <<objVars, keyVars, selectVars, left>>

(* The number has a key, so the dict has it too: no ENOENT here, no KeyError above. *)
ModifyPoll ==
  /\ pc = "modify"
  /\ registered' = [registered EXCEPT ![fd] = events]
  /\ pc' = "replace"
  /\ UNCHANGED <<objVars, keyObj, keyEvents, changed, fd, events, selectVars, left>>

(* The key is replaced; its object and its number stay. *)
ReplaceKey ==
  /\ pc = "replace"
  /\ keyEvents' = [keyEvents EXCEPT ![fd] = events]
  /\ changed' = changed \cup {fd}
  /\ Leave
  /\ UNCHANGED <<objVars, keyObj, registered, selectVars, left>>

-----------------------------------------------------------------------------
(* select().                                                                *)

SelectBegin ==
  /\ selecting = "no"
  /\ selecting' = "polling"
  /\ asked' = registered
  /\ changed' = IF pc = "idle" THEN {} ELSE {fd}
  /\ UNCHANGED <<objVars, keyObj, keyEvents, registered, changeVars, found, owner, collected, left>>

(* An open socket has any of the events asked for, and errors unasked; a free number is invalid. *)
Polls(f, revents) ==
  IF asked[f] = NoMask THEN revents = {}
  ELSE IF OwnerOf(f) = NoObj THEN revents = {"invalid"}
  ELSE revents \subseteq asked[f] \/ revents = {"error"}

(* The scan of lwip_poll that finds something, or the one at its timeout. *)
Polled ==
  /\ selecting = "polling"
  /\ selecting' = "collecting"
  /\ asked' = [f \in Fd |-> NoMask]
  /\ owner' = [f \in Fd |-> OwnerOf(f)]
  /\ found' \in {g \in [Fd -> Revents] : \A f \in Fd : Polls(f, g[f])}
  /\ UNCHANGED <<objVars, keyVars, changeVars, collected, left>>

(* Mutant of EventsOf: an invalid descriptor is no event. *)
EventsOfAsked(revents) == revents \cap Event

(* event & ~_EVENT_READ, event & ~_EVENT_WRITE: anything else is both. *)
EventsOf(revents) == {e \in Event : \E r \in revents : r = e \/ r \notin Event}

(* The next pair of poll()'s list; its key, if any, is looked up by number. *)
Collect(f) ==
  /\ selecting = "collecting"
  /\ found[f] # {}
  /\ found' = [found EXCEPT ![f] = {}]
  /\ collected' = IF keyObj[f] = NoObj THEN NoEntry
                  ELSE [obj |-> keyObj[f], fd |-> f, events |-> EventsOf(found[f]) \cap keyEvents[f]]
  /\ UNCHANGED <<objVars, keyVars, changeVars, selecting, asked, owner, left>>

SelectReturn ==
  /\ selecting = "collecting"
  /\ \A f \in Fd : found[f] = {}
  /\ selecting' = "no"
  /\ owner' = [f \in Fd |-> NoObj]
  /\ collected' = NoEntry
  /\ UNCHANGED <<objVars, keyVars, changeVars, asked, found, left>>

-----------------------------------------------------------------------------

Next ==
  \/ \E o \in Obj :
       \/ Close(o) \/ UnregisterKey(o)
       \/ \E f \in Fd : Create(o, f)
       \/ \E mask \in Mask : RegisterKey(o, mask) \/ ModifyKey(o, mask)
  \/ RegisterPoll \/ UnregisterPoll \/ ModifyPoll \/ ReplaceKey
  \/ SelectBegin \/ Polled \/ SelectReturn
  \/ \E f \in Fd : Collect(f)

Spec == Init /\ [][Next]_vars

-----------------------------------------------------------------------------
(* Properties.                                                              *)

(***************************************************************************)
(* Between two methods the key map and the dict of the poll object hold    *)
(* the same numbers with the same events, although objects are closed      *)
(* while registered and their numbers reused.                              *)
(***************************************************************************)
MapsAgree ==
  pc = "idle" =>
    \A f \in Fd : registered[f] = IF keyObj[f] = NoObj THEN NoMask ELSE keyEvents[f]

(***************************************************************************)
(* Every object that is registered, closed or not, is found by unregister, *)
(* under the one number it was registered for: "so we can unregister an    *)
(* object that was previously registered even if it is closed"             *)
(* (src/lwip/selector.py:54-55).                                           *)
(***************************************************************************)
RegisteredFound == \A f \in Fd : keyObj[f] # NoObj => FileobjLookup(keyObj[f]) = f

(***************************************************************************)
(* What select() says of an object it has seen at the object's own socket, *)
(* unless the object was closed while registered or the registration of    *)
(* its number changed while select() was waiting.                          *)
(***************************************************************************)
SelectsOwner ==
  LET r == collected IN
    r # NoEntry => owner[r.fd] = r.obj \/ r.obj \in left \/ r.fd \in changed

(***************************************************************************)
(* An object that was closed while registered does not hang its program:   *)
(* select() reports it with all the events it was registered for as long   *)
(* as its number is free.                                                  *)
(***************************************************************************)
ClosedReported ==
  LET r == collected IN
    r # NoEntry /\ r.obj \in left /\ owner[r.fd] = NoObj /\ r.fd \notin changed
      => r.events = keyEvents[r.fd]

=============================================================================
