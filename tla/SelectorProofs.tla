--------------------------- MODULE SelectorProofs ---------------------------
(***************************************************************************)
(* Proofs about Selector for every number of objects and descriptors.      *)
(***************************************************************************)
EXTENDS Selector, TLAPS

USE SelectorAssumption

(* No two open objects of the instance have the same number.                *)
OneOwner ==
  /\ \A o \in Obj : fileno[o] # NoFd => o \in made
  /\ \A o, p \in Obj \ Foreign : fileno[o] = fileno[p] /\ fileno[o] # NoFd => o = p

(* A key was made for an object that has its number, or was left with it.   *)
KeysOwned ==
  \A f \in Fd : keyObj[f] # NoObj =>
    /\ keyObj[f] \in made \ Foreign
    /\ fileno[keyObj[f]] = f \/ (fileno[keyObj[f]] = NoFd /\ keyObj[f] \in left)

(* An object has one key.                                                   *)
OneKey == \A f, g \in Fd : keyObj[f] = keyObj[g] /\ keyObj[f] # NoObj => f = g

(* The key map and the poll object's dict, but for the method in progress.  *)
Agree(f) == registered[f] = IF keyObj[f] = NoObj THEN NoMask ELSE keyEvents[f]

Progress ==
  /\ pc = "idle" <=> fd = NoFd
  /\ \A f \in Fd : f # fd => Agree(f)
  /\ pc = "register" => keyObj[fd] # NoObj /\ keyEvents[fd] = events
  /\ pc = "unregister" => keyObj[fd] = NoObj
  /\ pc \in {"modify", "replace"} => keyObj[fd] # NoObj
  /\ pc = "replace" => registered[fd] = events

(* What select() has seen and not yet collected, and what it has.           *)
Seen ==
  selecting = "collecting" =>
    \A f \in Fd :
      /\ keyObj[f] # NoObj => owner[f] = keyObj[f] \/ keyObj[f] \in left \/ f \in changed
      /\ found[f] # {} /\ owner[f] = NoObj => found[f] = {"invalid"}

Collected ==
  collected # NoEntry =>
    /\ selecting = "collecting"
    /\ collected.fd \in Fd /\ collected.obj \in Obj

IInv ==
  /\ TypeOK /\ OneOwner /\ KeysOwned /\ OneKey /\ Progress
  /\ Seen /\ Collected /\ SelectsOwner /\ ClosedReported

-----------------------------------------------------------------------------
(* What the definitions mean under the invariant.                           *)

(* With one owner per number OwnerOf finds it.                              *)
LEMMA OwnerFound ==
  ASSUME OneOwner, made \subseteq Obj, NEW o \in Obj \ Foreign, NEW f \in Fd, fileno[o] = f
  PROVE  OwnerOf(f) = o
<1>1. \A p \in made \ Foreign : fileno[p] = f => p = o
  BY DEF OneOwner
<1>2. o \in made \ Foreign
  BY DEF OneOwner
<1> QED
  BY <1>1, <1>2 DEF OwnerOf

LEMMA OwnerType ==
  ASSUME made \subseteq Obj, NEW f
  PROVE  /\ OwnerOf(f) \in Obj \cup {NoObj}
         /\ OwnerOf(f) = NoObj => \A o \in made \ Foreign : fileno[o] # f
BY DEF OwnerOf

(* With one key per object the search finds the number of the key.          *)
LEMMA LookupFinds ==
  ASSUME KeysOwned, OneKey, NEW f \in Fd, keyObj[f] # NoObj
  PROVE  FileobjLookup(keyObj[f]) = f
<1>1. CASE fileno[keyObj[f]] = NoFd
  <2>1. \A g \in Fd : keyObj[g] = keyObj[f] => g = f
    BY DEF OneKey
  <2> QED
    BY <1>1, <2>1 DEF FileobjLookup, Search
<1>2. CASE fileno[keyObj[f]] # NoFd
  BY <1>2 DEF FileobjLookup, Search, KeysOwned
<1> QED
  BY <1>1, <1>2

(* A number found for an object without a key is its own.                   *)
LEMMA LookupOwn ==
  ASSUME TypeOK, NEW o \in Obj, FileobjLookup(o) # NoFd
  PROVE  /\ FileobjLookup(o) \in Fd
         /\ keyObj[FileobjLookup(o)] = NoObj => o \notin Foreign /\ fileno[o] = FileobjLookup(o)
<1>1. CASE o \notin Foreign /\ fileno[o] # NoFd
  BY <1>1 DEF FileobjLookup, TypeOK
<1>2. CASE ~(o \notin Foreign /\ fileno[o] # NoFd)
  <2>1. \E f \in Fd : keyObj[f] = o
    BY <1>2 DEF FileobjLookup, Search
  <2>2. FileobjLookup(o) \in Fd /\ keyObj[FileobjLookup(o)] = o
    BY <1>2, <2>1 DEF FileobjLookup, Search
  <2> QED
    BY <2>2
<1> QED
  BY <1>1, <1>2

(* The events of an invalid number are all events.                          *)
LEMMA InvalidIsAll == EventsOf({"invalid"}) = Event
BY DEF EventsOf, Event

LEMMA EventsType == \A revents : EventsOf(revents) \subseteq Event
BY DEF EventsOf

LEMMA MaskIsPowerset == Mask = SUBSET Event
BY DEF Mask, Event

-----------------------------------------------------------------------------
(* Types.                                                                   *)

(* No method has begun and nothing is registered.                           *)
LEMMA InvInit == Init => IInv
<1> SUFFICES ASSUME Init PROVE IInv
  OBVIOUS
<1>1. TypeOK
  BY DEF Init, TypeOK, Mask, Revents
<1>2. OneOwner /\ KeysOwned /\ OneKey /\ Progress
  BY DEF Init, OneOwner, KeysOwned, OneKey, Progress, Agree
<1>3. Seen /\ Collected /\ SelectsOwner /\ ClosedReported
  BY DEF Init, Seen, Collected, SelectsOwner, ClosedReported, NoEntry
<1> QED
  BY <1>1, <1>2, <1>3 DEF IInv

-----------------------------------------------------------------------------
(* Every step keeps the invariant.                                          *)

Reports == Collected /\ SelectsOwner /\ ClosedReported

(* What holds of a collected pair stays true while owners stay the same,    *)
(* and each change of a key is noted.                                       *)
LEMMA CollectedStays ==
  ASSUME Reports,
         UNCHANGED <<selecting, collected, owner>>,
         left \subseteq left', changed \subseteq changed',
         \A f \in Fd : keyEvents'[f] = keyEvents[f] \/ f \in changed'
  PROVE  Reports'
<1>1. Collected'
  BY DEF Reports, Collected
<1>2. SelectsOwner'
  BY DEF Reports, SelectsOwner
<1>3. ClosedReported'
  <2> SUFFICES ASSUME collected # NoEntry, collected.obj \in left', owner[collected.fd] = NoObj,
                      collected.fd \notin changed'
               PROVE  collected.events = keyEvents'[collected.fd]
    BY DEF ClosedReported
  <2>1. collected.fd \in Fd /\ collected.obj # NoObj
    BY DEF Reports, Collected
  <2>2. collected.obj \in left
    BY <2>1 DEF Reports, SelectsOwner
  <2> QED
    BY <2>1, <2>2 DEF Reports, ClosedReported
<1> QED
  BY <1>1, <1>2, <1>3 DEF Reports

(* Objects come and go; keys and registrations stay.                        *)
LEMMA CreateStep ==
  ASSUME IInv, NEW o \in Obj, NEW f \in Fd, Create(o, f)
  PROVE  IInv'
<1>1. TypeOK'
  BY DEF IInv, TypeOK, Create, keyVars, changeVars, selectVars
<1>2. OneOwner' /\ KeysOwned'
  <2>1. o \notin Foreign => \A p \in made \ Foreign : fileno[p] # f
    BY OwnerType DEF IInv, TypeOK, Create
  <2>2. fileno' = [fileno EXCEPT ![o] = f] /\ made' = made \cup {o} /\ o \notin made
    BY DEF Create
  <2>3. UNCHANGED <<keyObj, left>>
    BY DEF Create, keyVars
  <2> QED
    BY <2>1, <2>2, <2>3 DEF IInv, TypeOK, OneOwner, KeysOwned
<1>3. OneKey' /\ Progress' /\ Seen'
  BY DEF IInv, OneKey, Progress, Agree, Seen, Create, keyVars, changeVars, selectVars
<1>4. Reports'
  BY CollectedStays DEF IInv, Reports, Create, keyVars, selectVars
<1> QED
  BY <1>1, <1>2, <1>3, <1>4 DEF IInv, Reports

LEMMA CloseStep ==
  ASSUME IInv, NEW o \in Obj, Close(o)
  PROVE  IInv'
<1>1. left \subseteq left'
  BY DEF Close
<1>2. TypeOK'
  BY DEF IInv, TypeOK, Close, keyVars, changeVars, selectVars
<1>3. OneOwner'
  BY DEF IInv, TypeOK, OneOwner, Close
<1>4. KeysOwned'
  <2>1. keyObj' = keyObj /\ made' = made /\ fileno' = [fileno EXCEPT ![o] = NoFd]
    BY DEF Close, keyVars
  <2>2. ASSUME NEW f \in Fd, keyObj[f] = o
        PROVE  o \in left'
    BY <2>2 DEF IInv, KeysOwned, Close
  <2> QED
    BY <1>1, <2>1, <2>2 DEF IInv, TypeOK, KeysOwned
<1>5. OneKey' /\ Progress' /\ Seen'
  BY <1>1 DEF IInv, OneKey, Progress, Agree, Seen, Close, keyVars, changeVars, selectVars
<1>6. Reports'
  BY <1>1, CollectedStays DEF IInv, Reports, Close, keyVars, selectVars
<1> QED
  BY <1>2, <1>3, <1>4, <1>5, <1>6 DEF IInv, Reports

(* A key is made for the number of an open object.                          *)
LEMMA RegisterKeyStep ==
  ASSUME IInv, NEW o \in Obj, NEW mask \in Mask, RegisterKey(o, mask)
  PROVE  IInv'
<1>1. /\ pc = "idle" /\ pc' = "register" /\ events' = mask
      /\ fd' = FileobjLookup(o) /\ fd' # NoFd /\ keyObj[fd'] = NoObj
      /\ keyObj' = [keyObj EXCEPT ![fd'] = o]
      /\ keyEvents' = [keyEvents EXCEPT ![fd'] = mask]
      /\ changed' = changed \cup {fd'}
      /\ o \in made
      /\ UNCHANGED <<made, fileno, registered, selecting, asked, found, owner, collected, left>>
  BY DEF RegisterKey, Enter, objVars, selectVars
<1>2. fd' \in Fd /\ fileno[o] = fd' /\ o \notin Foreign
  BY <1>1, LookupOwn DEF IInv
<1>3. TypeOK'
  BY <1>1, <1>2 DEF IInv, TypeOK
<1>4. OneOwner' /\ KeysOwned'
  BY <1>1, <1>2 DEF IInv, TypeOK, OneOwner, KeysOwned
<1>5. OneKey'
  <2>1. \A f \in Fd : keyObj[f] # o
    BY <1>1, <1>2 DEF IInv, KeysOwned
  <2> QED
    BY <1>1, <1>2, <2>1 DEF IInv, TypeOK, OneKey
<1>6. Progress'
  BY <1>1, <1>2 DEF IInv, TypeOK, Progress, Agree
<1>7. Seen'
  BY <1>1, <1>2 DEF IInv, TypeOK, Seen
<1>8. Reports'
  BY <1>1, <1>2, CollectedStays DEF IInv, TypeOK, Reports
<1> QED
  BY <1>3, <1>4, <1>5, <1>6, <1>7, <1>8 DEF IInv, Reports

LEMMA UnregisterKeyStep ==
  ASSUME IInv, NEW o \in Obj, UnregisterKey(o)
  PROVE  IInv'
<1>1. /\ pc = "idle" /\ pc' = "unregister" /\ events' = {}
      /\ fd' = FileobjLookup(o) /\ fd' # NoFd
      /\ keyObj' = [keyObj EXCEPT ![fd'] = NoObj]
      /\ keyEvents' = [keyEvents EXCEPT ![fd'] = {}]
      /\ changed' = changed \cup {fd'}
      /\ UNCHANGED <<made, fileno, registered, selecting, asked, found, owner, collected, left>>
  BY DEF UnregisterKey, Enter, objVars, selectVars
<1>2. fd' \in Fd
  BY <1>1, LookupOwn DEF IInv
<1>3. TypeOK'
  BY <1>1, <1>2 DEF IInv, TypeOK, Mask
<1>4. OneOwner' /\ KeysOwned' /\ OneKey'
  BY <1>1, <1>2 DEF IInv, TypeOK, OneOwner, KeysOwned, OneKey
<1>5. Progress'
  BY <1>1, <1>2 DEF IInv, TypeOK, Progress, Agree
<1>6. Seen'
  BY <1>1, <1>2 DEF IInv, TypeOK, Seen
<1>7. Reports'
  BY <1>1, <1>2, CollectedStays DEF IInv, TypeOK, Reports
<1> QED
  BY <1>3, <1>4, <1>5, <1>6, <1>7 DEF IInv, Reports

LEMMA ModifyKeyStep ==
  ASSUME IInv, NEW o \in Obj, NEW mask \in Mask, ModifyKey(o, mask)
  PROVE  IInv'
<1>1. /\ pc = "idle" /\ pc' = "modify" /\ events' = mask
      /\ fd' = FileobjLookup(o) /\ fd' # NoFd /\ keyObj[fd'] # NoObj
      /\ UNCHANGED <<made, fileno, keyObj, keyEvents, registered, changed, selecting, asked, found, owner, collected, left>>
  BY DEF ModifyKey, Enter, objVars, keyVars, selectVars
<1>2. fd' \in Fd
  BY <1>1, LookupOwn DEF IInv
<1>3. TypeOK'
  BY <1>1, <1>2 DEF IInv, TypeOK
<1>4. OneOwner' /\ KeysOwned' /\ OneKey' /\ Seen'
  BY <1>1 DEF IInv, OneOwner, KeysOwned, OneKey, Seen
<1>5. Progress'
  BY <1>1, <1>2 DEF IInv, TypeOK, Progress, Agree
<1>6. Reports'
  BY <1>1, CollectedStays DEF IInv, Reports
<1> QED
  BY <1>3, <1>4, <1>5, <1>6 DEF IInv, Reports

(* The second halves of the methods, in the poll object or the key map.     *)
LEMMA SecondHalfStep ==
  ASSUME IInv, RegisterPoll \/ UnregisterPoll \/ ModifyPoll \/ ReplaceKey
  PROVE  IInv'
<1>1. /\ UNCHANGED <<made, fileno, keyObj, selecting, asked, found, owner, collected, left>>
      /\ changed \subseteq changed'
  BY DEF RegisterPoll, UnregisterPoll, ModifyPoll, ReplaceKey, objVars, selectVars
<1>2. fd \in Fd /\ events \in Mask /\ changed \cup {fd} \subseteq Fd
  BY DEF IInv, TypeOK, Progress, RegisterPoll, UnregisterPoll, ModifyPoll, ReplaceKey
<1>3. \A f \in Fd : keyEvents'[f] = keyEvents[f] \/ f \in changed'
  BY <1>2 DEF IInv, TypeOK, RegisterPoll, UnregisterPoll, ModifyPoll, ReplaceKey
<1>4. TypeOK'
  <2>1. registered' \in [Fd -> Mask \cup {NoMask}] /\ keyEvents' \in [Fd -> Mask] /\ changed' \subseteq Fd
    BY <1>2 DEF IInv, TypeOK, RegisterPoll, UnregisterPoll, ModifyPoll, ReplaceKey
  <2>2. pc' \in {"idle", "replace"} /\ fd' \in Fd \cup {NoFd} /\ events' \in Mask
    BY <1>2 DEF RegisterPoll, UnregisterPoll, ModifyPoll, ReplaceKey, Leave, Mask
  <2> QED
    BY <1>1, <2>1, <2>2 DEF IInv, TypeOK
<1>5. OneOwner' /\ KeysOwned' /\ OneKey' /\ Seen'
  BY <1>1 DEF IInv, OneOwner, KeysOwned, OneKey, Seen
<1>6. Progress'
  <2>1. CASE RegisterPoll
    BY <1>2, <2>1 DEF IInv, TypeOK, Progress, Agree, RegisterPoll, Leave
  <2>2. CASE UnregisterPoll
    BY <1>2, <2>2 DEF IInv, TypeOK, Progress, Agree, UnregisterPoll, Leave
  <2>3. CASE ModifyPoll
    BY <1>2, <2>3 DEF IInv, TypeOK, Progress, Agree, ModifyPoll
  <2>4. CASE ReplaceKey
    BY <1>2, <2>4 DEF IInv, TypeOK, Progress, Agree, ReplaceKey, Leave
  <2> QED
    BY <2>1, <2>2, <2>3, <2>4
<1>7. Reports'
  BY <1>1, <1>3, CollectedStays DEF IInv, Reports
<1> QED
  BY <1>4, <1>5, <1>6, <1>7 DEF IInv, Reports

(* select() changes nothing but its own state.                              *)
LEMMA SelectEnds ==
  ASSUME IInv, SelectBegin \/ SelectReturn
  PROVE  IInv'
<1>1. /\ UNCHANGED <<made, fileno, keyObj, keyEvents, registered, pc, fd, events, found, left>>
      /\ selecting' \in {"no", "polling"} /\ collected' = NoEntry
  BY DEF SelectBegin, SelectReturn, IInv, Collected, objVars, keyVars, changeVars
<1>2. TypeOK'
  <2>1. /\ asked' \in [Fd -> Mask \cup {NoMask}] /\ owner' \in [Fd -> Obj \cup {NoObj}]
        /\ changed' \subseteq Fd
    BY DEF IInv, TypeOK, Progress, SelectBegin, SelectReturn, keyVars
  <2> QED
    BY <1>1, <2>1 DEF IInv, TypeOK
<1>3. OneOwner' /\ KeysOwned' /\ OneKey' /\ Progress' /\ Seen'
  BY <1>1 DEF IInv, OneOwner, KeysOwned, OneKey, Progress, Agree, Seen
<1>4. Collected' /\ SelectsOwner' /\ ClosedReported'
  BY <1>1 DEF IInv, TypeOK, Collected, SelectsOwner, ClosedReported, NoEntry
<1> QED
  BY <1>2, <1>3, <1>4 DEF IInv

(* What is polled is the object that has the number, open and with the key. *)
LEMMA PolledStep ==
  ASSUME IInv, Polled
  PROVE  IInv'
<1>1. /\ UNCHANGED <<made, fileno, keyObj, keyEvents, registered, changed, pc, fd, events, collected, left>>
      /\ selecting = "polling" /\ selecting' = "collecting"
      /\ owner' = [f \in Fd |-> OwnerOf(f)]
      /\ found' \in [Fd -> Revents] /\ \A f \in Fd : Polls(f, found'[f])
      /\ asked' = [f \in Fd |-> NoMask]
  BY DEF Polled, objVars, keyVars, changeVars
<1>2. collected = NoEntry
  BY <1>1 DEF IInv, Collected
<1>3. TypeOK'
  BY <1>1, OwnerType DEF IInv, TypeOK
<1>4. OneOwner' /\ KeysOwned' /\ OneKey' /\ Progress'
  BY <1>1 DEF IInv, OneOwner, KeysOwned, OneKey, Progress, Agree
<1>5. Seen'
  <2>1. ASSUME NEW f \in Fd, keyObj[f] # NoObj
        PROVE  OwnerOf(f) = keyObj[f] \/ keyObj[f] \in left
    BY <2>1, OwnerFound DEF IInv, TypeOK, KeysOwned
  <2>2. \A f \in Fd : found'[f] # {} /\ OwnerOf(f) = NoObj => found'[f] = {"invalid"}
    BY <1>1 DEF Polls
  <2> QED
    BY <1>1, <2>1, <2>2 DEF Seen
<1>6. Collected' /\ SelectsOwner' /\ ClosedReported'
  BY <1>1, <1>2 DEF IInv, TypeOK, Collected, SelectsOwner, ClosedReported, NoEntry
<1> QED
  BY <1>3, <1>4, <1>5, <1>6 DEF IInv

LEMMA CollectStep ==
  ASSUME IInv, NEW f \in Fd, Collect(f)
  PROVE  IInv'
<1>1. /\ UNCHANGED <<made, fileno, keyObj, keyEvents, registered, changed, pc, fd, events, selecting, asked, owner, left>>
      /\ selecting = "collecting" /\ found[f] # {}
      /\ found' = [found EXCEPT ![f] = {}]
      /\ collected' = IF keyObj[f] = NoObj THEN NoEntry
                      ELSE [obj |-> keyObj[f], fd |-> f, events |-> EventsOf(found[f]) \cap keyEvents[f]]
  BY DEF Collect, objVars, keyVars, changeVars
<1>2. keyObj[f] \in Obj \cup {NoObj} /\ keyEvents[f] \subseteq Event
  BY MaskIsPowerset DEF IInv, TypeOK
<1>3. TypeOK'
  <2>1. found' \in [Fd -> Revents]
    BY <1>1 DEF IInv, TypeOK, Revents, Mask
  <2>2. collected' \in Entry \cup {NoEntry}
    BY <1>1, <1>2, MaskIsPowerset DEF Entry
  <2> QED
    BY <1>1, <2>1, <2>2 DEF IInv, TypeOK
<1>4. OneOwner' /\ KeysOwned' /\ OneKey' /\ Progress'
  BY <1>1 DEF IInv, OneOwner, KeysOwned, OneKey, Progress, Agree
<1>5. Seen'
  BY <1>1 DEF IInv, TypeOK, Seen
<1>6. Collected' /\ SelectsOwner' /\ ClosedReported'
  <2>1. CASE keyObj[f] = NoObj
    BY <1>1, <2>1 DEF IInv, TypeOK, Collected, SelectsOwner, ClosedReported, NoEntry
  <2>2. CASE keyObj[f] # NoObj
    <3>1. /\ collected'.obj = keyObj[f] /\ collected'.fd = f
          /\ collected'.events = EventsOf(found[f]) \cap keyEvents[f]
      BY <1>1, <2>2
    <3>2. SelectsOwner'
      BY <1>1, <2>2, <3>1 DEF IInv, Seen, SelectsOwner
    <3>3. ClosedReported'
      <4>1. owner[f] = NoObj => EventsOf(found[f]) = Event
        BY <1>1, InvalidIsAll DEF IInv, Seen
      <4> QED
        BY <1>1, <1>2, <3>1, <4>1 DEF ClosedReported
    <3>4. Collected'
      BY <1>1, <1>2, <2>2, <3>1 DEF Collected
    <3> QED
      BY <3>2, <3>3, <3>4
  <2> QED
    BY <2>1, <2>2
<1> QED
  BY <1>3, <1>4, <1>5, <1>6 DEF IInv

(* Every step of the selector, its program and its sockets.                 *)
LEMMA InvStep == IInv /\ [Next]_vars => IInv'
<1> SUFFICES ASSUME IInv, [Next]_vars PROVE IInv'
  OBVIOUS
<1>1. ASSUME NEW o \in Obj, Close(o) \/ UnregisterKey(o) \/ \E f \in Fd : Create(o, f)
      PROVE  IInv'
  BY <1>1, CloseStep, UnregisterKeyStep, CreateStep
<1>2. ASSUME NEW o \in Obj, NEW mask \in Mask, RegisterKey(o, mask) \/ ModifyKey(o, mask)
      PROVE  IInv'
  BY <1>2, RegisterKeyStep, ModifyKeyStep
<1>3. ASSUME RegisterPoll \/ UnregisterPoll \/ ModifyPoll \/ ReplaceKey
      PROVE  IInv'
  BY <1>3, SecondHalfStep
<1>4. ASSUME SelectBegin \/ Polled \/ SelectReturn \/ \E f \in Fd : Collect(f)
      PROVE  IInv'
  BY <1>4, SelectEnds, PolledStep, CollectStep
<1>5. CASE UNCHANGED vars
  BY <1>5 DEF vars, IInv, TypeOK, OneOwner, KeysOwned, OneKey, Progress, Agree, Seen, Collected, SelectsOwner, ClosedReported
<1> QED
  BY <1>1, <1>2, <1>3, <1>4, <1>5 DEF Next

-----------------------------------------------------------------------------
(* The theorems.                                                            *)

(* The inductive invariant.                                                 *)
THEOREM Invariant == Spec => []IInv
BY InvInit, InvStep, PTL DEF Spec

(***************************************************************************)
(* Between two methods the key map and the poll object of a selector agree,*)
(* whatever is closed and reused.                                          *)
(***************************************************************************)
THEOREM MapsInStep == Spec => []MapsAgree
<1>1. IInv => MapsAgree
  BY DEF IInv, Progress, Agree, MapsAgree
<1> QED
  BY <1>1, Invariant, PTL

(* Every registered object, closed or not, can be unregistered.             *)
THEOREM ClosedCanLeave == Spec => []RegisteredFound
<1>1. IInv => RegisteredFound
  BY LookupFinds DEF IInv, RegisteredFound
<1> QED
  BY <1>1, Invariant, PTL

(* What select() returns it has seen at the socket of the key's object,     *)
(* unless that was closed while registered or its registration has changed. *)
THEOREM SelectIsHonest == Spec => []SelectsOwner
<1>1. IInv => SelectsOwner
  BY DEF IInv
<1> QED
  BY <1>1, Invariant, PTL

(* An object closed while registered is reported with all its events.       *)
THEOREM ClosedIsReported == Spec => []ClosedReported
<1>1. IInv => ClosedReported
  BY DEF IInv
<1> QED
  BY <1>1, Invariant, PTL

(* Every reachable state is well typed.                                     *)
THEOREM TypeCorrect == Spec => []TypeOK
<1>1. IInv => TypeOK
  BY DEF IInv
<1> QED
  BY <1>1, Invariant, PTL

=============================================================================
