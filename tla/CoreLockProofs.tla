-------------------------- MODULE CoreLockProofs ---------------------------
(***************************************************************************)
(* Proofs about CoreLock, for any sets of Python threads and of lwIP       *)
(* instances and any wiring Reach of them, cyclic wirings included; only   *)
(* the absence of an embrace asks for one without cycles.                  *)
(*                                                                         *)
(* What a thread is in the middle of has a shape that depends on nothing   *)
(* but its own steps (Shape); who owns a core lock can be read off these   *)
(* shapes (CoreHeld).                                                      *)
(***************************************************************************)
EXTENDS CoreLock, SequenceTheorems, TLAPS

PcValue == {"python", "acquire", "native", "blocked", "event", "idle"}

(* The innermost frame is the one that goes with what the thread does.      *)
TopOK(s, p) ==
  /\ p \in {"event", "native", "acquire", "blocked"} => s # <<>>
  /\ p = "event" => s[Len(s)].how = "init"
  /\ p = "native" => s[Len(s)].how \in {"netif", "call"}
  /\ p = "acquire" => s[Len(s)].how \in {"with", "call"}
  /\ p = "blocked" => s[Len(s)].how = "call"

(* Each frame was entered from the one below it.                            *)
Chained(s) ==
  \A k \in 2..Len(s) :
    \/ s[k].how = "netif" /\ s[k - 1].how = "with" /\ s[k].inst = s[k - 1].inst
    \/ s[k].how \in {"with", "call"} /\ <<s[k - 1].inst, s[k].inst>> \in Reach

(* A thread takes the core lock of an instance once; a second time it only  *)
(* waits for it, and for ever.                                              *)
TakenOnce(s, p) ==
  \A j, k \in 1..Len(s) :
    j < k /\ Locks(s[j]) /\ Locks(s[k]) /\ s[j].inst = s[k].inst => k = Len(s) /\ p = "acquire"

(* lwIP's own threads begin with a call, and never with LwIP().             *)
Tcpip(s, p) ==
  /\ p = "idle" <=> s = <<>>
  /\ s # <<>> => s[1].how = "call"
  /\ \A k \in 1..Len(s) : s[k].how # "init"

Shape(t, s, p) ==
  /\ s \in Seq(Frame) /\ p \in PcValue
  /\ TopOK(s, p) /\ Chained(s) /\ TakenOnce(s, p)
  /\ t \in Instance => Tcpip(s, p)

(* The core locks that a thread in this place owns.                         *)
Owns(s, p, i) ==
  \E k \in 1..Len(s) :
    /\ Locks(s[k]) /\ s[k].inst = i
    /\ k < Len(s) \/ p \in {"python", "native"}

ShapeOK ==
  /\ stack \in [All -> Seq(Frame)]
  /\ pc \in [All -> PcValue]
  /\ \A t \in All : Shape(t, stack[t], pc[t])

LockTypeOK ==
  /\ gil \in All \cup {Nobody}
  /\ gil # Nobody => pc[gil] = "python"
  /\ core \in [Instance -> All \cup {Nobody}]
  /\ started \in [Instance -> {"no", "starting", "done"}]

OwnersOK == \A t \in All, i \in Instance : core[i] = t <=> Owns(stack[t], pc[t], i)

IInv == ShapeOK /\ LockTypeOK /\ OwnersOK

-----------------------------------------------------------------------------
(* Shapes.                                                                  *)

(* A frame is entered from Python code.                                     *)
LEMMA PushShape ==
  ASSUME NEW t \in All, NEW s, NEW p, Shape(t, s, p), p \in {"python", "idle"},
         NEW f \in Frame, NEW q \in PcValue, TopOK(<<f>>, q),
         s # <<>> => \/ f.how = "netif" /\ s[Len(s)].how = "with" /\ f.inst = s[Len(s)].inst
                     \/ f.how \in {"with", "call"} /\ <<s[Len(s)].inst, f.inst>> \in Reach,
         s # <<>> /\ Locks(f) => q = "acquire",
         t \in Instance => f.how # "init" /\ (s = <<>> => f.how = "call") /\ q # "idle"
  PROVE  Shape(t, Append(s, f), q)
<1> DEFINE n == Len(s)
           r == Append(s, f)
<1>1. /\ s \in Seq(Frame) /\ n \in Nat /\ r \in Seq(Frame) /\ r # <<>>
      /\ Len(r) = n + 1 /\ r[n + 1] = f /\ \A k \in 1..n : r[k] = s[k] /\ s[k] \in Frame
  BY AppendProperties, LenProperties, ElementOfSeq DEF Shape
<1>2. s # <<>> <=> n > 0
  BY <1>1, EmptySeq
<1> HIDE DEF r
<1>3. TopOK(r, q)
  BY <1>1 DEF TopOK
<1>4. Chained(r)
  <2> SUFFICES ASSUME NEW k \in 2..(n + 1)
               PROVE  \/ r[k].how = "netif" /\ r[k - 1].how = "with" /\ r[k].inst = r[k - 1].inst
                      \/ r[k].how \in {"with", "call"} /\ <<r[k - 1].inst, r[k].inst>> \in Reach
    BY <1>1 DEF Chained
  <2>1. CASE k = n + 1
    <3>1. n > 0 /\ r[k] = f /\ r[k - 1] = s[n]
      BY <1>1, <2>1
    <3> QED
      BY <1>2, <3>1
  <2>2. CASE k # n + 1
    <3>1. k \in 2..n /\ r[k] = s[k] /\ r[k - 1] = s[k - 1]
      <4>1. n \in Nat /\ \A m \in 1..n : r[m] = s[m]
        BY <1>1
      <4> HIDE DEF n
      <4>2. k \in 2..n /\ k \in 1..n /\ k - 1 \in 1..n
        BY <2>2, <4>1
      <4> QED
        BY <4>1, <4>2
    <3>2. \/ s[k].how = "netif" /\ s[k - 1].how = "with" /\ s[k].inst = s[k - 1].inst
          \/ s[k].how \in {"with", "call"} /\ <<s[k - 1].inst, s[k].inst>> \in Reach
      BY <3>1 DEF Shape, Chained
    <3> QED
      BY <3>1, <3>2
  <2> QED
    BY <2>1, <2>2
<1>5. TakenOnce(r, q)
  <2> SUFFICES ASSUME NEW j \in 1..(n + 1), NEW k \in 1..(n + 1),
                      j < k, Locks(r[j]), Locks(r[k]), r[j].inst = r[k].inst
               PROVE  k = n + 1 /\ q = "acquire"
    BY <1>1 DEF TakenOnce
  <2>1. j \in 1..n /\ r[j] = s[j] /\ n > 0
    BY <1>1
  <2>2. CASE k = n + 1
    BY <1>1, <1>2, <2>1, <2>2
  <2>3. CASE k # n + 1
    <3>1. k \in 1..n /\ r[k] = s[k]
      BY <1>1, <2>3
    <3> QED
      BY <2>1, <3>1 DEF Shape, TakenOnce
  <2> QED
    BY <2>2, <2>3
<1>6. ASSUME t \in Instance PROVE Tcpip(r, q)
  <2>1. \A k \in 1..n : s[k].how # "init"
    BY <1>6 DEF Shape, Tcpip
  <2>2. \A k \in 1..(n + 1) : r[k].how # "init"
    BY <1>1, <1>6, <2>1
  <2>3. r[1].how = "call"
    <3>1. CASE n = 0
      BY <1>1, <1>2, <1>6, <3>1
    <3>2. CASE n # 0
      <4>1. s # <<>> /\ 1 \in 1..n
        BY <1>1, <1>2, <3>2
      <4> QED
        BY <1>1, <1>6, <4>1 DEF Shape, Tcpip
    <3> QED
      BY <3>1, <3>2
  <2> QED
    BY <1>1, <1>6, <2>2, <2>3 DEF Tcpip
<1> QED
  BY <1>1, <1>3, <1>4, <1>5, <1>6 DEF Shape, r

(* What is left of the stack when the innermost frame is.                   *)
LEMMA Lower ==
  ASSUME NEW s \in Seq(Frame), s # <<>>
  PROVE  LET r == SubSeq(s, 1, Len(s) - 1) IN
         /\ r \in Seq(Frame) /\ Len(r) = Len(s) - 1 /\ Len(s) \in Nat \ {0}
         /\ \A k \in 1..(Len(s) - 1) : r[k] = s[k]
         /\ r = <<>> <=> Len(s) = 1
<1> DEFINE n == Len(s) - 1
           r == SubSeq(s, 1, n)
<1>1. Len(s) \in Nat \ {0} /\ n \in Nat
  BY EmptySeq, LenProperties
<1>2. \A k \in 1..n : s[k] \in Frame
  BY <1>1, ElementOfSeq
<1>3. /\ r \in Seq(Frame)
      /\ Len(r) = IF 1 <= n THEN n - 1 + 1 ELSE 0
      /\ \A k \in 1..(n - 1 + 1) : r[k] = s[1 + k - 1]
  <2>1. 1 \in Int /\ n \in Int
    BY <1>1
  <2> HIDE DEF n
  <2> QED
    BY <1>2, <2>1, SubSeqProperties
<1>4. Len(r) = n /\ \A k \in 1..n : r[k] = s[k]
  <2> HIDE DEF n, r
  <2>1. n - 1 + 1 = n /\ \A k \in 1..n : 1 + k - 1 = k
    BY <1>1
  <2>2. Len(r) = n
    BY <1>1, <1>3
  <2> QED
    BY <1>3, <2>1, <2>2
<1>5. r = <<>> <=> Len(r) = 0
  BY <1>3, EmptySeq
<1>6. n = 0 <=> Len(s) = 1
  BY <1>1
<1> QED
  BY <1>1, <1>3, <1>4, <1>5, <1>6

(* The innermost frame is left for Python code, or for lwIP's idle loop.    *)
LEMMA PopShape ==
  ASSUME NEW t \in All, NEW s, NEW p, Shape(t, s, p), s # <<>>, p # "acquire",
         NEW q \in {"python", "idle"}, t \in Instance => (q = "idle" <=> Len(s) = 1)
  PROVE  Shape(t, SubSeq(s, 1, Len(s) - 1), q)
<1> DEFINE r == SubSeq(s, 1, Len(s) - 1)
<1>1. /\ s \in Seq(Frame) /\ r \in Seq(Frame) /\ Len(r) = Len(s) - 1 /\ Len(s) \in Nat \ {0}
      /\ \A k \in 1..(Len(s) - 1) : r[k] = s[k]
      /\ r = <<>> <=> Len(s) = 1
  BY Lower DEF Shape
<1> HIDE DEF r
<1>2. TopOK(r, q)
  BY DEF TopOK
<1>3. Chained(r)
  <2> SUFFICES ASSUME NEW k \in 2..(Len(s) - 1)
               PROVE  \/ r[k].how = "netif" /\ r[k - 1].how = "with" /\ r[k].inst = r[k - 1].inst
                      \/ r[k].how \in {"with", "call"} /\ <<r[k - 1].inst, r[k].inst>> \in Reach
    BY <1>1 DEF Chained
  <2>1. k \in 2..Len(s) /\ r[k] = s[k] /\ r[k - 1] = s[k - 1]
    BY <1>1
  <2> QED
    BY <2>1 DEF Shape, Chained
<1>4. TakenOnce(r, q)
  <2> SUFFICES ASSUME NEW j \in 1..(Len(s) - 1), NEW k \in 1..(Len(s) - 1),
                      j < k, Locks(r[j]), Locks(r[k]), r[j].inst = r[k].inst
               PROVE  FALSE
    BY <1>1 DEF TakenOnce
  <2>1. j \in 1..Len(s) /\ k \in 1..Len(s) /\ r[j] = s[j] /\ r[k] = s[k]
    BY <1>1
  <2> QED
    BY <2>1 DEF Shape, TakenOnce
<1>5. ASSUME t \in Instance PROVE Tcpip(r, q)
  <2>1. \A k \in 1..(Len(s) - 1) : k \in 1..Len(s) /\ r[k] = s[k]
    BY <1>1
  <2>2. r # <<>> => r[1] = s[1]
    BY <1>1, <2>1
  <2> QED
    BY <1>1, <1>5, <2>1, <2>2 DEF Shape, Tcpip
<1> QED
  BY <1>1, <1>2, <1>3, <1>4, <1>5 DEF Shape, r, PcValue

(* The thread goes on with the same frames.                                 *)
LEMMA MoveShape ==
  ASSUME NEW t \in All, NEW s, NEW p, Shape(t, s, p), s # <<>>,
         NEW q \in PcValue \ {"idle"}, TopOK(s, q),
         p = "acquire" => TakenOnce(s, q)
  PROVE  Shape(t, s, q)
<1>1. TakenOnce(s, q)
  BY DEF Shape, TakenOnce
<1> QED
  BY <1>1 DEF Shape, Tcpip

-----------------------------------------------------------------------------
(* Owners.                                                                  *)

(* A frame entered from Python code adds its own core lock at most.         *)
LEMMA OwnsPush ==
  ASSUME NEW s \in Seq(Frame), NEW p, s # <<>> => p = "python",
         NEW f \in Frame, NEW q, NEW i
  PROVE  Owns(Append(s, f), q, i) <=>
           Owns(s, p, i) \/ (Locks(f) /\ f.inst = i /\ q \in {"python", "native"})
<1> DEFINE n == Len(s)
           r == Append(s, f)
<1>1. /\ n \in Nat /\ Len(r) = n + 1 /\ r[n + 1] = f /\ \A k \in 1..n : r[k] = s[k]
      /\ s # <<>> <=> n > 0
  BY AppendProperties, LenProperties, EmptySeq
<1> HIDE DEF r
<1>2. Owns(s, p, i) <=> \E k \in 1..n : Locks(s[k]) /\ s[k].inst = i
  BY <1>1 DEF Owns
<1>3. Owns(r, q, i) <=> \/ \E k \in 1..n : Locks(r[k]) /\ r[k].inst = i
                        \/ Locks(r[n + 1]) /\ r[n + 1].inst = i /\ q \in {"python", "native"}
  <2>1. n + 1 \in 1..Len(r) /\ \A k \in 1..n : k \in 1..Len(r) /\ k < Len(r)
    BY <1>1
  <2>2. \A k \in 1..Len(r) : k \in 1..n \/ (k = n + 1 /\ ~(k < Len(r)))
    BY <1>1
  <2> QED
    BY <2>1, <2>2 DEF Owns
<1> QED
  BY <1>1, <1>2, <1>3 DEF r

(* The last frame gives back its own core lock, and no frame below has it.  *)
LEMMA OwnsPop ==
  ASSUME NEW t \in All, NEW s, NEW p, Shape(t, s, p), s # <<>>, p # "acquire",
         p \in {"python", "native"} \/ ~Locks(s[Len(s)]),
         NEW q, Len(s) # 1 => q = "python", NEW i
  PROVE  Owns(SubSeq(s, 1, Len(s) - 1), q, i) <=>
           Owns(s, p, i) /\ ~(Locks(s[Len(s)]) /\ s[Len(s)].inst = i)
<1> DEFINE n == Len(s)
           r == SubSeq(s, 1, Len(s) - 1)
<1>1. /\ n \in Nat \ {0} /\ Len(r) = n - 1
      /\ \A k \in 1..(n - 1) : r[k] = s[k]
  BY Lower DEF Shape
<1> HIDE DEF n, r
<1>2. Owns(r, q, i) <=> \E k \in 1..(n - 1) : Locks(s[k]) /\ s[k].inst = i
  <2>1. \A k \in 1..(n - 1) : q = "python"
    BY <1>1 DEF n
  <2> QED
    BY <1>1, <2>1 DEF Owns
<1>3. Owns(s, p, i) <=> \/ \E k \in 1..(n - 1) : Locks(s[k]) /\ s[k].inst = i
                        \/ Locks(s[n]) /\ s[n].inst = i
  <2>1. n \in 1..n /\ \A k \in 1..(n - 1) : k \in 1..n /\ k < n
    BY <1>1
  <2>2. \A k \in 1..n : k \in 1..(n - 1) \/ k = n
    BY <1>1
  <2> QED
    BY <2>1, <2>2 DEF Owns, n
<1>4. ASSUME NEW k \in 1..(n - 1), Locks(s[k]), s[k].inst = i, Locks(s[n]), s[n].inst = i
      PROVE  FALSE
  <2>1. k \in 1..n /\ n \in 1..n /\ k < n
    BY <1>1
  <2> QED
    BY <1>4, <2>1 DEF Shape, TakenOnce, n
<1> QED
  BY <1>2, <1>3, <1>4 DEF n, r

(* On with the same frames: the lock of the innermost one is taken or left. *)
LEMMA OwnsMove ==
  ASSUME NEW t \in All, NEW s, NEW p, Shape(t, s, p), s # <<>>, NEW q, NEW i
  PROVE  /\ p \in {"python", "native"} <=> q \in {"python", "native"}
              => (Owns(s, q, i) <=> Owns(s, p, i))
         /\ p = "acquire" /\ q \in {"python", "native"}
              => (Owns(s, q, i) <=> Owns(s, p, i) \/ s[Len(s)].inst = i)
         /\ p = "native" /\ s[Len(s)].how = "call" /\ q = "blocked"
              => (Owns(s, q, i) <=> Owns(s, p, i) /\ s[Len(s)].inst # i)
<1> DEFINE n == Len(s)
           below == \E k \in 1..(n - 1) : Locks(s[k]) /\ s[k].inst = i
           last == Locks(s[n]) /\ s[n].inst = i
<1>1. s \in Seq(Frame) /\ n \in Nat \ {0}
  BY Lower DEF Shape
<1> HIDE DEF n
<1>2. ASSUME NEW a
      PROVE  Owns(s, a, i) <=> below \/ (last /\ a \in {"python", "native"})
  <2>1. n \in 1..n /\ ~(n < n) /\ \A k \in 1..(n - 1) : k \in 1..n /\ k < n
    BY <1>1
  <2>2. \A k \in 1..n : k \in 1..(n - 1) \/ k = n
    BY <1>1
  <2> QED
    BY <2>1, <2>2 DEF Owns, n
<1>3. p = "acquire" => Locks(s[n])
  BY DEF Shape, TopOK, Locks, n
<1>4. s[n].how = "call" => Locks(s[n])
  BY DEF Locks
<1>5. p = "native" /\ last => ~below
  <2> SUFFICES ASSUME p = "native", last, NEW k \in 1..(n - 1), Locks(s[k]), s[k].inst = i
               PROVE  FALSE
    OBVIOUS
  <2>1. k \in 1..n /\ n \in 1..n /\ k < n
    BY <1>1
  <2> QED
    BY <2>1 DEF Shape, TakenOnce, n
<1> HIDE DEF below
<1>6. p = "acquire" => (last <=> s[n].inst = i)
  BY <1>3
<1>7. s[n].how = "call" => (last <=> s[n].inst = i)
  BY <1>4
<1> HIDE DEF last
<1> QED
  BY <1>2, <1>5, <1>6, <1>7 DEF n

(* One thread has moved, and the table of owners with it.                   *)
LEMMA ShapeStep ==
  ASSUME IInv, NEW t \in All, NEW s, NEW q, Shape(t, s, q),
         stack' = [stack EXCEPT ![t] = s], pc' = [pc EXCEPT ![t] = q]
  PROVE  ShapeOK'
<1>1. s \in Seq(Frame) /\ q \in PcValue
  BY DEF Shape
<1>2. \A u \in All : Shape(u, stack'[u], pc'[u])
  BY <1>1 DEF IInv, ShapeOK
<1> QED
  BY <1>1, <1>2 DEF IInv, ShapeOK

(* What the other threads own stays theirs.                                 *)
LEMMA OwnersStep ==
  ASSUME IInv, NEW t \in All, NEW s \in Seq(Frame), NEW q \in PcValue,
         stack' = [stack EXCEPT ![t] = s], pc' = [pc EXCEPT ![t] = q],
         \/ core' = core /\ \A j \in Instance : Owns(s, q, j) <=> Owns(stack[t], pc[t], j)
         \/ \E i \in Instance :
              /\ core[i] = Nobody /\ core' = [core EXCEPT ![i] = t]
              /\ \A j \in Instance : Owns(s, q, j) <=> Owns(stack[t], pc[t], j) \/ i = j
         \/ \E i \in Instance :
              /\ core[i] = t /\ core' = [core EXCEPT ![i] = Nobody]
              /\ \A j \in Instance : Owns(s, q, j) <=> Owns(stack[t], pc[t], j) /\ i # j
  PROVE  OwnersOK' /\ core' \in [Instance -> All \cup {Nobody}]
<1>1. /\ core \in [Instance -> All \cup {Nobody}] /\ Nobody \notin All
      /\ \A u \in All, j \in Instance : core[j] = u <=> Owns(stack[u], pc[u], j)
  BY CoreLockAssumption DEF IInv, LockTypeOK, OwnersOK, All
<1>2. /\ stack'[t] = s /\ pc'[t] = q
      /\ \A u \in All : u # t => stack'[u] = stack[u] /\ pc'[u] = pc[u]
  BY DEF IInv, ShapeOK
<1>3. core' \in [Instance -> All \cup {Nobody}]
  BY <1>1
<1>4. ASSUME NEW u \in All, NEW j \in Instance
      PROVE  core'[j] = u <=> Owns(stack'[u], pc'[u], j)
  <2>1. CASE u = t
    BY <1>1, <1>2, <2>1
  <2>2. CASE u # t
    <3>1. core'[j] = u <=> core[j] = u
      BY <1>1, <2>2
    <3> QED
      BY <1>1, <1>2, <2>2, <3>1
  <2> QED
    BY <2>1, <2>2
<1> QED
  BY <1>3, <1>4 DEF OwnersOK

(* A step of a thread: its new place, what it does to the locks.            *)
LEMMA ThreadStep ==
  ASSUME IInv, NEW t \in All, NEW s, NEW q, Shape(t, s, q),
         stack' = [stack EXCEPT ![t] = s], pc' = [pc EXCEPT ![t] = q],
         gil' = Nobody \/ (gil' = gil /\ (pc[t] = "python" => q = "python")),
         started' \in [Instance -> {"no", "starting", "done"}],
         \/ core' = core /\ \A j \in Instance : Owns(s, q, j) <=> Owns(stack[t], pc[t], j)
         \/ \E i \in Instance :
              /\ core[i] = Nobody /\ core' = [core EXCEPT ![i] = t]
              /\ \A j \in Instance : Owns(s, q, j) <=> Owns(stack[t], pc[t], j) \/ i = j
         \/ \E i \in Instance :
              /\ core[i] = t /\ core' = [core EXCEPT ![i] = Nobody]
              /\ \A j \in Instance : Owns(s, q, j) <=> Owns(stack[t], pc[t], j) /\ i # j
  PROVE  IInv'
<1>1. ShapeOK'
  BY ShapeStep
<1>2. s \in Seq(Frame) /\ q \in PcValue
  BY DEF Shape
<1>3. OwnersOK' /\ core' \in [Instance -> All \cup {Nobody}]
  BY <1>2, OwnersStep
<1>4. gil' \in All \cup {Nobody} /\ (gil' # Nobody => pc'[gil'] = "python")
  BY DEF IInv, LockTypeOK, ShapeOK
<1> QED
  BY <1>1, <1>3, <1>4 DEF IInv, LockTypeOK

(* Where a thread is before it steps.                                       *)
LEMMA Place ==
  ASSUME IInv, NEW t \in All
  PROVE  /\ Shape(t, stack[t], pc[t]) /\ TopOK(stack[t], pc[t])
         /\ stack \in [All -> Seq(Frame)] /\ stack[t] \in Seq(Frame)
         /\ started \in [Instance -> {"no", "starting", "done"}]
         /\ stack[t] # <<>> => /\ Top(t) = stack[t][Len(stack[t])]
                               /\ Top(t) \in Frame /\ Top(t).inst \in Instance
<1>1. Shape(t, stack[t], pc[t]) /\ stack \in [All -> Seq(Frame)]
  BY DEF IInv, ShapeOK
<1>2. stack[t] # <<>> => stack[t][Len(stack[t])] \in Frame
  BY <1>1, EmptySeq, LenProperties, ElementOfSeq
<1> QED
  BY <1>1, <1>2 DEF IInv, LockTypeOK, Shape, Top, Frame

-----------------------------------------------------------------------------
(* The actions.                                                             *)

(* The interpreter switches threads.                                        *)
LEMMA GilStep ==
  ASSUME IInv, NEW t \in All, TakeGil(t) \/ YieldGil(t)
  PROVE  IInv'
<1>1. UNCHANGED <<core, pc, stack, started>> /\ pc[t] = "python" /\ gil' \in {t, Nobody}
  BY DEF TakeGil, YieldGil, Runs
<1>2. ShapeOK'
  BY <1>1 DEF IInv, ShapeOK
<1>3. OwnersOK'
  BY <1>1 DEF IInv, OwnersOK
<1>4. LockTypeOK'
  BY <1>1 DEF IInv, LockTypeOK
<1> QED
  BY <1>2, <1>3, <1>4 DEF IInv

(* A frame is entered that takes no core lock yet.                          *)
LEMMA EnterStep ==
  ASSUME IInv, NEW t \in All, NEW i \in Instance,
         \/ t \in Thread /\ TcpipInit(t, i)
         \/ Enter(t, i) \/ CallNetif(t) \/ Call(t, i)
         \/ t \in Instance /\ TcpipWork(t)
  PROVE  IInv'
<1>1. PICK f \in Frame, q \in {"event", "acquire", "native"} :
        /\ stack' = [stack EXCEPT ![t] = Append(stack[t], f)] /\ pc' = [pc EXCEPT ![t] = q]
        /\ \/ pc[t] = "python" /\ gil' = Nobody
           \/ t \in Instance /\ pc[t] = "idle" /\ gil' = gil
        /\ core' = core /\ started' \in [Instance -> {"no", "starting", "done"}]
        /\ TopOK(<<f>>, q) /\ (Locks(f) => q = "acquire")
        /\ stack[t] # <<>> =>
             LET top == stack[t][Len(stack[t])] IN
             \/ f.how = "netif" /\ top.how = "with" /\ f.inst = top.inst
             \/ f.how \in {"with", "call"} /\ <<top.inst, f.inst>> \in Reach
        /\ t \in Instance => f.how # "init" /\ (stack[t] = <<>> => f.how = "call")
  <2> USE Place DEF Runs, Push, GoTo, Frame, How, TopOK, Locks
  <2>1. CASE t \in Thread /\ TcpipInit(t, i)
    <3> DEFINE f == [how |-> "init", inst |-> i]
    <3>1. t \notin Instance /\ f \in Frame /\ f.how = "init"
      BY <2>1, CoreLockAssumption
    <3> QED
      BY <2>1, <3>1 DEF TcpipInit
  <2>2. CASE Enter(t, i)
    <3> DEFINE f == [how |-> "with", inst |-> i]
    <3>1. f \in Frame /\ f.how = "with" /\ f.inst = i
      OBVIOUS
    <3>2. stack[t] # <<>> => <<stack[t][Len(stack[t])].inst, f.inst>> \in Reach
      <4>1. stack[t] # <<>> => <<Top(t).inst, i>> \in Reach
        BY <2>2 DEF Enter, MayCall
      <4>2. Top(t) = stack[t][Len(stack[t])]
        BY DEF Top
      <4> QED
        BY <3>1, <4>1, <4>2
    <3>3. t \in Instance => stack[t] # <<>>
      BY <2>2 DEF Enter, Shape, Tcpip
    <3>4. /\ stack' = [stack EXCEPT ![t] = Append(stack[t], f)] /\ UNCHANGED <<core, started>>
          /\ pc' = [pc EXCEPT ![t] = "acquire"] /\ pc[t] = "python" /\ gil' = Nobody
          /\ TopOK(<<f>>, "acquire")
      BY <2>2, <3>1 DEF Enter
    <3> HIDE DEF f
    <3> QED
      BY <3>1, <3>2, <3>3, <3>4
  <2>3. CASE CallNetif(t)
    <3> DEFINE f == [how |-> "netif", inst |-> Top(t).inst]
    <3>1. stack[t] # <<>> /\ Top(t).how = "with"
      BY <2>3 DEF CallNetif, Is
    <3>2. /\ f \in Frame /\ f.how = "netif" /\ f.inst = stack[t][Len(stack[t])].inst
          /\ stack[t][Len(stack[t])].how = "with"
      BY <3>1
    <3> QED
      BY <2>3, <3>1, <3>2 DEF CallNetif
  <2>4. CASE Call(t, i)
    <3> DEFINE f == [how |-> "call", inst |-> i]
    <3>1. f \in Frame /\ f.how = "call" /\ f.inst = i
      OBVIOUS
    <3>2. stack[t] # <<>> => <<stack[t][Len(stack[t])].inst, f.inst>> \in Reach
      <4>1. stack[t] # <<>> => <<Top(t).inst, i>> \in Reach
        BY <2>4 DEF Call, MayCall
      <4>2. Top(t) = stack[t][Len(stack[t])]
        BY DEF Top
      <4> QED
        BY <3>1, <4>1, <4>2
    <3>3. stack' = [stack EXCEPT ![t] = Append(stack[t], f)] /\ UNCHANGED <<core, started>>
      BY <2>4 DEF Call
    <3>4. /\ pc' = [pc EXCEPT ![t] = "acquire"] /\ pc[t] = "python" /\ gil' = Nobody
          /\ TopOK(<<f>>, "acquire")
      BY <2>4, <3>1 DEF Call
    <3> HIDE DEF f
    <3> QED
      BY <3>1, <3>2, <3>3, <3>4 DEF Call
  <2>5. CASE t \in Instance /\ TcpipWork(t)
    <3> DEFINE f == [how |-> "call", inst |-> t]
    <3>1. f \in Frame /\ f.how = "call" /\ stack[t] = <<>>
      BY <2>5 DEF TcpipWork, Shape, Tcpip
    <3> QED
      BY <2>5, <3>1 DEF TcpipWork
  <2> QED
    BY <2>1, <2>2, <2>3, <2>4, <2>5
<1>2. Shape(t, Append(stack[t], f), q)
  BY <1>1, Place, PushShape DEF PcValue
<1>3. stack[t] # <<>> => pc[t] = "python"
  BY <1>1, Place DEF Shape, Tcpip, PcValue
<1>4. \A j \in Instance : Owns(Append(stack[t], f), q, j) <=> Owns(stack[t], pc[t], j)
  BY <1>1, <1>3, Place, OwnsPush
<1> QED
  BY <1>1, <1>2, <1>4, ThreadStep

(* A frame is left; if it has a core lock, it gives it back.                *)
LEMMA LeaveStep ==
  ASSUME IInv, NEW t \in All, InitDone(t) \/ Exit(t) \/ Return(t)
  PROVE  IInv'
<1> DEFINE top == stack[t][Len(stack[t])]
           r == SubSeq(stack[t], 1, Len(stack[t]) - 1)
<1>1. /\ stack[t] # <<>> /\ pc[t] # "acquire"
      /\ pc[t] \in {"python", "native"} \/ ~Locks(top)
  BY Place DEF InitDone, Exit, Return, Is, Runs, TopOK, Locks
<1>2. Len(stack[t]) \in Nat \ {0} /\ (r = <<>> <=> Len(stack[t]) = 1) /\ top.inst \in Instance
  BY <1>1, Lower, Place
<1> DEFINE q == IF Return(t) /\ t \in Instance /\ r = <<>> THEN "idle" ELSE "python"
<1>3. t \in Instance => Return(t) \/ (Exit(t) /\ Len(stack[t]) # 1)
  <2>1. t \in Instance => top.how # "init" /\ stack[t][1].how = "call"
    BY <1>1, <1>2, Place DEF Shape, Tcpip
  <2>2. Exit(t) => top.how = "with"
    BY <1>1, Place DEF Exit, Is
  <2>3. InitDone(t) => top.how = "init"
    BY <1>1, Place DEF InitDone, TopOK
  <2>4. Len(stack[t]) = 1 => top = stack[t][1]
    OBVIOUS
  <2> QED
    BY <2>1, <2>2, <2>3, <2>4
<1>4. /\ stack' = [stack EXCEPT ![t] = r] /\ pc' = [pc EXCEPT ![t] = q]
      /\ gil' = gil /\ started' = started
  <2>1. pc \in [All -> PcValue]
    BY DEF IInv, ShapeOK
  <2> QED
    BY <1>3, <2>1 DEF InitDone, Exit, Return, Pop, Below, GoTo, Runs
<1>5. pc[t] = "python" => q = "python"
  <2>1. pc[t] = "python" => ~Return(t)
    BY DEF Return
  <2> QED
    BY <2>1
<1>6. q \in {"python", "idle"} /\ (t \in Instance => (q = "idle" <=> Len(stack[t]) = 1))
      /\ (Len(stack[t]) # 1 => q = "python")
  BY <1>2, <1>3
<1>7. core' = IF Locks(top) THEN [core EXCEPT ![top.inst] = Nobody] ELSE core
  BY <1>1, Place DEF InitDone, Exit, Return, Is, TopOK, Locks
<1> HIDE DEF q, r, top
<1>8. Shape(t, r, q)
  BY <1>1, <1>6, Place, PopShape DEF r
<1>9. \A j \in Instance : Owns(r, q, j) <=> Owns(stack[t], pc[t], j) /\ ~(Locks(top) /\ top.inst = j)
  BY <1>1, <1>6, Place, OwnsPop DEF r, top
<1>10. Locks(top) => core[top.inst] = t
  <2> SUFFICES ASSUME Locks(top) PROVE Owns(stack[t], pc[t], top.inst)
    BY <1>2 DEF IInv, OwnersOK
  <2>1. Len(stack[t]) \in 1..Len(stack[t])
    BY <1>2
  <2> QED
    BY <1>1, <2>1 DEF Owns, top
<1>11. started' \in [Instance -> {"no", "starting", "done"}]
  BY <1>4, Place
<1>12. CASE Locks(top)
  <2>1. \E i \in Instance :
          /\ core[i] = t /\ core' = [core EXCEPT ![i] = Nobody]
          /\ \A j \in Instance : Owns(r, q, j) <=> Owns(stack[t], pc[t], j) /\ i # j
    BY <1>2, <1>7, <1>9, <1>10, <1>12
  <2> QED
    BY <1>4, <1>5, <1>8, <1>11, <2>1, ThreadStep
<1>13. CASE ~Locks(top)
  <2>1. core' = core /\ \A j \in Instance : Owns(r, q, j) <=> Owns(stack[t], pc[t], j)
    BY <1>7, <1>9, <1>13
  <2> QED
    BY <1>4, <1>5, <1>8, <1>11, <2>1, ThreadStep
<1> QED
  BY <1>12, <1>13

(* The core lock is free and taken.                                         *)
LEMMA AcquireStep ==
  ASSUME IInv, NEW t \in All, Acquire(t)
  PROVE  IInv'
<1> DEFINE i == Top(t).inst
           q == IF Is(t, {"with"}) THEN "python" ELSE "native"
<1>1. /\ pc[t] = "acquire" /\ stack[t] # <<>> /\ i \in Instance
      /\ core[i] = Nobody /\ core' = [core EXCEPT ![i] = t]
      /\ pc' = [pc EXCEPT ![t] = q] /\ UNCHANGED <<gil, stack, started>>
      /\ Top(t) = stack[t][Len(stack[t])]
  BY Place DEF Acquire, GoTo, TopOK
<1>2. q \in {"python", "native"} /\ TopOK(stack[t], q)
  BY <1>1, Place DEF TopOK, Is
<1> HIDE DEF i, q
<1>3. ASSUME NEW j \in 1..Len(stack[t]), NEW k \in 1..Len(stack[t]), j < k,
             Locks(stack[t][j]), Locks(stack[t][k]), stack[t][j].inst = stack[t][k].inst
      PROVE  FALSE
  <2>1. k = Len(stack[t])
    BY <1>3, Place DEF Shape, TakenOnce
  <2>2. j < Len(stack[t]) /\ stack[t][j].inst = i
    BY <1>1, <1>3, <2>1 DEF i
  <2>3. Owns(stack[t], pc[t], i)
    BY <1>3, <2>2 DEF Owns
  <2> QED
    BY <1>1, <2>3, CoreLockAssumption DEF IInv, OwnersOK, All
<1>4. Shape(t, stack[t], q)
  <2>1. TakenOnce(stack[t], q)
    BY <1>3 DEF TakenOnce
  <2> QED
    BY <1>1, <1>2, <2>1, Place, MoveShape DEF PcValue
<1>5. \A j \in Instance : Owns(stack[t], q, j) <=> Owns(stack[t], pc[t], j) \/ i = j
  BY <1>1, <1>2, Place, OwnsMove DEF i
<1>6. stack' = [stack EXCEPT ![t] = stack[t]]
  BY <1>1, Place
<1> QED
  BY <1>1, <1>4, <1>5, <1>6, Place, ThreadStep

(* A native function waits without the core lock.                           *)
LEMMA BlockStep ==
  ASSUME IInv, NEW t \in All, Block(t)
  PROVE  IInv'
<1> DEFINE i == Top(t).inst
<1>1. /\ pc[t] = "native" /\ stack[t] # <<>> /\ i \in Instance
      /\ core' = [core EXCEPT ![i] = Nobody]
      /\ pc' = [pc EXCEPT ![t] = "blocked"] /\ UNCHANGED <<gil, stack, started>>
      /\ Top(t) = stack[t][Len(stack[t])] /\ Top(t).how = "call"
  BY Place DEF Block, GoTo, Is
<1>2. Shape(t, stack[t], "blocked")
  BY <1>1, Place, MoveShape DEF PcValue, TopOK
<1>3. core[i] = t
  <2>1. Len(stack[t]) \in 1..Len(stack[t])
    BY <1>1, Place, EmptySeq
  <2>2. Owns(stack[t], pc[t], i)
    BY <1>1, <2>1 DEF Owns, Locks
  <2> QED
    BY <1>1, <2>2 DEF IInv, OwnersOK
<1> HIDE DEF i
<1>4. \A j \in Instance : Owns(stack[t], "blocked", j) <=> Owns(stack[t], pc[t], j) /\ i # j
  BY <1>1, Place, OwnsMove DEF i
<1>5. stack' = [stack EXCEPT ![t] = stack[t]]
  BY <1>1, Place
<1>6. \E k \in Instance :
        /\ core[k] = t /\ core' = [core EXCEPT ![k] = Nobody]
        /\ \A j \in Instance : Owns(stack[t], "blocked", j) <=> Owns(stack[t], pc[t], j) /\ k # j
  BY <1>1, <1>3, <1>4
<1>7. started' \in [Instance -> {"no", "starting", "done"}] /\ gil' = gil /\ pc[t] # "python"
  BY <1>1, Place
<1> QED
  BY <1>1, <1>2, <1>5, <1>6, <1>7, ThreadStep

(* Into a callback, out of it, and after a wait.                            *)
LEMMA MoveStep ==
  ASSUME IInv, NEW t \in All,
         \/ Wake(t) \/ Callback(t) \/ CallbackReturn(t)
         \/ t \in Instance /\ TcpipInitDone(t)
  PROVE  IInv'
<1>1. PICK q \in {"acquire", "python", "native"} :
        /\ pc' = [pc EXCEPT ![t] = q] /\ UNCHANGED <<core, stack>>
        /\ \/ gil' = gil /\ pc[t] # "python"
           \/ gil' = Nobody
        /\ stack[t] # <<>> /\ TopOK(stack[t], q)
        /\ pc[t] \in {"python", "native"} <=> q \in {"python", "native"}
        /\ pc[t] # "acquire"
        /\ started' \in [Instance -> {"no", "starting", "done"}]
  <2> USE Place DEF GoTo, TopOK, Runs, Is
  <2>1. CASE Wake(t)
    BY <2>1 DEF Wake
  <2>2. CASE Callback(t)
    BY <2>2 DEF Callback
  <2>3. CASE CallbackReturn(t)
    BY <2>3 DEF CallbackReturn
  <2>4. CASE t \in Instance /\ TcpipInitDone(t)
    <3>1. stack[t] # <<>>
      BY <2>4 DEF TcpipInitDone
    <3>3. stack[t][Len(stack[t])].how = "call"
      BY <2>4, <3>1 DEF TcpipInitDone
    <3> QED
      BY <2>4, <3>1, <3>3 DEF TcpipInitDone
  <2> QED
    BY <2>1, <2>2, <2>3, <2>4
<1>2. Shape(t, stack[t], q)
  BY <1>1, Place, MoveShape DEF PcValue
<1>3. \A j \in Instance : Owns(stack[t], q, j) <=> Owns(stack[t], pc[t], j)
  BY <1>1, Place, OwnsMove
<1>4. stack' = [stack EXCEPT ![t] = stack[t]]
  BY <1>1, Place
<1> QED
  BY <1>1, <1>2, <1>3, <1>4, ThreadStep

(* lwIP's thread starts with the core lock.                                 *)
LEMMA TcpipThreadStep ==
  ASSUME IInv, NEW i \in Instance, TcpipThread(i)
  PROVE  IInv'
<1> DEFINE f == [how |-> "call", inst |-> i]
<1>1. /\ i \in All /\ f \in Frame /\ f.how = "call" /\ f.inst = i /\ Locks(f)
      /\ stack[i] = <<>> /\ pc[i] = "idle"
      /\ core[i] = Nobody /\ core' = [core EXCEPT ![i] = i]
      /\ stack' = [stack EXCEPT ![i] = Append(stack[i], f)]
      /\ pc' = [pc EXCEPT ![i] = "python"] /\ UNCHANGED <<gil, started>>
  BY Place DEF TcpipThread, Push, GoTo, Frame, How, Locks, All
<1> HIDE DEF f
<1>2. Append(stack[i], f) = <<f>>
  BY <1>1
<1>3. Shape(i, <<f>>, "python")
  <2>1. <<f>> \in Seq(Frame) /\ <<f>> # <<>> /\ Len(<<f>>) = 1 /\ <<f>>[1] = f
    BY <1>1
  <2>2. Chained(<<f>>) /\ TakenOnce(<<f>>, "python")
    BY <2>1 DEF Chained, TakenOnce
  <2>3. Tcpip(<<f>>, "python")
    BY <1>1, <2>1 DEF Tcpip
  <2> QED
    BY <2>1, <2>2, <2>3 DEF Shape, PcValue, TopOK
<1>4. \A j \in Instance : Owns(<<f>>, "python", j) <=> Owns(stack[i], pc[i], j) \/ i = j
  <2>1. Len(<<f>>) = 1 /\ <<f>>[1] = f /\ Len(<<>>) = 0
    OBVIOUS
  <2>2. \A j \in Instance : ~Owns(stack[i], pc[i], j)
    BY <1>1, <2>1 DEF Owns
  <2>3. \A j \in Instance : Owns(<<f>>, "python", j) <=> i = j
    BY <1>1, <2>1 DEF Owns
  <2> QED
    BY <2>2, <2>3
<1>5. \E k \in Instance :
        /\ core[k] = Nobody /\ core' = [core EXCEPT ![k] = i]
        /\ \A j \in Instance : Owns(<<f>>, "python", j) <=> Owns(stack[i], pc[i], j) \/ k = j
  <2> WITNESS i \in Instance
  <2> QED
    BY <1>1, <1>4
<1>6. /\ stack' = [stack EXCEPT ![i] = <<f>>] /\ gil' = gil
      /\ started' \in [Instance -> {"no", "starting", "done"}]
  BY <1>1, <1>2, Place
<1> QED
  BY <1>1, <1>3, <1>5, <1>6, ThreadStep

-----------------------------------------------------------------------------
(* The invariant.                                                           *)

LEMMA InitIInv == Init => IInv
<1> SUFFICES ASSUME Init PROVE IInv
  OBVIOUS
<1>1. \A t \in All : stack[t] = <<>> /\ pc[t] = IF t \in Thread THEN "python" ELSE "idle"
  BY DEF Init
<1>2. stack \in [All -> Seq(Frame)] /\ pc \in [All -> PcValue]
  BY DEF Init, PcValue
<1>3. \A t \in All : t \in Instance => pc[t] = "idle"
  BY <1>1, CoreLockAssumption
<1>4. ASSUME NEW t \in All PROVE Shape(t, stack[t], pc[t])
  <2>1. /\ stack[t] \in Seq(Frame) /\ Len(stack[t]) = 0
        /\ pc[t] \in {"python", "idle"}
    BY <1>1, <1>2
  <2> QED
    BY <1>1, <1>3, <2>1 DEF Shape, PcValue, TopOK, Chained, TakenOnce, Tcpip
<1>5. OwnersOK
  <2> SUFFICES ASSUME NEW t \in All, NEW i \in Instance
               PROVE  core[i] # t /\ ~Owns(stack[t], pc[t], i)
    BY DEF OwnersOK
  <2>1. core[i] # t
    BY CoreLockAssumption DEF Init, All
  <2>2. Len(stack[t]) = 0
    BY <1>1
  <2>3. \A k \in 1..Len(stack[t]) : FALSE
    BY <2>2
  <2> QED
    BY <2>1, <2>3 DEF Owns
<1>6. LockTypeOK
  BY DEF Init, LockTypeOK
<1> QED
  BY <1>2, <1>4, <1>5, <1>6 DEF IInv, ShapeOK

LEMMA NextIInv == IInv /\ [Next]_vars => IInv'
<1> SUFFICES ASSUME IInv, [Next]_vars PROVE IInv'
  OBVIOUS
<1>1. CASE UNCHANGED vars
  BY <1>1 DEF vars, IInv, ShapeOK, LockTypeOK, OwnersOK
<1>2. ASSUME NEW t \in All,
             \/ TakeGil(t) \/ YieldGil(t) \/ InitDone(t)
             \/ Acquire(t) \/ CallNetif(t) \/ Exit(t)
             \/ Block(t) \/ Wake(t) \/ Callback(t) \/ CallbackReturn(t) \/ Return(t)
             \/ \E i \in Instance : Enter(t, i) \/ Call(t, i)
      PROVE  IInv'
  <2>1. CASE CallNetif(t)
    <3>1. Top(t).inst \in Instance
      BY <2>1, Place DEF CallNetif, Is
    <3> QED
      BY <2>1, <3>1, EnterStep
  <2>2. CASE \E i \in Instance : Enter(t, i) \/ Call(t, i)
    BY <2>2, EnterStep
  <2> QED
    BY <1>2, <2>1, <2>2, GilStep, LeaveStep, AcquireStep, BlockStep, MoveStep
<1>3. ASSUME NEW t \in Thread, NEW i \in Instance, TcpipInit(t, i) PROVE IInv'
  BY <1>3, EnterStep DEF All
<1>4. ASSUME NEW i \in Instance, TcpipThread(i) \/ TcpipInitDone(i) \/ TcpipWork(i) PROVE IInv'
  BY <1>4, TcpipThreadStep, MoveStep, EnterStep DEF All
<1> QED
  BY <1>1, <1>2, <1>3, <1>4 DEF Next

(* The inductive invariant of the locks.                                    *)
THEOREM Invariant == Spec => []IInv
BY InitIInv, NextIInv, PTL DEF Spec

(***************************************************************************)
(* Every state is well typed, and what a thread does goes with the         *)
(* innermost thing it is in the middle of.                                 *)
(***************************************************************************)
THEOREM TypeCorrect == Spec => []TypeOK
<1>1. IInv => TypeOK
  <2> SUFFICES ASSUME IInv PROVE TypeOK
    OBVIOUS
  <2>1. ASSUME NEW t \in All
        PROVE  /\ pc[t] = "event" => Is(t, {"init"})
               /\ pc[t] = "native" => Is(t, {"netif", "call"})
               /\ pc[t] = "acquire" => Is(t, {"with", "call"})
               /\ pc[t] = "blocked" => Is(t, {"call"})
    BY Place DEF TopOK, Is
  <2> QED
    BY <2>1 DEF IInv, ShapeOK, LockTypeOK, TypeOK, PcValue
<1> QED
  BY <1>1, Invariant, PTL

(***************************************************************************)
(* However with statements, callbacks, nested calls and waits are mixed,   *)
(* a thread owns the core locks of the frames it is in and no others.      *)
(***************************************************************************)
THEOREM LockDiscipline == Spec => []CoreHeld
<1>1. IInv => CoreHeld
  BY DEF IInv, OwnersOK, CoreHeld, Holds, Owns
<1> QED
  BY <1>1, Invariant, PTL

-----------------------------------------------------------------------------
(* No embrace.                                                              *)

(* The wiring has no cycle: from among any instances one reaches no other   *)
(* of them, nor itself.                                                     *)
Acyclic == \A I \in (SUBSET Instance) \ {{}} : \E i \in I : \A j \in I : <<i, j>> \notin Reach

(* Threads that wait for each other wait for core locks only: who has the   *)
(* GIL runs.                                                                *)
LEMMA WaitForLocks ==
  ASSUME IInv, NEW S \in SUBSET All, \A t \in S : \E u \in S : WaitsFor(t, u), NEW t \in S
  PROVE  pc[t] = "acquire" /\ \E u \in S : core[Top(t).inst] = u
<1>1. ASSUME pc[t] = "python", NEW u \in S, gil = u, gil # t
      PROVE  FALSE
  <2>1. pc[u] = "python"
    BY <1>1, CoreLockAssumption DEF IInv, LockTypeOK, All
  <2> QED
    BY <1>1, <2>1 DEF WaitsFor
<1> QED
  BY <1>1 DEF WaitsFor

(***************************************************************************)
(* With a wiring without cycles no threads wait only for each other, for   *)
(* any number of threads and instances: take all instances that such       *)
(* threads are in the middle of, and one of them that reaches none of      *)
(* them.  Nothing was entered from it, so whoever is in the middle of it   *)
(* is about to take its core lock, and nobody has it.                      *)
(***************************************************************************)
THEOREM EmbraceFree ==
  ASSUME Acyclic
  PROVE  Spec => []NoEmbrace
<1>1. IInv => NoEmbrace
  <2> SUFFICES ASSUME IInv, NEW S \in (SUBSET All) \ {{}},
                      \A t \in S : \E u \in S : WaitsFor(t, u)
               PROVE  FALSE
    BY DEF NoEmbrace
  <2>1. ASSUME NEW t \in S
        PROVE  /\ pc[t] = "acquire" /\ \E u \in S : core[Top(t).inst] = u
               /\ Len(stack[t]) \in Nat /\ Len(stack[t]) \in 1..Len(stack[t])
               /\ Top(t) = stack[t][Len(stack[t])]
               /\ stack[t][Len(stack[t])].how \in {"with", "call"}
               /\ \A k \in 1..Len(stack[t]) : stack[t][k] \in Frame
    <3>1. pc[t] = "acquire" /\ \E u \in S : core[Top(t).inst] = u
      BY WaitForLocks
    <3>2. stack[t] \in Seq(Frame)
      BY Place
    <3>3. stack[t] # <<>> /\ Top(t) = stack[t][Len(stack[t])] /\ Top(t).how \in {"with", "call"}
      BY <3>1, Place DEF TopOK
    <3>4. Len(stack[t]) \in Nat /\ Len(stack[t]) \in 1..Len(stack[t])
      BY <3>2, <3>3
    <3>5. \A k \in 1..Len(stack[t]) : stack[t][k] \in Frame
      BY <3>2, ElementOfSeq
    <3> QED
      BY <3>1, <3>3, <3>4, <3>5
  <2> DEFINE I == {i \in Instance : \E t \in S : \E k \in 1..Len(stack[t]) : stack[t][k].inst = i}
  <2>2. ASSUME NEW t \in S, NEW k \in 1..Len(stack[t]) PROVE stack[t][k].inst \in I
    BY <2>1 DEF Frame
  <2>3. \A i \in I : i \in Instance /\ \E t \in S : \E k \in 1..Len(stack[t]) : stack[t][k].inst = i
    OBVIOUS
  <2> HIDE DEF I
  <2>4. I \in (SUBSET Instance) \ {{}}
    <3>1. PICK t \in S : TRUE
      OBVIOUS
    <3>2. Len(stack[t]) \in 1..Len(stack[t])
      BY <2>1
    <3> QED
      BY <2>2, <2>3, <3>2
  <2>5. PICK i \in I : \A j \in I : <<i, j>> \notin Reach
    BY <2>4 DEF Acyclic
  <2>6. ASSUME NEW t \in S, NEW k \in 1..Len(stack[t]), stack[t][k].inst = i
        PROVE  k = Len(stack[t])
    <3> DEFINE n == Len(stack[t])
    <3>1. n \in Nat /\ stack[t][n].how \in {"with", "call"} /\ stack[t] \in Seq(Frame)
      BY <2>1, Place
    <3>2. ASSUME NEW m \in 1..n, m < n, stack[t][m].inst = i
          PROVE  /\ m + 1 \in 1..n /\ stack[t][m].how = "with"
                 /\ stack[t][m + 1].how = "netif" /\ stack[t][m + 1].inst = i
      <4>0. n \in Nat
        BY <3>1
      <4> HIDE DEF n
      <4>1. m + 1 \in 2..n /\ m + 1 \in 1..n /\ (m + 1) - 1 = m
        BY <4>0, <3>2
      <4>2. stack[t][m + 1].inst \in I
        BY <2>2, <4>1 DEF n
      <4>3. \/ /\ stack[t][m + 1].how = "netif" /\ stack[t][m].how = "with"
               /\ stack[t][m + 1].inst = stack[t][m].inst
            \/ <<stack[t][m].inst, stack[t][m + 1].inst>> \in Reach
        <5>1. Chained(stack[t])
          BY Place DEF Shape
        <5> QED
          BY <4>1, <5>1 DEF Chained, n
      <4> QED
        BY <2>5, <3>2, <4>1, <4>2, <4>3
    <3> HIDE DEF n
    <3> SUFFICES ASSUME k < n PROVE FALSE
      BY <2>6, <3>1 DEF n
    <3>3. k \in 1..n
      BY <2>6 DEF n
    <3>4. k + 1 \in 1..n /\ stack[t][k + 1].how = "netif" /\ stack[t][k + 1].inst = i
      BY <2>6, <3>2, <3>3
    <3>5. k + 1 < n
      BY <3>1, <3>3, <3>4
    <3>6. stack[t][k + 1].how = "with"
      BY <3>2, <3>4, <3>5
    <3> QED
      BY <3>4, <3>6
  <2>7. PICK t \in S : \E k \in 1..Len(stack[t]) : stack[t][k].inst = i
    BY <2>3
  <2>8. Top(t).inst = i
    BY <2>1, <2>6, <2>7
  <2>9. PICK u \in S : core[i] = u
    BY <2>1, <2>8
  <2>10. Owns(stack[u], "acquire", i)
    <3>1. u \in All /\ i \in Instance /\ pc[u] = "acquire"
      BY <2>1, <2>3
    <3> QED
      BY <2>9, <3>1 DEF IInv, OwnersOK
  <2>11. PICK k \in 1..Len(stack[u]) : stack[u][k].inst = i /\ k < Len(stack[u])
    BY <2>10 DEF Owns
  <2>12. k = Len(stack[u])
    BY <2>6, <2>11
  <2>13. Len(stack[u]) \in Nat
    BY <2>1
  <2> QED
    BY <2>11, <2>12, <2>13
<1> QED
  BY <1>1, Invariant, PTL

-----------------------------------------------------------------------------
(* Who waits, and for what: the safety halves of CoreReleased and InitEnds. *)

(***************************************************************************)
(* A frame is for an instance that is up, or is the first callback of the  *)
(* instance's own thread, or waits for that.  A thread of an instance that *)
(* is not up is in that callback, or has not run yet.                      *)
(***************************************************************************)
Up(t, s, p, init) ==
  /\ \A k \in 1..Len(s) :
       \/ s[k].how # "init" /\ (init[s[k].inst] = "done" \/ s[k].inst = t)
       \/ s[k].how = "init" /\ init[s[k].inst] # "no" /\ Len(s) = 1 /\ p = "event"
  /\ t \in Thread => p # "idle"
  /\ t \in Instance /\ init[t] = "no" => s = <<>>
  /\ t \in Instance /\ init[t] = "starting"
       => s = <<>> \/ (Len(s) = 1 /\ s[1].inst = t /\ p = "python")

AllUp == \A t \in All : Up(t, stack[t], pc[t], started)

(* LwIP() that waits has its instance's thread at or before the event.      *)
InitGoesOn ==
  \A t \in Thread : pc[t] = "event"
    => LET i == Top(t).inst IN
         \/ started[i] = "done"
         \/ started[i] = "starting" /\ pc[i] = "idle" /\ stack[i] = <<>> /\ core[i] = Nobody
         \/ started[i] = "starting" /\ pc[i] = "python" /\ core[i] = i

(* Who owns the core lock of an instance that reaches none waits for none.  *)
HolderGoesOn ==
  \A i \in Instance : (\A j \in Instance : <<i, j>> \notin Reach)
    => \A t \in All : core[i] = t => pc[t] \in {"python", "native"}

(* A frame for an instance that is up is entered.                           *)
LEMMA UpPush ==
  ASSUME NEW t \in All, NEW s \in Seq(Frame), NEW p, NEW init, Up(t, s, p, init), p # "event",
         NEW f \in Frame, NEW q, q # "idle", f.how # "init", init[f.inst] = "done",
         t \in Instance => init[t] = "done"
  PROVE  Up(t, Append(s, f), q, init)
<1> DEFINE n == Len(s)
           r == Append(s, f)
<1>1. n \in Nat /\ Len(r) = n + 1 /\ r[n + 1] = f /\ \A k \in 1..n : r[k] = s[k]
  BY AppendProperties, LenProperties
<1>2. \A k \in 1..n : s[k].how # "init" /\ (init[s[k].inst] = "done" \/ s[k].inst = t)
  BY DEF Up
<1> HIDE DEF n, r
<1>3. ASSUME NEW k \in 1..Len(r)
      PROVE  r[k].how # "init" /\ (init[r[k].inst] = "done" \/ r[k].inst = t)
  <2>1. k \in 1..n \/ k = n + 1
    BY <1>1
  <2>2. CASE k \in 1..n
    BY <1>1, <1>2, <2>2
  <2>3. CASE k = n + 1
    BY <1>1, <2>3
  <2> QED
    BY <2>1, <2>2, <2>3
<1>4. Up(t, r, q, init)
  BY <1>3 DEF Up
<1> QED
  BY <1>4 DEF r

(* The innermost frame is left.                                             *)
LEMMA UpPop ==
  ASSUME NEW t \in All, NEW s \in Seq(Frame), s # <<>>, NEW p, NEW init, Up(t, s, p, init),
         NEW q, t \in Thread => q # "idle", t \in Instance => init[t] = "done"
  PROVE  Up(t, SubSeq(s, 1, Len(s) - 1), q, init)
<1> DEFINE r == SubSeq(s, 1, Len(s) - 1)
<1>1. /\ Len(s) \in Nat \ {0} /\ Len(r) = Len(s) - 1
      /\ \A k \in 1..(Len(s) - 1) : r[k] = s[k]
  BY Lower
<1> HIDE DEF r
<1>2. ASSUME NEW k \in 1..Len(r)
      PROVE  r[k].how # "init" /\ (init[r[k].inst] = "done" \/ r[k].inst = t)
  <2>1. k \in 1..Len(s) /\ r[k] = s[k] /\ Len(s) # 1
    BY <1>1
  <2> QED
    BY <2>1 DEF Up
<1>3. Up(t, r, q, init)
  BY <1>2 DEF Up
<1> QED
  BY <1>3 DEF r

(* A thread moves within its frame.                                         *)
LEMMA UpMove ==
  ASSUME NEW t \in All, NEW s, NEW p, NEW init, Up(t, s, p, init), p # "event",
         NEW q, q # "idle", t \in Instance => init[t] = "done"
  PROVE  Up(t, s, q, init)
BY DEF Up

(* The thread of an instance does anything but that callback when it is up. *)
LEMMA RunsUp ==
  ASSUME IInv, AllUp, NEW t \in Instance, pc[t] \notin {"idle", "python"}
  PROVE  started[t] = "done"
<1>1. stack[t] # <<>> /\ started[t] \in {"no", "starting", "done"}
  BY Place DEF Shape, Tcpip, All
<1> QED
  BY <1>1 DEF AllUp, Up, All

(* It is in no with statement before.                                       *)
LEMMA WithUp ==
  ASSUME IInv, AllUp, NEW t \in Instance, stack[t] # <<>>, stack[t][Len(stack[t])].how = "with"
  PROVE  started[t] = "done"
<1>1. started[t] \in {"no", "starting", "done"} /\ stack[t][1].how = "call"
  BY Place DEF Shape, Tcpip, All
<1>2. Len(stack[t]) # 1
  BY <1>1
<1> QED
  BY <1>1, <1>2 DEF AllUp, Up, All

LEMMA UpStep ==
  ASSUME IInv, AllUp, NEW t \in All, NEW s, NEW q, Up(t, s, q, started),
         stack' = [stack EXCEPT ![t] = s], pc' = [pc EXCEPT ![t] = q], started' = started
  PROVE  AllUp'
<1>1. /\ stack'[t] = s /\ pc'[t] = q
      /\ \A u \in All : u # t => stack'[u] = stack[u] /\ pc'[u] = pc[u]
  BY DEF IInv, ShapeOK
<1>2. \A u \in All : Up(u, stack'[u], pc'[u], started)
  BY <1>1 DEF AllUp
<1> QED
  BY <1>2 DEF AllUp

(* A thread enters a frame.                                                 *)
LEMMA EnterUp ==
  ASSUME IInv, AllUp, NEW t \in All, NEW i \in Instance,
         \/ Enter(t, i) \/ CallNetif(t) \/ Call(t, i)
         \/ t \in Instance /\ TcpipWork(t)
  PROVE  AllUp'
<1>1. PICK h \in {"with", "netif", "call"}, j \in Instance, q \in {"acquire", "native"} :
        /\ stack' = [stack EXCEPT ![t] = Append(stack[t], [how |-> h, inst |-> j])]
        /\ pc' = [pc EXCEPT ![t] = q] /\ started' = started /\ pc[t] # "event"
        /\ started[j] = "done" /\ (t \in Instance => started[t] = "done")
  <2>1. CASE Enter(t, i)
    BY <2>1 DEF Enter, MayCall, Runs, Push, GoTo
  <2>2. CASE Call(t, i)
    BY <2>2 DEF Call, MayCall, Runs, Push, GoTo
  <2>3. CASE t \in Instance /\ TcpipWork(t)
    BY <2>3 DEF TcpipWork, Push, GoTo
  <2>4. CASE CallNetif(t)
    <3>1. /\ stack[t] # <<>> /\ Top(t).how = "with" /\ Top(t).inst \in Instance
          /\ Top(t) = stack[t][Len(stack[t])] /\ pc[t] = "python"
      BY <2>4, Place DEF CallNetif, Is, Runs
    <3>2. Len(stack[t]) \in 1..Len(stack[t])
      BY <3>1, Place, Lower
    <3>3. t \in Instance => started[t] = "done"
      BY <3>1, WithUp
    <3>4. started[Top(t).inst] = "done"
      BY <3>1, <3>2, <3>3 DEF AllUp, Up
    <3> QED
      BY <2>4, <3>1, <3>3, <3>4 DEF CallNetif, Push, GoTo
  <2> QED
    BY <2>1, <2>2, <2>3, <2>4
<1>2. stack[t] \in Seq(Frame) /\ Up(t, stack[t], pc[t], started)
  BY Place DEF AllUp
<1> DEFINE f == [how |-> h, inst |-> j]
<1>3. f \in Frame /\ f.how # "init" /\ f.inst = j
  BY DEF Frame, How
<1> HIDE DEF f
<1>4. Up(t, Append(stack[t], f), q, started)
  BY <1>1, <1>2, <1>3, UpPush
<1>5. stack' = [stack EXCEPT ![t] = Append(stack[t], f)]
  BY <1>1 DEF f
<1> QED
  BY <1>1, <1>4, <1>5, UpStep

(* A thread leaves a frame.                                                 *)
LEMMA LeaveUp ==
  ASSUME IInv, AllUp, NEW t \in All, InitDone(t) \/ Exit(t) \/ Return(t)
  PROVE  AllUp'
<1>1. stack[t] # <<>> /\ stack[t] \in Seq(Frame) /\ Up(t, stack[t], pc[t], started)
  BY Place DEF InitDone, Exit, Return, Is, TopOK, AllUp
<1>2. t \in Instance => started[t] = "done"
  <2>1. CASE Exit(t)
    <3>1. Top(t).how = "with" /\ Top(t) = stack[t][Len(stack[t])]
      BY <2>1, <1>1, Place DEF Exit, Is
    <3> QED
      BY <1>1, <3>1, WithUp
  <2>2. CASE InitDone(t) \/ Return(t)
    BY <2>2, RunsUp DEF InitDone, Return
  <2> QED
    BY <2>1, <2>2
<1>3. PICK q \in PcValue :
        /\ stack' = [stack EXCEPT ![t] = SubSeq(stack[t], 1, Len(stack[t]) - 1)]
        /\ pc' = [pc EXCEPT ![t] = q] /\ started' = started
        /\ t \in Thread => q # "idle"
  <2>1. CASE InitDone(t)
    BY <2>1 DEF InitDone, Pop, Below, GoTo, PcValue
  <2>2. CASE Exit(t)
    <3>1. pc' = [pc EXCEPT ![t] = "python"]
      BY <2>2 DEF Exit, Runs, IInv, ShapeOK
    <3> QED
      BY <2>2, <3>1 DEF Exit, Pop, Below, PcValue
  <2>3. CASE Return(t)
    BY <2>3, CoreLockAssumption DEF Return, Pop, Below, GoTo, PcValue
  <2> QED
    BY <2>1, <2>2, <2>3
<1>4. Up(t, SubSeq(stack[t], 1, Len(stack[t]) - 1), q, started)
  BY <1>1, <1>2, <1>3, UpPop
<1> QED
  BY <1>3, <1>4, UpStep

(* A thread moves on within its frame.                                      *)
LEMMA MoveUp ==
  ASSUME IInv, AllUp, NEW t \in All,
         Acquire(t) \/ Block(t) \/ Wake(t) \/ Callback(t) \/ CallbackReturn(t)
  PROVE  AllUp'
<1>1. PICK q \in {"python", "native", "acquire", "blocked"} :
        pc' = [pc EXCEPT ![t] = q] /\ stack' = stack /\ started' = started /\ pc[t] # "event"
  BY DEF Acquire, Block, Wake, Callback, CallbackReturn, Runs, GoTo
<1>2. t \in Instance => started[t] = "done"
  <2>1. CASE CallbackReturn(t)
    BY <2>1 DEF CallbackReturn
  <2>2. CASE Acquire(t) \/ Block(t) \/ Wake(t) \/ Callback(t)
    BY <2>2, RunsUp DEF Acquire, Block, Wake, Callback
  <2> QED
    BY <2>1, <2>2
<1>3. Up(t, stack[t], pc[t], started)
  BY DEF AllUp
<1>4. Up(t, stack[t], q, started)
  BY <1>1, <1>2, <1>3, UpMove
<1>5. stack' = [stack EXCEPT ![t] = stack[t]]
  BY <1>1, Place
<1> QED
  BY <1>1, <1>4, <1>5, UpStep

(* tcpip_init starts the thread of an instance, of which nothing was up.    *)
LEMMA TcpipInitUp ==
  ASSUME IInv, AllUp, NEW t \in Thread, NEW i \in Instance, TcpipInit(t, i)
  PROVE  AllUp'
<1> DEFINE f == [how |-> "init", inst |-> i]
<1>1. /\ t \in All /\ i \in All /\ f.how = "init" /\ f.inst = i /\ t \notin Instance
      /\ stack[t] = <<>> /\ started[i] = "no"
      /\ started' = [started EXCEPT ![i] = "starting"]
      /\ stack' = [stack EXCEPT ![t] = Append(stack[t], f)]
      /\ pc' = [pc EXCEPT ![t] = "event"]
  BY CoreLockAssumption DEF TcpipInit, Push, GoTo, All
<1> HIDE DEF f
<1>2. Append(stack[t], f) = <<f>> /\ Len(<<f>>) = 1 /\ <<f>>[1] = f
  BY <1>1
<1>3. /\ started'[i] = "starting" /\ \A j \in Instance : j # i => started'[j] = started[j]
      /\ stack'[t] = <<f>> /\ pc'[t] = "event"
      /\ \A u \in All : u # t => stack'[u] = stack[u] /\ pc'[u] = pc[u]
  BY <1>1, <1>2, Place DEF IInv, ShapeOK
<1>4. Up(t, stack'[t], pc'[t], started')
  BY <1>1, <1>2, <1>3 DEF Up
<1>5. ASSUME NEW u \in All, u # t
      PROVE  Up(u, stack'[u], pc'[u], started')
  <2>1. Up(u, stack[u], pc[u], started)
    BY DEF AllUp
  <2>2. \A k \in 1..Len(stack[u]) : stack[u][k].inst \in Instance
    <3>1. \A k \in 1..Len(stack[u]) : stack[u][k] \in Frame
      BY Place, ElementOfSeq
    <3> QED
      BY <3>1 DEF Frame
  <2>3. \A k \in 1..Len(stack[u]) :
          \/ stack[u][k].how # "init" /\ (started'[stack[u][k].inst] = "done" \/ stack[u][k].inst = u)
          \/ /\ stack[u][k].how = "init" /\ started'[stack[u][k].inst] # "no"
             /\ Len(stack[u]) = 1 /\ pc[u] = "event"
    BY <1>1, <1>3, <2>1, <2>2 DEF Up
  <2>4. /\ u \in Instance /\ started'[u] = "no" => stack[u] = <<>>
        /\ u \in Instance /\ started'[u] = "starting"
             => stack[u] = <<>> \/ (Len(stack[u]) = 1 /\ stack[u][1].inst = u /\ pc[u] = "python")
    BY <1>1, <1>3, <2>1 DEF Up
  <2>5. stack'[u] = stack[u] /\ pc'[u] = pc[u] /\ (u \in Thread => pc[u] # "idle")
    BY <1>3, <1>5, <2>1 DEF Up
  <2> QED
    BY <2>3, <2>4, <2>5 DEF Up
<1> QED
  BY <1>4, <1>5 DEF AllUp

(* The thread of an instance begins.                                        *)
LEMMA TcpipThreadUp ==
  ASSUME IInv, AllUp, NEW i \in Instance, TcpipThread(i)
  PROVE  AllUp'
<1> DEFINE f == [how |-> "call", inst |-> i]
<1>1. /\ i \in All /\ f.how = "call" /\ f.inst = i
      /\ stack[i] = <<>> /\ started[i] = "starting" /\ started' = started
      /\ stack' = [stack EXCEPT ![i] = Append(stack[i], f)]
      /\ pc' = [pc EXCEPT ![i] = "python"]
  BY DEF TcpipThread, Push, GoTo, All
<1> HIDE DEF f
<1>2. Append(stack[i], f) = <<f>> /\ Len(<<f>>) = 1 /\ <<f>>[1] = f
  BY <1>1
<1>3. Up(i, <<f>>, "python", started)
  BY <1>1, <1>2 DEF Up
<1> QED
  BY <1>1, <1>2, <1>3, UpStep

(* _tcpip_init_done: the instance is up.                                    *)
LEMMA TcpipInitDoneUp ==
  ASSUME IInv, AllUp, NEW i \in Instance, TcpipInitDone(i)
  PROVE  AllUp'
<1>1. /\ i \in All /\ started[i] = "starting" /\ stack' = stack
      /\ started' = [started EXCEPT ![i] = "done"]
      /\ pc[i] = "python" /\ pc' = [pc EXCEPT ![i] = "native"]
  BY DEF TcpipInitDone, Runs, GoTo, All
<1>2. /\ started'[i] = "done" /\ \A j \in Instance : j # i => started'[j] = started[j]
      /\ pc'[i] = "native" /\ \A u \in All : u # i => pc'[u] = pc[u]
  BY <1>1, Place DEF IInv, ShapeOK
<1>3. ASSUME NEW u \in All
      PROVE  Up(u, stack'[u], pc'[u], started')
  <2>1. Up(u, stack[u], pc[u], started)
    BY DEF AllUp
  <2>2. \A k \in 1..Len(stack[u]) : stack[u][k].inst \in Instance
    <3>1. \A k \in 1..Len(stack[u]) : stack[u][k] \in Frame
      BY Place, ElementOfSeq
    <3> QED
      BY <3>1 DEF Frame
  <2>3. \A k \in 1..Len(stack[u]) :
          \/ stack[u][k].how # "init" /\ (started'[stack[u][k].inst] = "done" \/ stack[u][k].inst = u)
          \/ /\ stack[u][k].how = "init" /\ started'[stack[u][k].inst] # "no"
             /\ Len(stack[u]) = 1 /\ pc'[u] = "event"
    BY <1>1, <1>2, <2>1, <2>2 DEF Up
  <2>4. /\ u \in Instance /\ started'[u] = "no" => stack[u] = <<>>
        /\ u \in Instance /\ started'[u] = "starting"
             => stack[u] = <<>> \/ (Len(stack[u]) = 1 /\ stack[u][1].inst = u /\ pc'[u] = "python")
    BY <1>1, <1>2, <2>1 DEF Up
  <2>5. u \in Thread => pc'[u] # "idle"
    BY <1>2, <2>1 DEF Up
  <2> QED
    BY <1>1, <2>3, <2>4, <2>5 DEF Up
<1> QED
  BY <1>3 DEF AllUp

LEMMA NextUp == IInv /\ AllUp /\ [Next]_vars => AllUp'
<1> SUFFICES ASSUME IInv, AllUp, [Next]_vars PROVE AllUp'
  OBVIOUS
<1>1. CASE UNCHANGED <<pc, stack, started>>
  BY <1>1 DEF AllUp
<1>2. ASSUME NEW t \in All,
             \/ TakeGil(t) \/ YieldGil(t) \/ InitDone(t)
             \/ Acquire(t) \/ CallNetif(t) \/ Exit(t)
             \/ Block(t) \/ Wake(t) \/ Callback(t) \/ CallbackReturn(t) \/ Return(t)
             \/ \E i \in Instance : Enter(t, i) \/ Call(t, i)
      PROVE  AllUp'
  <2>1. CASE TakeGil(t) \/ YieldGil(t)
    BY <1>1, <2>1 DEF TakeGil, YieldGil
  <2>2. CASE CallNetif(t)
    <3>1. Top(t).inst \in Instance
      BY <2>2, Place DEF CallNetif, Is
    <3> QED
      BY <2>2, <3>1, EnterUp
  <2>3. CASE \E i \in Instance : Enter(t, i) \/ Call(t, i)
    BY <2>3, EnterUp
  <2> QED
    BY <1>2, <2>1, <2>2, <2>3, LeaveUp, MoveUp
<1>3. ASSUME NEW t \in Thread, NEW i \in Instance, TcpipInit(t, i) PROVE AllUp'
  BY <1>3, TcpipInitUp DEF All
<1>4. ASSUME NEW i \in Instance, TcpipThread(i) \/ TcpipInitDone(i) \/ TcpipWork(i) PROVE AllUp'
  BY <1>4, TcpipThreadUp, TcpipInitDoneUp, EnterUp DEF All
<1>5. CASE UNCHANGED vars
  BY <1>1, <1>5 DEF vars
<1> QED
  BY <1>2, <1>3, <1>4, <1>5 DEF Next

(***************************************************************************)
(* Nobody works on an instance before its tcpip_init is through: each      *)
(* frame is for an instance that is up, but for LwIP() that waits and the  *)
(* callback it waits for.                                                  *)
(***************************************************************************)
THEOREM NothingBeforeInit == Spec => []AllUp
<1>1. Init => AllUp
  BY CoreLockAssumption DEF Init, AllUp, Up, All
<1> QED
  BY <1>1, NextUp, Invariant, PTL DEF Spec

(***************************************************************************)
(* What InitEnds rests on: while LwIP() waits, the event is set, or the    *)
(* instance's thread can begin with a free core lock, or is in the         *)
(* callback that sets it, with its own core lock and asking for the GIL    *)
(* only.                                                                   *)
(***************************************************************************)
THEOREM InitNotStuck == Spec => []InitGoesOn
<1>1. IInv /\ AllUp => InitGoesOn
  <2> SUFFICES ASSUME IInv, AllUp, NEW t \in Thread, pc[t] = "event",
                      NEW i, i = Top(t).inst, started[i] # "done"
               PROVE  \/ started[i] = "starting" /\ pc[i] = "idle" /\ stack[i] = <<>> /\ core[i] = Nobody
                      \/ started[i] = "starting" /\ pc[i] = "python" /\ core[i] = i
    BY DEF InitGoesOn
  <2>1. /\ t \in All /\ stack[t] # <<>> /\ i \in Instance /\ i \in All
        /\ i = stack[t][Len(stack[t])].inst /\ stack[t][Len(stack[t])].how = "init"
    BY Place DEF TopOK, All
  <2>2. started[i] = "starting"
    <3>1. Len(stack[t]) \in 1..Len(stack[t])
      BY <2>1, Place, Lower
    <3>2. started[i] \in {"no", "starting", "done"}
      BY <2>1, Place
    <3> QED
      BY <2>1, <3>1, <3>2 DEF AllUp, Up
  <2>3. CASE stack[i] = <<>>
    <3>1. pc[i] = "idle"
      BY <2>1, <2>3, Place DEF Shape, Tcpip
    <3>2. ASSUME NEW u \in All, core[i] = u
          PROVE  FALSE
      <4>1. PICK k \in 1..Len(stack[u]) : Locks(stack[u][k]) /\ stack[u][k].inst = i
        BY <2>1, <3>2 DEF IInv, OwnersOK, Owns
      <4>2. u = i
        BY <2>2, <4>1 DEF AllUp, Up, Locks
      <4> QED
        BY <2>3, <4>1, <4>2
    <3>3. core[i] = Nobody
      BY <2>1, <3>2 DEF IInv, LockTypeOK
    <3> QED
      BY <2>2, <2>3, <3>1, <3>3
  <2>4. CASE stack[i] # <<>>
    <3>1. Len(stack[i]) = 1 /\ stack[i][1].inst = i /\ pc[i] = "python"
      BY <2>1, <2>2, <2>4 DEF AllUp, Up
    <3>2. stack[i][1].how = "call"
      BY <2>1, <3>1, Place DEF Shape, Tcpip
    <3>3. Owns(stack[i], pc[i], i)
      BY <3>1, <3>2 DEF Owns, Locks
    <3> QED
      BY <2>1, <2>2, <3>1, <3>3 DEF IInv, OwnersOK
  <2> QED
    BY <2>3, <2>4
<1> QED
  BY <1>1, Invariant, NothingBeforeInit, PTL

(***************************************************************************)
(* What CoreReleased rests on: a thread that owns the core lock of an      *)
(* instance whose callbacks call into no other is not waiting for a core   *)
(* lock, an event or the network: it runs native code, or Python code that *)
(* needs the GIL only.                                                     *)
(***************************************************************************)
THEOREM HolderNotStuck == Spec => []HolderGoesOn
<1>1. IInv /\ AllUp => HolderGoesOn
  <2> SUFFICES ASSUME IInv, AllUp, NEW i \in Instance, \A j \in Instance : <<i, j>> \notin Reach,
                      NEW t \in All, core[i] = t
               PROVE  pc[t] \in {"python", "native"}
    BY DEF HolderGoesOn
  <2> DEFINE n == Len(stack[t])
  <2>1. PICK k \in 1..n : stack[t][k].inst = i /\ (k < n \/ pc[t] \in {"python", "native"})
    BY DEF IInv, OwnersOK, Owns
  <2>2. n \in Nat /\ stack[t] # <<>> /\ Chained(stack[t]) /\ TopOK(stack[t], pc[t])
        /\ pc[t] \in PcValue /\ \A m \in 1..n : stack[t][m] \in Frame
    <3>1. stack[t] \in Seq(Frame)
      BY Place
    <3>2. \A m \in 1..n : stack[t][m] \in Frame
      BY <3>1, ElementOfSeq
    <3>3. n \in Nat /\ stack[t] # <<>>
      BY <2>1, <3>1, EmptySeq, LenProperties
    <3> QED
      BY <3>2, <3>3, Place DEF Shape
  <2>3. \A m \in 1..n : stack[t][m].inst \in Instance
    BY <2>2 DEF Frame
  <2>4. pc[t] # "idle"
    <3>1. CASE t \in Thread
      BY <3>1 DEF AllUp, Up
    <3>2. CASE t \in Instance
      BY <2>2, <3>2, Place DEF Shape, Tcpip
    <3> QED
      BY <3>1, <3>2 DEF All
  <2>5. \A m \in 2..n : \/ /\ stack[t][m].how = "netif" /\ stack[t][m - 1].how = "with"
                           /\ stack[t][m].inst = stack[t][m - 1].inst
                        \/ <<stack[t][m - 1].inst, stack[t][m].inst>> \in Reach
    BY <2>2 DEF Chained
  <2>6. n > 0 /\ \/ pc[t] \in {"python", "native"}
                 \/ stack[t][n].how # "netif"
    BY <2>1, <2>2, <2>4 DEF TopOK, PcValue
  <2> HIDE DEF n
  <2> SUFFICES ASSUME pc[t] \notin {"python", "native"} PROVE FALSE
    OBVIOUS
  <2>7. k < n /\ k + 1 \in 2..n /\ k + 1 \in 1..n /\ (k + 1) - 1 = k
    BY <2>1, <2>2
  <2>8. stack[t][k + 1].how = "netif" /\ stack[t][k + 1].inst = i
    BY <2>1, <2>3, <2>5, <2>7
  <2>9. k + 1 # n
    BY <2>6, <2>8
  <2>10. k + 2 \in 2..n /\ k + 2 \in 1..n /\ (k + 2) - 1 = k + 1
    BY <2>2, <2>7, <2>9
  <2> QED
    BY <2>3, <2>5, <2>8, <2>10
<1> QED
  BY <1>1, Invariant, NothingBeforeInit, PTL

=============================================================================
