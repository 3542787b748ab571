------------------------- MODULE PairTrafficProofs --------------------------
(***************************************************************************)
(* Proofs about PairTraffic, for any number of sending threads, payloads,  *)
(* widths of items and windows.  What holds of a sendall between two lines *)
(* of check_ret_errno is said of the record of one thread; the stream is   *)
(* ordered because no byte in it lies beyond what its thread has sent.     *)
(***************************************************************************)
EXTENDS PairTraffic, SequenceTheorems, TLAPS

(* One sendall. *)
CallOK(c) ==
  /\ c \in Call
  /\ c.at = "returned" => c.ret <= Items - c.pos
  /\ c.at \in {"idle", "loop", "done"} => c.ret >= 0
  /\ c.at = "cleared" /\ c.stray = "no" => c.err = 0
  /\ c.at = "returned" /\ c.stray = "no" => c.err = c.own
  /\ c.at = "raised" /\ c.ret < 0 /\ c.stray = "no" => c.told = c.own
  /\ c.at = "raised" /\ ~WarningsAreErrors => c.ret < 0

CallsOK == call \in [Sender -> Call] /\ \A t \in Sender : CallOK(call[t])

(* The first byte a sendall has not handed to lwIP. *)
Upto(c, w) == c.pos * w + (IF c.at = "returned" /\ c.ret > 0 THEN c.ret ELSE 0)

StreamOK ==
  \A i \in DOMAIN stream :
    call[stream[i][1]].at # "raised" => stream[i][2] < Upto(call[stream[i][1]], width)

IInv == TrafficTypeOK /\ CallsOK /\ StreamOK /\ SentOnce

(* Items are at least as wide as a byte. *)
LEMMA Widen ==
  ASSUME NEW p \in Nat, NEW r \in Nat, NEW w \in Nat \ {0}
  PROVE  /\ p * w \in Nat
         /\ p * w + r <= (p + r) * w
<1>1. /\ p * w \in Nat /\ r * w \in Nat
      /\ (p + r) * w = p * w + r * w
  BY SMT
<1>2. r <= r * w
  BY SMT
<1> QED
  BY <1>1, <1>2

(* A function on 1..n is a sequence. *)
LEMMA FunctionIsSeq ==
  ASSUME NEW S, NEW n \in Nat, NEW f \in [1..n -> S]
  PROVE  f \in Seq(S) /\ Len(f) = n
OBVIOUS

(* What is in a sequence that was appended to. *)
LEMMA Appended ==
  ASSUME NEW S, NEW s \in Seq(S), NEW q \in Seq(S)
  PROVE  /\ s \o q \in Seq(S)
         /\ Len(s \o q) = Len(s) + Len(q)
         /\ \A i \in 1..Len(s) : (s \o q)[i] = s[i]
         /\ \A i \in 1..Len(q) : (s \o q)[Len(s) + i] = q[i]
<1>1. Len(s) \in Nat /\ Len(q) \in Nat
  OBVIOUS
<1>2. \A i \in 1..(Len(s) + Len(q)) : (s \o q)[i] = IF i <= Len(s) THEN s[i] ELSE q[i - Len(s)]
  BY ConcatProperties
<1>3. ASSUME NEW i \in 1..Len(q) PROVE (s \o q)[Len(s) + i] = q[i]
  <2>1. Len(s) + i \in 1..(Len(s) + Len(q)) /\ ~(Len(s) + i <= Len(s)) /\ (Len(s) + i) - Len(s) = i
    BY <1>1
  <2> QED
    BY <1>2, <2>1
<1>4. ASSUME NEW i \in 1..Len(s) PROVE (s \o q)[i] = s[i]
  BY <1>1, <1>2
<1> QED
  BY <1>3, <1>4, ConcatProperties

(* The initial states. *)
LEMMA InitIInv == TrafficInit => IInv
<1> SUFFICES ASSUME TrafficInit PROVE IInv
  OBVIOUS
<1> DEFINE c0 == [at |-> "idle", pos |-> 0, ret |-> 0, err |-> 0, own |-> 0, stray |-> "no", told |-> 0]
<1>1. CallOK(c0)
  BY TrafficAssumption DEF CallOK, Call
<1>2. CallsOK
  BY <1>1 DEF TrafficInit, CallsOK, CallOK
<1>3. stream = <<>> /\ taken = 0 /\ stream \in Seq(Sender \X Nat) /\ Len(stream) = 0
  BY DEF TrafficInit
<1>4. TrafficTypeOK
  BY <1>2, <1>3 DEF TrafficInit, TrafficTypeOK, CallsOK
<1>5. StreamOK /\ SentOnce
  BY <1>3 DEF StreamOK, SentOnce
<1> QED
  BY <1>2, <1>4, <1>5 DEF IInv

-----------------------------------------------------------------------------
(* Steps that change one call and leave the stream alone.                   *)

(* Such a step keeps the invariant if the call is still right and no lower. *)
LEMMA CallStep ==
  ASSUME IInv, NEW t \in Sender, NEW d,
         call' = [call EXCEPT ![t] = d], CallOK(d),
         d.at # "raised" => call[t].at # "raised" /\ Upto(call[t], width) <= Upto(d, width),
         UNCHANGED <<stream, taken, blocking, width, nbytes>>
  PROVE  IInv'
<1>1. d \in Call /\ call' \in [Sender -> Call]
  BY DEF IInv, CallsOK, CallOK
<1>2. ASSUME NEW u \in Sender PROVE CallOK(call[u])'
  <2>1. CallOK(call'[u])
    BY <1>1 DEF IInv, CallsOK
  <2> QED
    BY <2>1 DEF CallOK
<1>3. CallsOK'
  BY <1>1, <1>2 DEF CallsOK
<1>4. TrafficTypeOK'
  BY <1>1 DEF IInv, TrafficTypeOK
<1>5. SentOnce'
  BY DEF IInv, SentOnce
<1>6. StreamOK'
  <2> SUFFICES ASSUME NEW i \in DOMAIN stream, call'[stream[i][1]].at # "raised"
               PROVE  stream[i][2] < Upto(call'[stream[i][1]], width)
    BY DEF StreamOK
  <2>1. stream[i] \in Sender \X Nat
    BY DEF IInv, TrafficTypeOK
  <2>2. CASE stream[i][1] # t
    <3>1. call'[stream[i][1]] = call[stream[i][1]]
      BY <2>1, <2>2 DEF IInv, TrafficTypeOK
    <3> QED
      BY <3>1 DEF IInv, StreamOK, Upto
  <2>3. CASE stream[i][1] = t
    <3>1. call'[t] = d
      BY DEF IInv, TrafficTypeOK
    <3>2. stream[i][2] < Upto(call[t], width)
      BY <2>3, <3>1 DEF IInv, StreamOK
    <3>3. Upto(call[t], width) \in Int /\ Upto(d, width) \in Int
      <4>1. call[t] \in Call /\ width \in Nat \ {0}
        BY TrafficAssumption DEF IInv, TrafficTypeOK
      <4> QED
        BY <1>1, <4>1, TrafficAssumption DEF Upto, Call
    <3> QED
      BY <2>1, <2>3, <3>1, <3>2, <3>3
  <2> QED
    BY <2>2, <2>3
<1> QED
  BY <1>3, <1>4, <1>5, <1>6 DEF IInv

(* The types a step starts from. *)
LEMMA Typed ==
  ASSUME IInv, NEW t \in Sender
  PROVE  /\ call[t] \in Call /\ CallOK(call[t])
         /\ width \in Nat \ {0} /\ Items \in Nat
         /\ stream \in Seq(Sender \X Nat)
BY TrafficAssumption DEF IInv, CallsOK, TrafficTypeOK

LEMMA SendallBeginStep == ASSUME IInv, NEW t \in Sender, SendallBegin(t) PROVE IInv'
<1> DEFINE d == [call[t] EXCEPT !.at = "loop"]
<1>1. call' = [call EXCEPT ![t] = d] /\ UNCHANGED <<stream, taken, blocking, width, nbytes>>
  BY DEF SendallBegin, OnlyCall
<1>2. CallOK(d) /\ call[t].at # "raised"
  BY Typed DEF SendallBegin, CallOK, Call
<1>3. Upto(call[t], width) <= Upto(d, width)
  BY Typed DEF SendallBegin, Upto, Call
<1> QED
  BY <1>1, <1>2, <1>3, CallStep

LEMMA SendallDoneStep == ASSUME IInv, NEW t \in Sender, SendallDone(t) PROVE IInv'
<1> DEFINE d == [call[t] EXCEPT !.at = "done"]
<1>1. call' = [call EXCEPT ![t] = d] /\ UNCHANGED <<stream, taken, blocking, width, nbytes>>
  BY DEF SendallDone, OnlyCall
<1>2. CallOK(d) /\ call[t].at # "raised"
  BY Typed DEF SendallDone, CallOK, Call
<1>3. Upto(call[t], width) <= Upto(d, width)
  BY Typed DEF SendallDone, Upto, Call
<1> QED
  BY <1>1, <1>2, <1>3, CallStep

LEMMA FinalizeStep == ASSUME IInv, NEW t \in Sender, Finalize(t) PROVE IInv'
<1> DEFINE d == [call[t] EXCEPT !.err = EBADF, !.stray = IF call[t].at = "loop" THEN call[t].stray ELSE "yes"]
<1>1. call' = [call EXCEPT ![t] = d] /\ UNCHANGED <<stream, taken, blocking, width, nbytes>>
  BY Typed DEF Finalize, OnlyCall
<1>2. CallOK(d) /\ call[t].at # "raised"
  BY Typed DEF Finalize, CallOK, Call
<1>3. Upto(call[t], width) <= Upto(d, width)
  BY Typed DEF Finalize, Upto, Call
<1> QED
  BY <1>1, <1>2, <1>3, CallStep

LEMMA SendBeginStep == ASSUME IInv, NEW t \in Sender, SendBegin(t) PROVE IInv'
<1>0. call[t].at = "loop" /\ UNCHANGED <<stream, taken, blocking, width, nbytes>>
  BY DEF SendBegin, OnlyCall
<1>1. CASE RefusesCall(call[t].err)
  <2> DEFINE d == [call[t] EXCEPT !.at = "raised"]
  <2>1. call' = [call EXCEPT ![t] = d]
    BY <1>1, Typed DEF SendBegin
  <2>2. d \in Call /\ d.at = "raised" /\ d.ret >= 0
    BY <1>0, Typed DEF CallOK, Call
  <2>3. ~(d.ret < 0)
    BY <2>2, SMT DEF Call
  <2>4. WarningsAreErrors
    BY <1>1 DEF RefusesCall
  <2>5. CallOK(d)
    BY <2>2, <2>3, <2>4, Zenon DEF CallOK
  <2> QED
    BY <1>0, <2>1, <2>2, <2>5, CallStep
<1>2. CASE ~RefusesCall(call[t].err)
  <2> DEFINE d == [call[t] EXCEPT !.at = "cleared", !.err = 0, !.own = 0, !.stray = "no"]
  <2>1. call' = [call EXCEPT ![t] = d]
    BY <1>2, Typed DEF SendBegin
  <2>2. CallOK(d)
    BY <1>0, Typed DEF CallOK, Call
  <2>3. Upto(call[t], width) <= Upto(d, width)
    BY <1>0, Typed DEF Upto, Call
  <2> QED
    BY <1>0, <2>1, <2>2, <2>3, CallStep
<1> QED
  BY <1>1, <1>2

LEMMA SendCheckStep == ASSUME IInv, NEW t \in Sender, SendCheck(t) PROVE IInv'
<1>0. call[t].at = "returned" /\ UNCHANGED <<stream, taken, blocking, width, nbytes>>
  BY DEF SendCheck, OnlyCall
<1> DEFINE outcome == Outcome(call[t].ret, call[t].err)
<1>1. CASE outcome = "ok"
  <2> DEFINE d == [call[t] EXCEPT !.at = "loop", !.err = 0, !.pos = call[t].pos + call[t].ret]
  <2>1. call' = [call EXCEPT ![t] = d]
    BY <1>1, Typed DEF SendCheck, Rest
  <2>2. call[t].ret >= 0
    BY <1>1, Typed DEF Outcome, Call
  <2>3. CallOK(d)
    <3>1. call[t].pos + call[t].ret \in 0..Items
      BY <1>0, <2>2, Typed DEF CallOK, Call
    <3>2. d \in Call /\ d.at = "loop" /\ d.ret = call[t].ret
      BY <3>1, Typed DEF Call
    <3> QED
      BY <2>2, <3>2 DEF CallOK
  <2>4. Upto(call[t], width) <= Upto(d, width)
    <3>1. call[t].pos \in Nat /\ call[t].ret \in Nat /\ width \in Nat \ {0}
      BY <2>2, Typed DEF Call
    <3>2. call[t].pos * width + call[t].ret <= (call[t].pos + call[t].ret) * width
      BY <3>1, Widen
    <3>3. call[t].pos * width \in Nat
      BY <3>1, Widen
    <3>4. Upto(call[t], width) = call[t].pos * width + call[t].ret
      BY <1>0, <3>1, <3>3 DEF Upto
    <3>5. Upto(d, width) = (call[t].pos + call[t].ret) * width
      <4>1. d.at = "loop" /\ d.pos = call[t].pos + call[t].ret
        BY Typed DEF Call
      <4>2. (call[t].pos + call[t].ret) * width \in Nat
        BY <3>1, Widen
      <4> QED
        BY <4>1, <4>2 DEF Upto
    <3> QED
      BY <3>2, <3>4, <3>5
  <2> QED
    BY <1>0, <2>1, <2>3, <2>4, CallStep
<1>2. CASE outcome # "ok"
  <2> DEFINE d == [call[t] EXCEPT !.at = "raised", !.err = 0,
                                  !.told = IF outcome = "OSError" THEN call[t].err ELSE 0]
  <2>1. call' = [call EXCEPT ![t] = d]
    BY <1>2, Typed DEF SendCheck
  <2>2. ~WarningsAreErrors => call[t].ret < 0
    BY <1>2, Typed DEF Outcome, Call
  <2>3. call[t].ret < 0 => d.told = call[t].err
    BY Typed DEF Outcome, Call
  <2>4. d \in Call
    BY Typed DEF Call
  <2>5. /\ d.at = "raised" /\ d.ret = call[t].ret
        /\ d.own = call[t].own /\ d.stray = call[t].stray
    BY Typed DEF Call
  <2>6. CallOK(d)
    BY <1>0, <2>2, <2>3, <2>4, <2>5, Typed DEF CallOK
  <2> QED
    BY <1>0, <2>1, <2>5, <2>6, CallStep
<1> QED
  BY <1>1, <1>2

-----------------------------------------------------------------------------
(* The native call.                                                         *)

(* What a send of k bytes appends to the stream.                            *)
LEMMA SentStream ==
  ASSUME IInv, NEW t \in Sender, NEW k \in Nat, stream' = stream \o Piece(t, k),
         call[t].pos * width \in Nat
  PROVE  /\ stream' \in Seq(Sender \X Nat) /\ Len(stream') = Len(stream) + k
         /\ \A i \in 1..Len(stream) : stream'[i] = stream[i]
         /\ \A i \in (Len(stream) + 1)..(Len(stream) + k) :
              stream'[i] = <<t, call[t].pos * width + (i - Len(stream)) - 1>>
<1> DEFINE base == call[t].pos * width
<1>1. stream' = stream \o Piece(t, k)
  OBVIOUS
<1>2. k \in Nat /\ base \in Nat
  OBVIOUS
<1>4. /\ Piece(t, k) \in Seq(Sender \X Nat) /\ Len(Piece(t, k)) = k
      /\ \A i \in 1..k : Piece(t, k)[i] = <<t, base + i - 1>>
  <2>1. Piece(t, k) = [i \in 1..k |-> <<t, base + i - 1>>]
    BY DEF Piece
  <2> HIDE DEF base
  <2>2. \A i \in 1..k : <<t, base + i - 1>> \in Sender \X Nat
    BY <1>2
  <2>3. [i \in 1..k |-> <<t, base + i - 1>>] \in [1..k -> Sender \X Nat]
    BY <2>2
  <2>4. Piece(t, k) \in Seq(Sender \X Nat) /\ Len(Piece(t, k)) = k
    BY <1>2, <2>1, <2>3, FunctionIsSeq
  <2> QED
    BY <2>1, <2>4
<1>5. /\ stream' \in Seq(Sender \X Nat) /\ Len(stream') = Len(stream) + k
      /\ \A i \in 1..Len(stream) : stream'[i] = stream[i]
      /\ \A i \in (Len(stream) + 1)..(Len(stream) + k) : stream'[i] = <<t, base + (i - Len(stream)) - 1>>
  <2>1. stream \in Seq(Sender \X Nat) /\ Len(stream) \in Nat
    BY Typed
  <2> DEFINE q == Piece(t, k)
  <2>0. q \in Seq(Sender \X Nat) /\ Len(q) = k /\ stream' = stream \o q
    BY <1>1, <1>4
  <2> HIDE DEF q, base
  <2>2. /\ stream' \in Seq(Sender \X Nat) /\ Len(stream') = Len(stream) + k
        /\ \A i \in 1..Len(stream) : stream'[i] = stream[i]
        /\ \A i \in 1..k : stream'[Len(stream) + i] = q[i]
    <3> DEFINE S == Sender \X Nat
    <3>1. stream \in Seq(S) /\ q \in Seq(S)
      BY <2>0, <2>1
    <3> HIDE DEF S
    <3>2. /\ stream \o q \in Seq(S)
          /\ Len(stream \o q) = Len(stream) + Len(q)
          /\ \A i \in 1..Len(stream) : (stream \o q)[i] = stream[i]
          /\ \A i \in 1..Len(q) : (stream \o q)[Len(stream) + i] = q[i]
      BY <3>1, Appended
    <3> QED
      BY <2>0, <3>2 DEF S
  <2>3. ASSUME NEW i \in (Len(stream) + 1)..(Len(stream) + k)
        PROVE  stream'[i] = <<t, base + (i - Len(stream)) - 1>>
    <3>1. i - Len(stream) \in 1..k
      BY <1>2, <2>1
    <3>2. stream'[i] = q[i - Len(stream)]
      <4>1. Len(stream) + (i - Len(stream)) = i
        BY <2>1
      <4> QED
        BY <2>2, <3>1, <4>1
    <3> QED
      BY <1>4, <3>1, <3>2 DEF q
  <2> QED
    BY <2>2, <2>3
<1> QED
  BY <1>5

LEMMA SentStep ==
  ASSUME IInv, NEW t \in Sender, call[t].at = "cleared",
         NEW k \in 0..(Items - call[t].pos), NEW ret \in -1..Items, NEW e \in {0, EAGAIN, ECONNRESET},
         Sent(t, k, ret, e), ret > 0 => ret = k, k > 0 => ret = k,
         UNCHANGED <<taken, blocking, width, nbytes>>
  PROVE  IInv'
<1> DEFINE d == [call[t] EXCEPT !.at = "returned", !.ret = ret, !.own = e, !.err = IF e = 0 THEN call[t].err ELSE e]
<1> DEFINE base == call[t].pos * width
<1>1. call' = [call EXCEPT ![t] = d] /\ stream' = stream \o Piece(t, k)
  BY Typed DEF Sent
<1>2. k \in Nat /\ base \in Nat /\ call[t].pos \in Nat /\ width \in Nat \ {0}
  BY Typed, Widen DEF Call
<1>3. CallOK(d)
  <2>1. d \in Call
    BY Typed DEF Call
  <2>2. /\ d.at = "returned" /\ d.ret = ret /\ d.pos = call[t].pos /\ d.own = e
        /\ d.stray = call[t].stray /\ d.err = IF e = 0 THEN call[t].err ELSE e
    BY Typed DEF Call
  <2>3. ret <= Items - call[t].pos
    BY Typed DEF Call
  <2> QED
    BY <2>1, <2>2, <2>3, Typed DEF CallOK
<1>4. CallsOK'
  <2>1. call' \in [Sender -> Call]
    BY <1>1, <1>3 DEF IInv, CallsOK, CallOK
  <2>2. \A u \in Sender : CallOK(call'[u])
    BY <1>1, <1>3 DEF IInv, CallsOK
  <2> QED
    BY <2>1, <2>2 DEF CallsOK
<1>6. /\ stream' \in Seq(Sender \X Nat) /\ Len(stream') = Len(stream) + k
      /\ \A i \in 1..Len(stream) : stream'[i] = stream[i]
      /\ \A i \in (Len(stream) + 1)..(Len(stream) + k) : stream'[i] = <<t, base + (i - Len(stream)) - 1>>
  BY <1>1, <1>2, SentStream
<1>7. TrafficTypeOK'
  BY <1>2, <1>4, <1>6, Typed DEF IInv, TrafficTypeOK, CallsOK
<1>8. Upto(call[t], width) = base /\ Upto(d, width) >= base + k /\ Upto(d, width) \in Int
  <2>1. d.at = "returned" /\ d.ret = ret /\ d.pos = call[t].pos
    BY Typed DEF Call
  <2> QED
    BY <1>2, <2>1 DEF Upto
<1> HIDE DEF base, d
<1>9. DOMAIN stream = 1..Len(stream) /\ Len(stream) \in Nat /\ DOMAIN stream' = 1..Len(stream')
  BY <1>6, Typed
<1>10. ASSUME NEW i \in DOMAIN stream', i > Len(stream)
       PROVE  stream'[i] = <<t, base + (i - Len(stream)) - 1>>
  <2>1. i \in 1..(Len(stream) + k)
    BY <1>6, <1>9
  <2>2. i \in (Len(stream) + 1)..(Len(stream) + k)
    BY <1>2, <1>9, <1>10, <2>1
  <2> QED
    BY <1>6, <2>2
<1>11. \A i \in DOMAIN stream : stream[i] \in Sender \X Nat /\ stream[i][1] \in Sender /\ stream[i][2] \in Nat
  BY Typed
<1>12. call'[t] = d /\ \A u \in Sender : u # t => call'[u] = call[u]
  BY <1>1 DEF IInv, TrafficTypeOK
<1>13. \A i \in DOMAIN stream : stream[i][1] = t => stream[i][2] < base
  BY <1>8 DEF IInv, StreamOK
<1>14. StreamOK'
  <2> SUFFICES ASSUME NEW i \in DOMAIN stream', call'[stream'[i][1]].at # "raised"
               PROVE  stream'[i][2] < Upto(call'[stream'[i][1]], width)
    BY DEF StreamOK
  <2>1. CASE i <= Len(stream) /\ stream[i][1] = t
    BY <1>2, <1>6, <1>8, <1>9, <1>11, <1>12, <1>13, <2>1
  <2>2. CASE i <= Len(stream) /\ stream[i][1] # t
    <3>1. i \in DOMAIN stream /\ stream'[i] = stream[i]
      BY <1>6, <1>9, <2>2
    <3>2. call'[stream[i][1]] = call[stream[i][1]]
      BY <1>11, <1>12, <2>2, <3>1
    <3> QED
      BY <3>1, <3>2 DEF IInv, StreamOK
  <2>3. CASE i > Len(stream)
    <3>1. stream'[i] = <<t, base + (i - Len(stream)) - 1>>
      BY <1>10, <2>3
    <3>2. stream'[i][1] = t /\ stream'[i][2] = base + (i - Len(stream)) - 1
      BY <3>1
    <3> QED
      BY <1>2, <1>6, <1>8, <1>9, <1>12, <2>3, <3>2
  <2> QED
    BY <1>9, <2>1, <2>2, <2>3
<1>15. SentOnce'
  <2> SUFFICES ASSUME NEW i \in DOMAIN stream', NEW j \in DOMAIN stream',
                      i < j, stream'[i][1] = stream'[j][1]
               PROVE  stream'[i][2] < stream'[j][2]
    BY DEF SentOnce
  <2>1. CASE j <= Len(stream)
    <3>1. /\ i \in DOMAIN stream /\ j \in DOMAIN stream
          /\ stream'[i] = stream[i] /\ stream'[j] = stream[j]
      BY <1>6, <1>9, <2>1
    <3> QED
      BY <3>1 DEF IInv, SentOnce
  <2>2. CASE j > Len(stream)
    <3>1. stream'[j] = <<t, base + (j - Len(stream)) - 1>>
      BY <1>10, <2>2
    <3>2. stream'[j][1] = t /\ stream'[j][2] = base + (j - Len(stream)) - 1
      BY <3>1
    <3>3. CASE i <= Len(stream)
      <4>1. i \in DOMAIN stream /\ stream'[i] = stream[i] /\ stream[i][1] = t
        BY <1>6, <1>9, <3>2, <3>3
      <4> QED
        BY <1>2, <1>6, <1>9, <1>11, <1>13, <2>2, <3>2, <4>1
    <3>4. CASE i > Len(stream)
      <4>1. stream'[i] = <<t, base + (i - Len(stream)) - 1>>
        BY <1>10, <3>4
      <4>2. stream'[i][2] = base + (i - Len(stream)) - 1
        BY <4>1
      <4> QED
        BY <1>2, <1>9, <3>2, <4>2
    <3> QED
      BY <1>9, <3>3, <3>4
  <2> QED
    BY <1>9, <2>1, <2>2
<1> QED
  BY <1>4, <1>7, <1>14, <1>15 DEF IInv

(* What lwip_send took, returned and set.                                   *)
LEMMA SendCases ==
  ASSUME IInv, NEW t \in Sender, NativeSend(t) \/ SendFails(t)
  PROVE  /\ call[t].at = "cleared" /\ UNCHANGED <<taken, blocking, width, nbytes>>
         /\ \E k \in 0..(Items - call[t].pos), ret \in -1..Items, e \in {0, EAGAIN, ECONNRESET} :
              Sent(t, k, ret, e) /\ (ret > 0 => ret = k) /\ (k > 0 => ret = k)
<1>1. /\ call[t].at = "cleared" /\ UNCHANGED <<taken, blocking, width, nbytes>>
      /\ call[t].pos \in 0..Items
  BY Typed DEF NativeSend, SendFails, Call
<1>2. CASE \E k \in 1..(Items - call[t].pos) : Sent(t, k, k, 0)
  <2>1. PICK k \in 1..(Items - call[t].pos) : Sent(t, k, k, 0)
    BY <1>2
  <2>2. k \in 0..(Items - call[t].pos) /\ k \in -1..Items
    BY <1>1, Typed
  <2> QED
    BY <1>1, <2>1, <2>2
<1>3. CASE \E e \in {0, EAGAIN, ECONNRESET} : Sent(t, 0, -1, e)
  <2>1. 0 \in 0..(Items - call[t].pos) /\ -1 \in -1..Items
    BY <1>1, Typed
  <2>2. -1 <= 0 /\ ~(0 > 0)
    OBVIOUS
  <2> QED
    BY <1>1, <1>3, <2>1, <2>2
<1> QED
  BY <1>2, <1>3 DEF NativeSend, SendFails

LEMMA NativeSendStep == ASSUME IInv, NEW t \in Sender, NativeSend(t) \/ SendFails(t) PROVE IInv'
<1>1. PICK k \in 0..(Items - call[t].pos), ret \in -1..Items, e \in {0, EAGAIN, ECONNRESET} :
        Sent(t, k, ret, e) /\ (ret > 0 => ret = k) /\ (k > 0 => ret = k)
  BY SendCases
<1> QED
  BY <1>1, SendCases, SentStep

-----------------------------------------------------------------------------
(* The invariant.                                                           *)

LEMMA NextIInv == IInv /\ [TrafficNext]_allVars => IInv'
<1> SUFFICES ASSUME IInv, [TrafficNext]_allVars PROVE IInv'
  OBVIOUS
<1>1. CASE UNCHANGED dataVars
  BY <1>1 DEF dataVars, IInv, TrafficTypeOK, CallsOK, StreamOK, SentOnce
<1>2. ASSUME NEW t \in Sender, SendallBegin(t) \/ Sendall(t) \/ SendFails(t) \/ Finalize(t) PROVE IInv'
  BY <1>2, SendallBeginStep, SendallDoneStep, SendBeginStep, NativeSendStep, SendCheckStep, FinalizeStep
  DEF Sendall
<1>3. ASSUME NEW mode \in {"blocking", "nonblocking"}, SetMode(mode) PROVE IInv'
  BY <1>3 DEF SetMode, IInv, TrafficTypeOK, CallsOK, StreamOK, SentOnce
<1>4. ASSUME RecvInto PROVE IInv'
  <2>1. PICK k \in 1..Wanted : k <= Len(stream) - taken /\ taken' = taken + k
    BY <1>4 DEF RecvInto
  <2>2. k \in Nat
    <3>1. Wanted \in Int
      BY TrafficAssumption DEF IInv, TrafficTypeOK, Wanted
    <3> QED
      BY <3>1
  <2>3. taken' \in 0..Len(stream)
    BY <2>1, <2>2 DEF IInv, TrafficTypeOK
  <2>4. UNCHANGED <<call, stream, blocking, width, nbytes>>
    BY <1>4 DEF RecvInto
  <2> QED
    BY <2>3, <2>4 DEF IInv, TrafficTypeOK, CallsOK, StreamOK, SentOnce
<1> QED
  BY <1>1, <1>2, <1>3, <1>4 DEF TrafficNext, Data, allVars

(* The inductive invariant of the data methods. *)
THEOREM Invariant == TrafficSpec => []IInv
BY InitIInv, NextIInv, PTL DEF TrafficSpec

(* Every state of the data methods is well typed: sendall never cuts off more than it has. *)
THEOREM TypeCorrect == TrafficSpec => []TrafficTypeOK
<1>1. IInv => TrafficTypeOK
  BY DEF IInv
<1> QED
  BY <1>1, Invariant, PTL

(* No byte is sent twice or after a later one, for any width of items and any partial sends. *)
THEOREM SendsOnce == TrafficSpec => []SentOnce
<1>1. IInv => SentOnce
  BY DEF IInv
<1> QED
  BY <1>1, Invariant, PTL

(* sendall raises just when its native call failed, if warnings are printed. *)
THEOREM RaisesOnFailure == TrafficSpec => []RaisedIsFailed
<1>1. IInv => RaisedIsFailed
  <2> SUFFICES ASSUME IInv, ~WarningsAreErrors, NEW t \in Sender
               PROVE  /\ call[t].at = "raised" => call[t].ret < 0
                      /\ call[t].at \in {"loop", "done"} => call[t].ret >= 0
    BY DEF RaisedIsFailed
  <2> QED
    BY Typed DEF CallOK
<1> QED
  BY <1>1, Invariant, PTL

(* The errno of an OSError is that of the call, unless a finalizer failed in between. *)
THEOREM ErrnoTold == TrafficSpec => []ErrorIsOwn
<1>1. IInv => ErrorIsOwn
  BY Typed DEF ErrorIsOwn, CallOK
<1> QED
  BY <1>1, Invariant, PTL

-----------------------------------------------------------------------------
(* sendall in full.                                                         *)

Has(t, c) == \E j \in DOMAIN stream : stream[j] = <<t, c>>

(* With items of one byte: what lies before a byte that was taken was taken *)
(* too, and a sendall that has not raised has handed over all it cut off.   *)
FullInv ==
  width = 1 =>
    \A t \in Sender :
      /\ \A i \in DOMAIN stream : stream[i][1] = t => \A c \in 0..stream[i][2] : Has(t, c)
      /\ call[t].at # "raised" => \A c \in 0..(Upto(call[t], 1) - 1) : Has(t, c)
      /\ call[t].at = "done" => call[t].pos = Items

(* A step that leaves the stream alone and promises no more of it.          *)
LEMMA FullCallStep ==
  ASSUME IInv, FullInv, NEW t \in Sender, NEW d,
         call' = [call EXCEPT ![t] = d],
         width = 1 /\ d.at # "raised" => call[t].at # "raised" /\ Upto(d, 1) = Upto(call[t], 1),
         d.at = "done" => d.pos = Items,
         UNCHANGED <<stream, width>>
  PROVE  FullInv'
<1> SUFFICES ASSUME width = 1, NEW u \in Sender
             PROVE  /\ \A i \in DOMAIN stream : stream[i][1] = u => \A c \in 0..stream[i][2] : Has(u, c)
                    /\ call'[u].at # "raised" => \A c \in 0..(Upto(call'[u], 1) - 1) : Has(u, c)
                    /\ call'[u].at = "done" => call'[u].pos = Items
  BY DEF FullInv, Has, Upto
<1>1. call'[t] = d /\ (u # t => call'[u] = call[u])
  BY DEF IInv, TrafficTypeOK
<1> QED
  BY <1>1 DEF FullInv

LEMMA FullQuiet ==
  ASSUME IInv, FullInv, NEW t \in Sender,
         \/ SendallBegin(t) \/ SendallDone(t) \/ SendBegin(t) \/ SendCheck(t) \/ Finalize(t)
  PROVE  FullInv'
<1>0. /\ call[t] \in Call /\ UNCHANGED <<stream, width>>
      /\ call[t].pos \in Nat /\ call[t].ret \in Int
  BY Typed DEF Call, SendallBegin, SendallDone, SendBegin, SendCheck, Finalize, OnlyCall
<1> DEFINE Quiet(d) ==
      /\ call' = [call EXCEPT ![t] = d]
      /\ width = 1 /\ d.at # "raised" => call[t].at # "raised" /\ Upto(d, 1) = Upto(call[t], 1)
      /\ d.at = "done" => d.pos = Items
<1>1. ASSUME NEW d, Quiet(d) PROVE FullInv'
  BY <1>0, <1>1, FullCallStep
<1> HIDE DEF Quiet
<1>2. CASE SendallBegin(t)
  <2> DEFINE d == [call[t] EXCEPT !.at = "loop"]
  <2>1. Quiet(d)
    BY <1>0, <1>2 DEF Quiet, SendallBegin, Upto, Call
  <2> QED
    BY <1>1, <2>1
<1>3. CASE SendallDone(t)
  <2> DEFINE d == [call[t] EXCEPT !.at = "done"]
  <2>1. Quiet(d)
    BY <1>0, <1>3 DEF Quiet, SendallDone, Upto, Call
  <2> QED
    BY <1>1, <2>1
<1>4. CASE Finalize(t)
  <2> DEFINE d == [call[t] EXCEPT !.err = EBADF, !.stray = IF call[t].at = "loop" THEN call[t].stray ELSE "yes"]
  <2>1. Quiet(d)
    BY <1>0, <1>4 DEF Quiet, Finalize, Upto, Call
  <2> QED
    BY <1>1, <2>1
<1>5. CASE SendBegin(t)
  <2>1. CASE RefusesCall(call[t].err)
    <3> DEFINE d == [call[t] EXCEPT !.at = "raised"]
    <3>1. call' = [call EXCEPT ![t] = d]
      BY <1>5, <2>1 DEF SendBegin
    <3>2. Quiet(d)
      BY <1>0, <3>1 DEF Quiet, Call
    <3> QED
      BY <1>1, <3>2
  <2>2. CASE ~RefusesCall(call[t].err)
    <3> DEFINE d == [call[t] EXCEPT !.at = "cleared", !.err = 0, !.own = 0, !.stray = "no"]
    <3>1. call' = [call EXCEPT ![t] = d] /\ call[t].at = "loop"
      BY <1>5, <2>2 DEF SendBegin
    <3>2. Quiet(d)
      BY <1>0, <3>1 DEF Quiet, Upto, Call
    <3> QED
      BY <1>1, <3>2
  <2> QED
    BY <2>1, <2>2
<1>6. CASE SendCheck(t)
  <2> DEFINE outcome == Outcome(call[t].ret, call[t].err)
  <2>1. CASE outcome = "ok"
    <3> DEFINE d == [call[t] EXCEPT !.at = "loop", !.err = 0, !.pos = call[t].pos + call[t].ret]
    <3>1. call' = [call EXCEPT ![t] = d] /\ call[t].at = "returned"
      BY <1>6, <2>1 DEF SendCheck, Rest
    <3>2. call[t].ret >= 0
      BY <1>0, <2>1 DEF Outcome
    <3>3. Upto(d, 1) = Upto(call[t], 1)
      BY <1>0, <3>1, <3>2 DEF Upto, Call
    <3>4. Quiet(d)
      BY <1>0, <3>1, <3>3 DEF Quiet, Call
    <3> QED
      BY <1>1, <3>4
  <2>2. CASE outcome # "ok"
    <3> DEFINE d == [call[t] EXCEPT !.at = "raised", !.err = 0,
                                    !.told = IF outcome = "OSError" THEN call[t].err ELSE 0]
    <3>1. call' = [call EXCEPT ![t] = d]
      BY <1>6, <2>2 DEF SendCheck
    <3>2. Quiet(d)
      BY <1>0, <3>1 DEF Quiet, Call
    <3> QED
      BY <1>1, <3>2
  <2> QED
    BY <2>1, <2>2
<1> QED
  BY <1>2, <1>3, <1>4, <1>5, <1>6

LEMMA FullSend == ASSUME IInv, FullInv, NEW t \in Sender, NativeSend(t) \/ SendFails(t) PROVE FullInv'
<1>1. PICK k \in 0..(Items - call[t].pos), ret \in -1..Items, e \in {0, EAGAIN, ECONNRESET} :
        Sent(t, k, ret, e) /\ (ret > 0 => ret = k) /\ (k > 0 => ret = k)
  BY SendCases
<1>2. call[t].at = "cleared" /\ width' = width
  BY SendCases
<1> SUFFICES ASSUME width = 1 PROVE FullInv'
  BY <1>2 DEF FullInv
<1> DEFINE pos == call[t].pos
           d == call'[t]
<1>3. k \in Nat /\ pos \in Nat /\ pos * width = pos /\ Len(stream) \in Nat
  <2>1. call[t] \in Call /\ Items \in Nat /\ stream \in Seq(Sender \X Nat)
    BY Typed
  <2> QED
    BY <2>1 DEF Call
<1>4. /\ d.at = "returned" /\ d.pos = pos /\ d.ret = ret
      /\ \A u \in Sender : u # t => call'[u] = call[u]
  BY <1>1, Typed DEF Sent, Call, IInv, TrafficTypeOK
<1>5. Upto(d, 1) = pos + k /\ Upto(call[t], 1) = pos
  BY <1>1, <1>2, <1>3, <1>4 DEF Upto
<1>6. /\ stream' \in Seq(Sender \X Nat) /\ Len(stream') = Len(stream) + k
      /\ \A i \in 1..Len(stream) : stream'[i] = stream[i]
      /\ \A i \in (Len(stream) + 1)..(Len(stream) + k) : stream'[i] = <<t, pos + (i - Len(stream)) - 1>>
  BY <1>1, <1>3, SentStream DEF Sent
<1> HIDE DEF pos, d
<1>7. DOMAIN stream = 1..Len(stream) /\ DOMAIN stream' = 1..(Len(stream) + k)
  BY <1>6, Typed
<1>8. ASSUME NEW u \in Sender, NEW c, Has(u, c) PROVE Has(u, c)'
  <2>1. PICK j \in DOMAIN stream : stream[j] = <<u, c>>
    BY <1>8 DEF Has
  <2>2. j \in DOMAIN stream' /\ stream'[j] = <<u, c>>
    BY <1>3, <1>6, <1>7, <2>1
  <2> QED
    BY <2>2 DEF Has
<1>9. ASSUME NEW c \in 0..(pos + k - 1) PROVE Has(t, c)'
  <2>1. CASE c < pos
    <3>1. c \in 0..(Upto(call[t], 1) - 1)
      BY <1>3, <1>5, <2>1
    <3>2. Has(t, c)
      BY <1>2, <3>1 DEF FullInv
    <3> QED
      BY <1>8, <3>2
  <2>2. CASE c >= pos
    <3> DEFINE j == Len(stream) + (c - pos) + 1
    <3>1. j \in (Len(stream) + 1)..(Len(stream) + k) /\ pos + (j - Len(stream)) - 1 = c
      BY <1>3, <2>2
    <3>2. j \in 1..(Len(stream) + k)
      BY <1>3, <3>1
    <3>3. stream'[j] = <<t, c>>
      BY <1>6, <3>1
    <3> QED
      BY <1>7, <3>2, <3>3 DEF Has
  <2> QED
    BY <1>3, <2>1, <2>2
<1>10. ASSUME NEW u \in Sender, NEW i \in DOMAIN stream', stream'[i][1] = u, NEW c \in 0..stream'[i][2]
       PROVE  Has(u, c)'
  <2>1. CASE i <= Len(stream)
    <3>1. i \in DOMAIN stream /\ stream'[i] = stream[i]
      BY <1>3, <1>6, <1>7, <2>1
    <3>2. Has(u, c)
      BY <1>10, <3>1 DEF FullInv
    <3> QED
      BY <1>8, <3>2
  <2>2. CASE i > Len(stream)
    <3>0. i \in (Len(stream) + 1)..(Len(stream) + k)
      BY <1>3, <1>7, <2>2
    <3>1. stream'[i] = <<t, pos + (i - Len(stream)) - 1>>
      BY <1>6, <3>0
    <3>2. u = t /\ stream'[i][2] = pos + (i - Len(stream)) - 1
      BY <1>10, <3>1
    <3>3. c \in 0..(pos + k - 1)
      BY <1>3, <1>7, <2>2, <3>2
    <3> QED
      BY <1>9, <3>2, <3>3
  <2> QED
    BY <1>3, <1>7, <2>1, <2>2
<1>11. ASSUME NEW u \in Sender
       PROVE  /\ call'[u].at # "raised" => \A c \in 0..(Upto(call'[u], 1) - 1) : Has(u, c)'
              /\ call'[u].at = "done" => call'[u].pos = Items
  <2>1. CASE u = t
    <3>1. call'[u].at # "done" /\ Upto(call'[u], 1) = pos + k
      BY <1>4, <1>5, <2>1 DEF d
    <3>2. \A c \in 0..(pos + k - 1) : Has(u, c)'
      BY <1>9, <2>1, Zenon
    <3> QED
      BY <1>3, <3>1, <3>2
  <2>2. CASE u # t
    <3>1. call'[u] = call[u]
      BY <1>4, <2>2
    <3>2. call[u].at # "raised" => \A c \in 0..(Upto(call[u], 1) - 1) : Has(u, c)'
      BY <1>8 DEF FullInv
    <3> QED
      BY <3>1, <3>2 DEF FullInv
  <2> QED
    BY <2>1, <2>2
<1> QED
  BY <1>2, <1>10, <1>11 DEF FullInv, Upto

LEMMA FullStep == IInv /\ FullInv /\ [TrafficNext]_allVars => FullInv'
<1> SUFFICES ASSUME IInv, FullInv, [TrafficNext]_allVars PROVE FullInv'
  OBVIOUS
<1>1. CASE UNCHANGED <<call, stream, width>>
  BY <1>1 DEF FullInv, Has, Upto
<1>2. ASSUME NEW t \in Sender, SendallBegin(t) \/ Sendall(t) \/ SendFails(t) \/ Finalize(t) PROVE FullInv'
  BY <1>2, FullQuiet, FullSend DEF Sendall
<1> QED
  BY <1>1, <1>2 DEF TrafficNext, Data, SetMode, RecvInto, dataVars, allVars

(***************************************************************************)
(* With items of one byte sendall hands lwIP its payload from the          *)
(* beginning and without a gap, whatever was sent at a time, and all of it *)
(* when it returns.                                                        *)
(***************************************************************************)
THEOREM SendsInFull == TrafficSpec => []SentInFull
<1>1. TrafficInit => FullInv
  <2> SUFFICES ASSUME TrafficInit PROVE FullInv
    OBVIOUS
  <2>1. DOMAIN stream = {} /\ \A t \in Sender : call[t].at = "idle" /\ call[t].pos = 0
    BY DEF TrafficInit
  <2> QED
    BY <2>1 DEF FullInv, Upto
<1>2. IInv /\ FullInv => SentInFull
  <2> SUFFICES ASSUME IInv, FullInv, width = 1, NEW t \in Sender
               PROVE  LET sent == {stream[i][2] : i \in {j \in DOMAIN stream : stream[j][1] = t}} IN
                      /\ \A b \in sent : \A c \in 0..b : c \in sent
                      /\ call[t].at = "done" => sent = 0..(Items - 1)
    BY DEF SentInFull
  <2> DEFINE sent == {stream[i][2] : i \in {j \in DOMAIN stream : stream[j][1] = t}}
  <2>1. \A c : Has(t, c) => c \in sent
    BY DEF Has
  <2>2. \A b \in sent : \A c \in 0..b : c \in sent
    BY <2>1 DEF FullInv
  <2>3. ASSUME call[t].at = "done" PROVE sent = 0..(Items - 1)
    <3>1. Upto(call[t], 1) = Items /\ call[t].at # "raised"
      BY <2>3, Typed DEF FullInv, Upto, Call
    <3>2. \A c \in 0..(Items - 1) : c \in sent
      BY <2>1, <3>1 DEF FullInv
    <3>3. ASSUME NEW i \in DOMAIN stream, stream[i][1] = t PROVE stream[i][2] \in 0..(Items - 1)
      <4>1. stream[i][2] < Items
        BY <3>1, <3>3 DEF IInv, StreamOK
      <4>2. stream[i][2] \in Nat /\ Items \in Nat
        BY <3>3, Typed
      <4> QED
        BY <4>1, <4>2
    <3>4. \A b \in sent : b \in 0..(Items - 1)
      BY <3>3
    <3> QED
      BY <3>2, <3>4
  <2> QED
    BY <2>2, <2>3
<1> QED
  BY <1>1, <1>2, InitIInv, NextIInv, FullStep, PTL DEF TrafficSpec

-----------------------------------------------------------------------------
(* What sendall waits for: the safety half of SendallEnds.                  *)

(* A send has something to send, and one that lwIP did not refuse sent some. *)
TurnOK(c) ==
  /\ c.at = "cleared" => c.pos < Items
  /\ c.at = "returned" => c.ret = -1 \/ c.ret >= 1

(* lwIP holds no more than its window. *)
TurnInv == Room >= 0 /\ \A t \in Sender : TurnOK(call[t])

(* The native call has room, or the reader has something to read and a buffer. *)
SendGoesOn ==
  LegalNBytes /\ BufLen > 0 =>
    \A t \in Sender : call[t].at = "cleared" =>
      call[t].pos < Items /\ (Room >= 1 \/ (taken < Len(stream) /\ Wanted >= 1))

(* A turn of the loop that comes to its end leaves less of the payload. *)
TurnShortens ==
  \A t \in Sender : call[t].at = "returned" /\ call'[t].at = "loop"
    => call'[t].pos > call[t].pos /\ call'[t].pos <= Items

LEMMA TurnStep ==
  ASSUME IInv, TurnInv, NEW t \in Sender, NEW d, call' = [call EXCEPT ![t] = d], TurnOK(d),
         Room' = Room \/ Room' >= 0
  PROVE  TurnInv'
<1>1. ASSUME NEW u \in Sender PROVE TurnOK(call[u])'
  <2>1. TurnOK(call'[u])
    BY DEF IInv, TrafficTypeOK, TurnInv
  <2> QED
    BY <2>1 DEF TurnOK
<1>2. Room' >= 0
  BY DEF TurnInv
<1> QED
  BY <1>1, <1>2 DEF TurnInv

(* The steps between native calls. *)
LEMMA TurnQuiet ==
  ASSUME IInv, TurnInv, NEW t \in Sender,
         SendallBegin(t) \/ SendallDone(t) \/ SendBegin(t) \/ SendCheck(t) \/ Finalize(t)
  PROVE  TurnInv'
<1>1. UNCHANGED <<stream, taken>>
  BY DEF SendallBegin, SendallDone, SendBegin, SendCheck, Finalize, OnlyCall
<1>2. Room' = Room
  BY <1>1 DEF Room
<1>3. call[t] \in Call /\ Items \in Nat /\ TurnOK(call[t])
  BY Typed DEF TurnInv
<1>4. CASE SendallBegin(t) \/ SendallDone(t)
  <2>1. PICK at \in {"loop", "done"} : call' = [call EXCEPT ![t] = [call[t] EXCEPT !.at = at]]
    BY <1>4, <1>3 DEF SendallBegin, SendallDone, Call
  <2>2. TurnOK([call[t] EXCEPT !.at = at])
    BY <1>3 DEF TurnOK, Call
  <2> QED
    BY <1>2, <2>1, <2>2, TurnStep
<1>5. CASE SendBegin(t)
  <2>1. call[t].at = "loop" /\ call[t].pos < Items
    BY <1>5 DEF SendBegin
  <2>2. CASE RefusesCall(call[t].err)
    <3>1. call' = [call EXCEPT ![t] = [call[t] EXCEPT !.at = "raised"]]
      BY <1>5, <2>2 DEF SendBegin
    <3>2. TurnOK([call[t] EXCEPT !.at = "raised"])
      BY <1>3 DEF TurnOK, Call
    <3> QED
      BY <1>2, <3>1, <3>2, TurnStep
  <2>3. CASE ~RefusesCall(call[t].err)
    <3>1. call' = [call EXCEPT ![t] = [call[t] EXCEPT !.at = "cleared", !.err = 0, !.own = 0, !.stray = "no"]]
      BY <1>5, <2>3 DEF SendBegin
    <3>2. TurnOK([call[t] EXCEPT !.at = "cleared", !.err = 0, !.own = 0, !.stray = "no"])
      BY <1>3, <2>1 DEF TurnOK, Call
    <3> QED
      BY <1>2, <3>1, <3>2, TurnStep
  <2> QED
    BY <2>2, <2>3
<1>6. CASE SendCheck(t)
  <2>1. PICK d : call' = [call EXCEPT ![t] = d] /\ d.at \in {"loop", "raised"}
    <3> DEFINE c == call[t]
               passed == [c EXCEPT !.at = "loop", !.err = 0, !.pos = Rest(c.pos, c.ret)]
               failed == [c EXCEPT !.at = "raised", !.err = 0,
                                   !.told = IF Outcome(c.ret, c.err) = "OSError" THEN c.err ELSE 0]
    <3>1. call' = [call EXCEPT ![t] = IF Outcome(c.ret, c.err) = "ok" THEN passed ELSE failed]
      BY <1>6 DEF SendCheck
    <3>2. passed.at = "loop" /\ failed.at = "raised"
      BY <1>3 DEF Call
    <3> HIDE DEF passed, failed
    <3> QED
      BY <3>1, <3>2
  <2>2. TurnOK(d)
    BY <2>1 DEF TurnOK
  <2> QED
    BY <1>2, <2>1, <2>2, TurnStep
<1>7. CASE Finalize(t)
  <2> DEFINE d == [call[t] EXCEPT !.err = EBADF, !.stray = IF call[t].at = "loop" THEN call[t].stray ELSE "yes"]
  <2>1. call' = [call EXCEPT ![t] = d]
    BY <1>7 DEF Finalize
  <2>2. TurnOK(d)
    BY <1>3 DEF TurnOK, Call
  <2> QED
    BY <1>2, <2>1, <2>2, TurnStep
<1> QED
  BY <1>4, <1>5, <1>6, <1>7

(* The native call fills the window at most. *)
LEMMA TurnSend ==
  ASSUME IInv, TurnInv, NEW t \in Sender, NativeSend(t) \/ SendFails(t)
  PROVE  TurnInv'
<1>0. call[t] \in Call /\ Items \in Nat /\ taken' = taken
  BY Typed DEF NativeSend, SendFails
<1>1. PICK k \in Nat, ret \in Int, e \in {0, EAGAIN, ECONNRESET} :
        Sent(t, k, ret, e) /\ k <= Room /\ (ret = -1 \/ ret >= 1)
  <2>1. Room \in Int /\ Room >= 0
    BY TrafficAssumption, Typed DEF Room, IInv, TrafficTypeOK, TurnInv
  <2>2. CASE \E k \in 1..(Items - call[t].pos) : k <= Room /\ Sent(t, k, k, 0)
    <3>1. PICK k \in 1..(Items - call[t].pos) : k <= Room /\ Sent(t, k, k, 0)
      BY <2>2
    <3>2. k \in Nat /\ k \in Int /\ k >= 1
      BY <1>0 DEF Call
    <3> QED
      BY <3>1, <3>2
  <2>3. CASE \E e \in {0, EAGAIN, ECONNRESET} : Sent(t, 0, -1, e)
    <3>1. 0 \in Nat /\ -1 \in Int /\ 0 <= Room
      BY <2>1
    <3> QED
      BY <2>3, <3>1
  <2> QED
    BY <2>2, <2>3 DEF NativeSend, SendFails
<1> DEFINE d == [call[t] EXCEPT !.at = "returned", !.ret = ret, !.own = e,
                                !.err = IF e = 0 THEN call[t].err ELSE e]
<1>2. call' = [call EXCEPT ![t] = d] /\ stream' = stream \o Piece(t, k)
  BY <1>1 DEF Sent
<1>3. TurnOK(d)
  BY <1>0, <1>1 DEF TurnOK, Call
<1>4. Room' >= 0
  <2>1. call[t].pos * width \in Nat
    <3>1. call[t].pos \in Nat /\ width \in Nat \ {0}
      BY <1>0, Typed DEF Call
    <3> QED
      BY <3>1, Widen
  <2>2. Len(stream') = Len(stream) + k
    BY <1>2, <2>1, SentStream
  <2>3. Window \in Nat /\ Len(stream) \in Nat /\ taken \in Int
    BY TrafficAssumption, Typed DEF IInv, TrafficTypeOK
  <2>4. Window - ((Len(stream) + k) - taken) >= 0
    BY <1>1, <2>3 DEF Room
  <2> QED
    BY <1>0, <2>2, <2>4 DEF Room
<1> HIDE DEF d
<1> QED
  BY <1>2, <1>3, <1>4, TurnStep

LEMMA TurnNext == IInv /\ TurnInv /\ [TrafficNext]_allVars => TurnInv'
<1> SUFFICES ASSUME IInv, TurnInv, [TrafficNext]_allVars PROVE TurnInv'
  OBVIOUS
<1>1. CASE UNCHANGED <<call, stream, taken>>
  BY <1>1 DEF TurnInv, TurnOK, Room
<1>2. ASSUME NEW t \in Sender, SendallBegin(t) \/ Sendall(t) \/ SendFails(t) \/ Finalize(t) PROVE TurnInv'
  BY <1>2, TurnQuiet, TurnSend DEF Sendall
<1>3. CASE RecvInto
  <2>1. PICK k \in 1..Wanted : taken' = taken + k
    BY <1>3 DEF RecvInto
  <2>2. k \in Int /\ k >= 1
    <3>1. Wanted \in Int
      BY TrafficAssumption DEF IInv, TrafficTypeOK, Wanted
    <3> QED
      BY <3>1
  <2>3. Window \in Nat /\ Len(stream) \in Nat /\ taken \in Int
    BY TrafficAssumption, LenProperties DEF IInv, TrafficTypeOK
  <2>4. Window - (Len(stream) - (taken + k)) >= 0
    BY <2>2, <2>3 DEF TurnInv, Room
  <2>5. Room' >= 0 /\ UNCHANGED call
    BY <1>3, <2>1, <2>4 DEF RecvInto, Room
  <2> QED
    BY <2>5 DEF TurnInv, TurnOK
<1> QED
  BY <1>1, <1>2, <1>3 DEF TrafficNext, Data, SetMode, dataVars, allVars

LEMMA TurnInit == TrafficInit => TurnInv
<1> SUFFICES ASSUME TrafficInit PROVE TurnInv
  OBVIOUS
<1>1. stream = <<>> /\ taken = 0 /\ Len(stream) = 0 /\ Window \in Nat
  BY TrafficAssumption DEF TrafficInit
<1>2. Room >= 0
  BY <1>1 DEF Room
<1>3. \A t \in Sender : call[t].at = "idle"
  BY DEF TrafficInit
<1> QED
  BY <1>2, <1>3 DEF TurnInv, TurnOK

(***************************************************************************)
(* What SendallEnds rests on: a native call that sendall is in has room to *)
(* take some of the payload, or the reader has something to read; so the   *)
(* two are never both stuck, if the reader has a buffer at all.            *)
(***************************************************************************)
THEOREM SendNotStuck == TrafficSpec => []SendGoesOn
<1>1. IInv /\ TurnInv => SendGoesOn
  <2> SUFFICES ASSUME IInv, TurnInv, LegalNBytes, BufLen > 0, NEW t \in Sender, call[t].at = "cleared"
               PROVE  call[t].pos < Items /\ (Room >= 1 \/ (taken < Len(stream) /\ Wanted >= 1))
    BY DEF SendGoesOn
  <2>1. call[t].pos < Items
    BY DEF TurnInv, TurnOK
  <2>2. Window \in Nat \ {0} /\ BufLen \in Nat /\ Len(stream) \in Nat /\ taken \in Int /\ nbytes \in Nat
    BY TrafficAssumption, LenProperties DEF IInv, TrafficTypeOK, LegalNBytes
  <2>3. Wanted >= 1
    BY <2>2 DEF Wanted
  <2>4. Room >= 1 \/ taken < Len(stream)
    BY <2>2 DEF Room
  <2> QED
    BY <2>1, <2>3, <2>4
<1> QED
  BY <1>1, InitIInv, NextIInv, TurnInit, TurnNext, PTL DEF TrafficSpec

(***************************************************************************)
(* sendall does not turn on the spot: each send that check_ret_errno lets  *)
(* pass took some of the payload, so there are at most Items of them.      *)
(***************************************************************************)
THEOREM EachTurnShortens == TrafficSpec => [][TurnShortens]_allVars
<1>1. IInv /\ TurnInv /\ [TrafficNext]_allVars => [TurnShortens]_allVars
  <2> SUFFICES ASSUME IInv, TurnInv, [TrafficNext]_allVars, NEW t \in Sender,
                      call[t].at = "returned", call'[t].at = "loop"
               PROVE  call'[t].pos > call[t].pos /\ call'[t].pos <= Items
    BY DEF TurnShortens
  <2>1. call[t] \in Call /\ CallOK(call[t]) /\ TurnOK(call[t]) /\ Items \in Nat
    BY Typed DEF TurnInv
  <2>2. call' # call /\ (\E u \in Sender : SendallBegin(u) \/ Sendall(u) \/ SendFails(u) \/ Finalize(u))
    BY DEF TrafficNext, Data, SetMode, RecvInto, dataVars, allVars
  <2>3. PICK u \in Sender : SendallBegin(u) \/ Sendall(u) \/ SendFails(u) \/ Finalize(u)
    BY <2>2
  <2>4. \A d : call' = [call EXCEPT ![u] = d] => u = t
    BY DEF IInv, TrafficTypeOK
  <2>5. u = t
    BY <2>3, <2>4 DEF SendallBegin, Sendall, SendallDone, SendBegin, NativeSend, SendFails, SendCheck,
                      Finalize, Sent
  <2>6. SendCheck(t)
    <3>1. ~SendallBegin(t) /\ ~SendallDone(t) /\ ~SendBegin(t) /\ ~NativeSend(t) /\ ~SendFails(t)
      BY DEF SendallBegin, SendallDone, SendBegin, NativeSend, SendFails
    <3>2. ASSUME Finalize(t) PROVE FALSE
      <4> DEFINE d == [call[t] EXCEPT !.err = EBADF,
                                      !.stray = IF call[t].at = "loop" THEN call[t].stray ELSE "yes"]
      <4>1. call'[t] = d
        BY <3>2 DEF Finalize, IInv, TrafficTypeOK
      <4>2. d.at = "returned"
        BY <2>1 DEF Call
      <4> QED
        BY <4>1, <4>2
    <3> QED
      BY <2>3, <2>5, <3>1, <3>2 DEF Sendall
  <2> DEFINE c == call[t]
             passed == [c EXCEPT !.at = "loop", !.err = 0, !.pos = Rest(c.pos, c.ret)]
             failed == [c EXCEPT !.at = "raised", !.err = 0,
                                 !.told = IF Outcome(c.ret, c.err) = "OSError" THEN c.err ELSE 0]
  <2>7. call' = [call EXCEPT ![t] = IF Outcome(c.ret, c.err) = "ok" THEN passed ELSE failed]
    BY <2>6 DEF SendCheck
  <2>8. failed.at = "raised" /\ passed.pos = c.pos + c.ret
    BY <2>1 DEF Call, Rest
  <2>9. call'[t] = passed /\ Outcome(c.ret, c.err) = "ok"
    <3>1. call'[t] = IF Outcome(c.ret, c.err) = "ok" THEN passed ELSE failed
      BY <2>7 DEF IInv, TrafficTypeOK
    <3> HIDE DEF passed, failed, c
    <3> QED
      BY <2>8, <3>1
  <2>10. ~(c.ret < 0)
    BY <2>9 DEF Outcome
  <2>11. c.ret >= 1 /\ c.ret <= Items - c.pos /\ c.pos \in Nat /\ c.ret \in Int
    BY <2>1, <2>10 DEF TurnOK, CallOK, Call
  <2> HIDE DEF passed, failed
  <2> QED
    BY <2>1, <2>8, <2>9, <2>11
<1> QED
  BY <1>1, InitIInv, NextIInv, TurnInit, TurnNext, PTL DEF TrafficSpec

-----------------------------------------------------------------------------
(* socketpair.                                                              *)

Paired == [client |-> "server", server |-> "client"]

(* The calls between which a socket is open, for each type of pair.         *)
Opened ==
  /\ type = "dgram" => sock["listen"] = "none" /\ pc \notin {"nonblock", "accept", "finally"}
  /\ type = "stream" => pc # "connect_back"
  /\ pc \in {"nonblock", "connect", "accept", "connect_back"} => sock["client"] = "open"
  /\ type = "dgram" /\ pc = "bind" => sock["client"] = "open"
  /\ type = "dgram" /\ pc \in {"client", "bind", "connect", "connect_back"} => sock["server"] = "open"
  /\ pc \in {"verify", "blocking", "returned"} => sock["client"] = "open" /\ sock["server"] = "open"
  /\ pc = "finally" => exc \/ (sock["client"] = "open" /\ sock["server"] = "open")

(* The finally clause has closed the listening socket before names are      *)
(* compared and before the handler; the handler closes what is open.        *)
Shut ==
  /\ pc \in {"verify", "blocking", "returned", "except_server", "except_client", "raised"}
       => sock["listen"] # "open"
  /\ pc = "except_client" => sock["server"] # "open"
  /\ pc = "raised" => \/ sock["server"] = "lost"
                      \/ sock["server"] # "open" /\ sock["client"] # "open"

PairInv ==
  /\ TypeOK /\ Opened /\ Shut
  /\ pc \in {"blocking", "returned"} => peer = Paired

LEMMA PairInit == Init => PairInv
<1> SUFFICES ASSUME Init PROVE PairInv
  OBVIOUS
<1>1. backlog \in Seq({"client"} \cup Rival)
  BY DEF Init
<1>2. TypeOK
  BY <1>1 DEF Init, TypeOK, Name
<1> QED
  BY <1>2 DEF Init, PairInv, Opened, Shut, Name

(* An exception leaves the sockets as they are.                             *)
LEMMA RaiseStep ==
  ASSUME PairInv, Raise, pc \notin {"except_server", "except_client", "returned", "raised"},
         errno' = ErrnoLeft(errno), UNCHANGED <<type, sock, peer, dialing, backlog>>
  PROVE  PairInv'
<1>1. /\ pc' \in {"finally", "except_server"} /\ exc' = TRUE
      /\ pc' = "finally" <=> sock["listen"] = "open"
  BY DEF Raise
<1>2. ErrnoLeft(errno) \in {0, ErrnoSet}
  BY DEF PairInv, TypeOK, ErrnoLeft
<1>3. TypeOK'
  BY <1>1, <1>2 DEF PairInv, TypeOK
<1>4. Opened' /\ Shut'
  BY <1>1 DEF PairInv, Opened, Shut
<1> QED
  BY <1>1, <1>3, <1>4 DEF PairInv

(* The step of a call that returns, told of the sockets and their peers.    *)
LEMMA TypeStep ==
  ASSUME PairInv,
         pc' \in {"open", "bind", "client", "nonblock", "connect", "accept", "finally", "connect_back",
                  "verify", "blocking", "except_server", "except_client", "returned", "raised"},
         exc' \in BOOLEAN, sock' \in [Name -> {"none", "open", "closed", "lost"}],
         peer' \in [{"client", "server"} -> {"client", "server", Nobody} \cup Rival],
         dialing' \in {"no", "started", "refused", "done"},
         backlog' \in Seq({"client"} \cup Rival),
         errno' \in {errno, ErrnoLeft(errno), ErrnoSet}, type' = type
  PROVE  TypeOK'
<1>1. errno' \in {0, ErrnoSet}
  BY DEF PairInv, TypeOK, ErrnoLeft
<1> QED
  BY <1>1 DEF PairInv, TypeOK

(* The try statement, but for the exceptions.                               *)
LEMMA BodyStep ==
  ASSUME PairInv, UNCHANGED <<type, exc>>,
         \/ /\ pc = "open" /\ CallReturns(IF type = "stream" THEN "bind" ELSE "client") /\ OpenSocket(Bound)
            /\ UNCHANGED <<peer, dialing, backlog>>
         \/ /\ pc = "bind" /\ CallReturns(IF type = "stream" THEN "client" ELSE "connect")
            /\ UNCHANGED <<sock, peer, dialing, backlog>>
         \/ /\ pc = "client" /\ CallReturns(IF type = "stream" THEN "nonblock" ELSE "bind")
            /\ OpenSocket("client") /\ UNCHANGED <<peer, dialing, backlog>>
         \/ /\ pc = "nonblock" /\ CallReturns("connect") /\ UNCHANGED <<sock, peer, dialing, backlog>>
         \/ ConnectStream
         \/ Connect
         \/ pc = "connect_back" /\ ConnectDgram("server", "client", "verify")
         \/ /\ pc = "verify" /\ peer = Paired /\ CallReturns("blocking")
            /\ UNCHANGED <<sock, peer, dialing, backlog>>
         \/ /\ pc = "blocking" /\ CallReturns("returned") /\ UNCHANGED <<sock, peer, dialing, backlog>>
  PROVE  PairInv'
<1>1. TypeOK'
  <2>1. \A x \in {"client", "server"}, y \in {"client", "server"} :
          [peer EXCEPT ![x] = y] \in [{"client", "server"} -> {"client", "server", Nobody} \cup Rival]
    BY DEF PairInv, TypeOK
  <2>2. \A x \in Name : [sock EXCEPT ![x] = "open"] \in [Name -> {"none", "open", "closed", "lost"}]
    BY DEF PairInv, TypeOK
  <2>3. exc' \in BOOLEAN
    BY DEF PairInv, TypeOK
  <2> QED
    BY <2>1, <2>2, <2>3, TypeStep
       DEF PairInv, TypeOK, CallReturns, OpenSocket, Bound, ConnectStream, Connect, ConnectDgram, Name
<1>2. Opened'
  BY DEF PairInv, TypeOK, Opened, CallReturns, OpenSocket, Bound, ConnectStream, Connect, ConnectDgram, Name
<1>3. Shut'
  BY DEF PairInv, TypeOK, Opened, Shut, CallReturns, OpenSocket, Bound, ConnectStream, Connect, ConnectDgram, Name
<1>4. (pc \in {"blocking", "returned"} => peer = Paired)'
  BY DEF PairInv, TypeOK, CallReturns, ConnectStream, Connect, ConnectDgram
<1> QED
  BY <1>1, <1>2, <1>3, <1>4 DEF PairInv

LEMMA AcceptStep ==
  ASSUME PairInv, Accept, ~CallRaises
  PROVE  PairInv'
<1>1. /\ pc = "accept" /\ pc' = "finally" /\ UNCHANGED <<type, exc, dialing>>
      /\ errno' = ErrnoLeft(errno) /\ backlog # <<>> /\ backlog' = Tail(backlog)
      /\ sock' = [sock EXCEPT !["server"] = "open"]
      /\ peer' = [peer EXCEPT !["server"] = Head(backlog)]
  BY DEF Accept, CallReturns, OpenSocket
<1>2. Head(backlog) \in {"client"} \cup Rival /\ Tail(backlog) \in Seq({"client"} \cup Rival)
  BY <1>1, HeadTailProperties DEF PairInv, TypeOK
<1>3. TypeOK'
  <2>1. peer' \in [{"client", "server"} -> {"client", "server", Nobody} \cup Rival]
    BY <1>1, <1>2 DEF PairInv, TypeOK
  <2>2. sock' \in [Name -> {"none", "open", "closed", "lost"}]
    BY <1>1 DEF PairInv, TypeOK
  <2>3. exc' \in BOOLEAN
    BY <1>1 DEF PairInv, TypeOK
  <2> QED
    BY <1>1, <1>2, <2>1, <2>2, <2>3, TypeStep DEF PairInv, TypeOK
<1>4. Opened' /\ Shut'
  BY <1>1 DEF PairInv, TypeOK, Opened, Shut, Name
<1> QED
  BY <1>1, <1>3, <1>4 DEF PairInv

LEMMA FinallyStep ==
  ASSUME PairInv, Finally
  PROVE  PairInv'
<1>1. PICK outcome \in {"closed", "lost"} :
        /\ pc = "finally" /\ CloseAs("listen", outcome)
        /\ exc' = (exc \/ outcome = "lost")
        /\ backlog' = IF outcome = "closed" THEN <<>> ELSE backlog
  BY DEF Finally
<1>2. pc' = IF exc' THEN "except_server" ELSE "verify"
  BY DEF Finally
<1>3. /\ sock' = [sock EXCEPT !["listen"] = outcome] /\ errno' = ErrnoLeft(errno)
      /\ UNCHANGED <<type, peer, dialing>>
  BY <1>1 DEF CloseAs
<1>4. exc' \in BOOLEAN
  BY <1>1
<1>5. backlog' \in Seq({"client"} \cup Rival)
  BY <1>1 DEF PairInv, TypeOK
<1>6. sock' \in [Name -> {"none", "open", "closed", "lost"}]
  BY <1>3 DEF PairInv, TypeOK, Name
<1>7. TypeOK'
  BY <1>2, <1>3, <1>4, <1>5, <1>6, TypeStep DEF PairInv, TypeOK
<1>8. pc' = "verify" => ~exc
  BY <1>1, <1>2
<1>9. /\ sock'["listen"] # "open" /\ type # "dgram"
      /\ sock'["client"] = sock["client"] /\ sock'["server"] = sock["server"]
  BY <1>1, <1>3 DEF PairInv, TypeOK, Opened, Name
<1>10. Opened' /\ Shut'
  BY <1>1, <1>2, <1>3, <1>8, <1>9 DEF PairInv, Opened, Shut
<1> QED
  BY <1>2, <1>7, <1>10 DEF PairInv

LEMMA ExceptStep ==
  ASSUME PairInv, ExceptServer \/ ExceptClient
  PROVE  PairInv'
<1>1. PICK s \in {"server", "client"}, next \in {"except_client", "raised"} :
        /\ pc = (IF s = "server" THEN "except_server" ELSE "except_client")
        /\ next = (IF s = "server" THEN "except_client" ELSE "raised")
        /\ Except(s, next) /\ UNCHANGED <<exc, backlog>>
  BY DEF ExceptServer, ExceptClient
<1>2. exc' \in BOOLEAN
  BY <1>1 DEF PairInv, TypeOK
<1>3. CASE sock[s] = "none"
  <2>1. pc' = next /\ UNCHANGED <<type, sock, peer, dialing, errno>>
    BY <1>1, <1>3 DEF Except
  <2>2. TypeOK'
    BY <1>1, <1>2, <2>1, TypeStep DEF PairInv, TypeOK
  <2> QED
    BY <1>1, <1>3, <2>1, <2>2 DEF PairInv, Opened, Shut
<1>4. CASE sock[s] = "open"
  <2>1. PICK outcome \in {"closed", "lost"} :
          CloseAs(s, outcome) /\ pc' = IF outcome = "closed" THEN next ELSE "raised"
    BY <1>1, <1>4 DEF Except
  <2>2. /\ sock' = [sock EXCEPT ![s] = outcome] /\ errno' = ErrnoLeft(errno)
        /\ UNCHANGED <<type, peer, dialing>>
    BY <2>1 DEF CloseAs
  <2>3. sock' \in [Name -> {"none", "open", "closed", "lost"}]
    BY <2>2 DEF PairInv, TypeOK
  <2>4. TypeOK'
    BY <1>1, <1>2, <2>1, <2>2, <2>3, TypeStep DEF PairInv, TypeOK
  <2>5. /\ sock'[s] = outcome /\ \A x \in Name : x # s => sock'[x] = sock[x]
        /\ s \in Name
    BY <2>2 DEF PairInv, TypeOK, Name
  <2>6. sock'["listen"] = sock["listen"]
    BY <2>5 DEF Name
  <2> QED
    BY <1>1, <2>1, <2>2, <2>4, <2>5, <2>6 DEF PairInv, Opened, Shut, Name
<1> QED
  BY <1>1, <1>3, <1>4 DEF Except

LEMMA LwipStep ==
  ASSUME PairInv, Handshake \/ \E r \in Rival : RivalConnects(r)
  PROVE  PairInv'
<1>1. /\ UNCHANGED <<type, pc, exc, sock, errno>> /\ Listening
      /\ \E c \in {"client"} \cup Rival : backlog' = Append(backlog, c)
      /\ dialing' \in {"done", dialing}
      /\ peer' \in {peer, [peer EXCEPT !["client"] = "server"]}
  BY DEF Handshake, RivalConnects
<1>2. backlog' \in Seq({"client"} \cup Rival)
  BY <1>1, AppendProperties DEF PairInv, TypeOK
<1>3. exc' \in BOOLEAN
  BY <1>1 DEF PairInv, TypeOK
<1>4. peer' \in [{"client", "server"} -> {"client", "server", Nobody} \cup Rival]
  BY <1>1 DEF PairInv, TypeOK
<1>5. TypeOK'
  BY <1>1, <1>2, <1>3, <1>4, TypeStep DEF PairInv, TypeOK
<1>6. Opened' /\ Shut'
  BY <1>1 DEF PairInv, Opened, Shut
<1> QED
  BY <1>1, <1>5, <1>6 DEF PairInv, Listening

LEMMA PairStep == PairInv /\ [Next]_vars => PairInv'
<1> SUFFICES ASSUME PairInv, [Next]_vars PROVE PairInv'
  OBVIOUS
<1>1. CASE UNCHANGED vars
  BY <1>1 DEF vars, PairInv, TypeOK, Opened, Shut
<1>2. CASE CallRaises /\ pc \notin {"except_server", "except_client", "returned", "raised"}
  BY <1>2, RaiseStep DEF CallRaises
<1>3. CASE OpenBound /\ ~CallRaises
  BY <1>3, BodyStep DEF OpenBound, CallReturns
<1>4. CASE Bind /\ ~CallRaises
  BY <1>4, BodyStep DEF Bind, CallReturns
<1>5. CASE OpenClient /\ ~CallRaises
  BY <1>5, BodyStep DEF OpenClient, CallReturns
<1>6. CASE SetNonblocking /\ ~CallRaises
  BY <1>6, BodyStep DEF SetNonblocking, CallReturns
<1>7. CASE ConnectStream
  <2>1. UNCHANGED <<type, exc>>
    BY <1>7 DEF ConnectStream
  <2> QED
    BY <1>7, <2>1, BodyStep
<1>8. CASE Connect
  <2>1. UNCHANGED <<type, exc>>
    BY <1>8 DEF Connect, ConnectDgram
  <2> QED
    BY <1>8, <2>1, BodyStep
<1>9. CASE ConnectBack /\ ~CallRaises
  <2>1. pc = "connect_back" /\ ConnectDgram("server", "client", "verify")
    BY <1>9 DEF ConnectBack
  <2>2. UNCHANGED <<type, exc>>
    BY <2>1 DEF ConnectDgram
  <2> QED
    BY <2>1, <2>2, BodyStep
<1>10. CASE Verify /\ ~CallRaises
  <2>1. CASE peer = Paired
    BY <1>10, <2>1, BodyStep DEF Verify, CallReturns, Paired
  <2>2. CASE peer # Paired
    BY <1>10, <2>2, RaiseStep DEF Verify, Paired
  <2> QED
    BY <2>1, <2>2
<1>11. CASE SetBlocking /\ ~CallRaises
  BY <1>11, BodyStep DEF SetBlocking, CallReturns
<1>12. Step => \/ ConnectStream \/ Connect \/ Finally \/ ExceptServer \/ ExceptClient
               \/ /\ OpenBound \/ Bind \/ OpenClient \/ SetNonblocking \/ ConnectBack
                     \/ Accept \/ Verify \/ SetBlocking
                  /\ pc \notin {"except_server", "except_client", "returned", "raised"}
  BY DEF Step, OpenBound, Bind, OpenClient, SetNonblocking, ConnectBack, Accept, Verify, SetBlocking
<1> QED
  BY <1>1, <1>2, <1>3, <1>4, <1>5, <1>6, <1>7, <1>8, <1>9, <1>10, <1>11, <1>12,
     AcceptStep, FinallyStep, ExceptStep, LwipStep DEF Next

(* The states of socketpair are well typed.                                 *)
THEOREM PairTypeCorrect == Spec => []TypeOK
<1>1. PairInv => TypeOK
  BY DEF PairInv
<1> QED
  BY <1>1, PairInit, PairStep, PTL DEF Spec

(***************************************************************************)
(* The two sockets socketpair returns are open and connected to each       *)
(* other, for any number of other clients of the listening port.           *)
(***************************************************************************)
THEOREM ReturnsConnected == Spec => []PairConnected
<1>1. PairInv => PairConnected
  BY DEF PairInv, Opened, PairConnected, Paired
<1> QED
  BY <1>1, PairInit, PairStep, PTL DEF Spec

(***************************************************************************)
(* However the calls of socketpair fail, the listening socket is not left  *)
(* open, and nothing is when it raises and no close() has failed.          *)
(***************************************************************************)
THEOREM LeavesNothing == Spec => []NothingLeft
<1>1. PairInv => NothingLeft
  BY DEF PairInv, Shut, NothingLeft, Name
<1> QED
  BY <1>1, PairInit, PairStep, PTL DEF Spec

(* What threads do with the sockets later takes nothing of that back.       *)
THEOREM TrafficKeepsPair == TrafficSpec => Spec
<1>1. TrafficInit => Init
  BY DEF TrafficInit
<1>2. [TrafficNext]_allVars => [Next]_vars
  BY DEF TrafficNext, allVars, Data, SendallBegin, Sendall, SendallDone, SendBegin, NativeSend, SendCheck,
         SendFails, Finalize, SetMode, RecvInto, OnlyCall
<1> QED
  BY <1>1, <1>2, PTL DEF TrafficSpec, Spec

=============================================================================
