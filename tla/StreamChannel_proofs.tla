------------------------ MODULE StreamChannel_proofs ------------------------
(***************************************************************************)
(* The stream that a channel carries is faithful, for buffers and kernel   *)
(* queues of every size and every one of the four implementations, as long *)
(* as a client of TcpSocketImpl does not go on after an error.             *)
(*                                                                         *)
(* The invariant behind it: an end is in step with the kernel (its         *)
(* position plus what its operation has transferred so far is what the     *)
(* kernel has moved), or it will never transfer another byte, because its  *)
(* client has given up or because every attempt must fail.                 *)
(***************************************************************************)
EXTENDS StreamChannel, SequenceTheorems, TLAPS

(* What the kernel has moved for an end.                                   *)
Moved(e) == IF e = "reader" THEN taken ELSE Len(wire)

(* An operation belongs to the buffer's present position, and one that is  *)
(* a single transfer has not transferred anything when it waits or fails.  *)
OpOK(e) ==
  /\ op[e].state = "idle" => op[e] = NoOp
  /\ op[e].state # "idle" => op[e].at = position[e] /\ op[e].n > 0
  /\ op[e].error => op[e].state = "completed"
  /\ impl \notin Composed /\ (op[e].state = "waiting" \/ op[e].error) => op[e].got = 0

InStep(e) == position[e] + op[e].got = Moved(e)

GivenUp(e) ==
  /\ op[e].state = "idle"
  /\ result[e].is = "error"
  /\ impl \notin Retrying

(* Every attempt fails, now and later.                                     *)
Hopeless(e) == e \notin open \/ HungUp(e)

Dead(e) ==
  /\ Hopeless(e)
  /\ op[e].state # "waiting"
  /\ op[e].state = "completed" => op[e].error
  /\ op[e].got = 0
  /\ result[e].is = "error"

Tracked(e) ==
  /\ position[e] + op[e].got <= Moved(e)
  /\ InStep(e) \/ GivenUp(e) \/ Dead(e)

Bytes ==
  /\ \A i \in 1..Len(wire) : wire[i] = i
  /\ \A i \in 1..taken : memory[i] = i

IInv ==
  /\ TypeOK
  /\ \A e \in End : OpOK(e) /\ Tracked(e)
  /\ Bytes

(* The client of TcpSocketImpl does not go on after an error.              *)
TcpGivesUp == "TcpSocketImpl" \notin Retrying
-----------------------------------------------------------------------------
(* The two ends are each other's peer.                                     *)
LEMMA Peers == Peer("reader") = "writer" /\ Peer("writer") = "reader"
<1>1. \E p \in End : p # "reader"
  BY DEF End
<1>2. \E p \in End : p # "writer"
  BY DEF End
<1>3. Peer("reader") \in End /\ Peer("reader") # "reader"
  BY <1>1 DEF Peer
<1>4. Peer("writer") \in End /\ Peer("writer") # "writer"
  BY <1>2 DEF Peer
<1> QED BY <1>3, <1>4 DEF End

(* Arithmetic of an offset a + g = t (asio_buffer, asio_helper.hpp:37).    *)
LEMMA Offset ==
  ASSUME NEW a \in Nat, NEW g \in Nat, NEW t \in Nat, NEW i \in Int, a + g = t
  PROVE  i - a - g = i - t /\ t + i - a - g = i /\ a + g + i = t + i
OBVIOUS

(* A transfer by an end that is in step (read or write in the kernel, for  *)
(* the handlers of pipe.cpp:53, 71 and their like) keeps the bytes right   *)
(* and moves that end only.                                                *)
LEMMA TransferFacts ==
  ASSUME IInv, NEW e \in End, NEW o \in Operation, NEW k \in 1..Transferable(e, o),
         o.at + o.n <= Total, o.got <= o.n,
         o.at + o.got = Moved(e),
         Transfer(e, o, k)
  PROVE  /\ memory' \in [1..Total -> 0..Total]
         /\ wire' \in Seq(1..Total)
         /\ taken' \in 0..Len(wire')
         /\ Bytes'
         /\ k \in Nat /\ o.got + k <= o.n
         /\ Moved(e)' = Moved(e) + k
         /\ \A p \in End : p # e => Moved(p)' = Moved(p)
<1>1. /\ wire \in Seq(1..Total) /\ taken \in 0..Len(wire)
      /\ memory \in [1..Total -> 0..Total]
      /\ o.at \in Nat /\ o.n \in Nat /\ o.got \in Nat
  BY DEF IInv, TypeOK, Operation
<1>2. Total \in Nat /\ Capacity \in Nat
  BY ChannelAssumption
<1>3. Len(wire) \in Nat /\ taken \in Nat /\ taken <= Len(wire)
  BY <1>1, LenProperties
<1>9. o.at \in Nat /\ o.n \in Nat /\ o.got \in Nat
  BY <1>1
<1>4. k \in Nat /\ k <= o.n - o.got /\ (e = "reader" => k <= Len(wire) - taken)
  BY <1>1, <1>2, <1>3 DEF Transferable, Held
<1>5. /\ \A i \in 1..Len(wire) : wire[i] = i
      /\ \A i \in 1..taken : memory[i] = i
  BY DEF IInv, Bytes
<1>6. o.got + k <= o.n /\ o.at + o.got + k <= Total
  BY <1>1, <1>2, <1>4
<1>7. CASE e = "reader"
  <2>1. /\ memory' = [i \in 1..Total |->
              IF i - o.at - o.got \in 1..k THEN wire[taken + i - o.at - o.got] ELSE memory[i]]
        /\ taken' = taken + k
        /\ wire' = wire
    BY <1>7 DEF Transfer
  <2>2. o.at + o.got = taken
    BY <1>7 DEF Moved
  <2>3. taken + k <= Len(wire) /\ taken + k <= Total
    BY <1>1, <1>2, <1>3, <1>4, <1>6, <1>7, <2>2
  <2>4. ASSUME NEW i \in 1..Total
        PROVE  memory'[i] = IF i - taken \in 1..k THEN i ELSE memory[i]
    <3>1. i - o.at - o.got = i - taken /\ taken + i - o.at - o.got = i
      <4>1. i \in Int
        BY <1>2
      <4>2. i - o.at - o.got = i - taken
        BY <4>1, <1>9, <1>3, <2>2, Offset
      <4>3. taken + i - o.at - o.got = i
        BY <4>1, <1>9, <1>3, <2>2, Offset
      <4> QED BY <4>2, <4>3
    <3>2. memory'[i] = IF i - taken \in 1..k THEN wire[i] ELSE memory[i]
      BY <2>1, <3>1
    <3>3. ASSUME i - taken \in 1..k PROVE wire[i] = i
      <4>1. i \in 1..Len(wire)
        BY <3>3, <1>2, <1>3, <1>4, <2>3
      <4> QED BY <4>1, <1>5
    <3> QED BY <3>2, <3>3
  <2>5. memory' \in [1..Total -> 0..Total]
    <3>1. ASSUME NEW i \in 1..Total PROVE memory'[i] \in 0..Total
      <4>1. i \in 0..Total /\ memory[i] \in 0..Total
        BY <1>1, <1>2
      <4> QED BY <4>1, <2>4
    <3> QED BY <3>1, <2>1
  <2>6. ASSUME NEW i \in 1..(taken + k)
        PROVE  memory'[i] = i
    <3>1. i \in 1..Total /\ (i \in 1..taken \/ i - taken \in 1..k)
      BY <1>2, <1>3, <1>4, <2>3
    <3>2. i \in 1..taken => memory[i] = i
      BY <1>5
    <3>3. memory'[i] = IF i - taken \in 1..k THEN i ELSE memory[i]
      BY <2>4, <3>1
    <3> QED BY <3>1, <3>2, <3>3
  <2>7. taken' \in 0..Len(wire')
    BY <1>3, <1>4, <2>1, <2>3
  <2>8. Moved(e)' = Moved(e) + k /\ \A p \in End : p # e => Moved(p)' = Moved(p)
    BY <1>7, <2>1 DEF Moved, End
  <2>9. Bytes'
    BY <1>5, <2>1, <2>6 DEF Bytes
  <2> QED BY <1>1, <1>4, <1>6, <2>1, <2>5, <2>7, <2>8, <2>9
<1>8. CASE e = "writer"
  <2> DEFINE new == [i \in 1..k |-> o.at + o.got + i]
  <2>1. wire' = wire \o new /\ memory' = memory /\ taken' = taken
    BY <1>8 DEF Transfer
  <2>2. o.at + o.got = Len(wire)
    BY <1>8 DEF Moved
  <2>3. ASSUME NEW i \in 1..k
        PROVE  new[i] = Len(wire) + i /\ new[i] \in 1..Total
    <3>1. new[i] = o.at + o.got + i
      OBVIOUS
    <3>2. o.at + o.got + i = Len(wire) + i /\ Len(wire) + i \in 1..Total
      <4>1. i \in Nat /\ i <= k /\ i >= 1
        BY <1>4
      <4>2. o.at + o.got + i = Len(wire) + i
        BY <4>1, <1>3, <1>9, <2>2, Offset
      <4>3. Len(wire) + k <= Total
        BY <1>2, <1>3, <1>4, <1>6, <1>9, <2>2
      <4> QED BY <4>1, <4>2, <4>3, <1>2, <1>3, <1>4
    <3> QED BY <3>1, <3>2
  <2>4. new \in Seq(1..Total) /\ Len(new) = k
    <3>1. new \in [1..k -> 1..Total]
      BY <2>3
    <3> QED BY <3>1, <1>4
  <2> HIDE DEF new
  <2>5. /\ wire \o new \in Seq(1..Total)
        /\ Len(wire \o new) = Len(wire) + Len(new)
        /\ \A i \in 1..(Len(wire) + Len(new)) :
             (wire \o new)[i] = IF i <= Len(wire) THEN wire[i] ELSE new[i - Len(wire)]
    BY <1>1, <2>4, ConcatProperties
  <2>6. /\ wire' \in Seq(1..Total)
        /\ Len(wire') = Len(wire) + k
        /\ \A i \in 1..(Len(wire) + k) :
             wire'[i] = IF i <= Len(wire) THEN wire[i] ELSE new[i - Len(wire)]
    BY <2>1, <2>4, <2>5
  <2>7. ASSUME NEW i \in 1..Len(wire')
        PROVE  wire'[i] = i
    <3>1. i \in 1..(Len(wire) + k) /\ i \in Int
      BY <1>3, <1>4, <2>6
    <3>2. CASE i <= Len(wire)
      BY <3>1, <3>2, <1>3, <1>5, <2>6
    <3>3. CASE ~(i <= Len(wire))
      <4>1. i - Len(wire) \in 1..k
        BY <3>1, <3>3, <1>3, <1>4
      <4>2. new[i - Len(wire)] = i
        BY <4>1, <1>3, <2>3, <3>1
      <4> QED BY <4>2, <3>1, <3>3, <2>6
    <3> QED BY <3>2, <3>3
  <2>8. taken' \in 0..Len(wire')
    BY <1>3, <1>4, <2>1, <2>6
  <2>9. Moved(e)' = Moved(e) + k /\ \A p \in End : p # e => Moved(p)' = Moved(p)
    BY <1>8, <2>1, <2>6 DEF Moved, End
  <2>10. Bytes'
    BY <1>5, <2>1, <2>7 DEF Bytes
  <2> QED BY <1>1, <1>4, <1>6, <2>1, <2>6, <2>8, <2>9, <2>10
<1> QED BY <1>7, <1>8 DEF End

(* An end that is hopeless stays so when ends are closed or shut down, and *)
(* when the other end transfers, which it then cannot.                     *)
LEMMA HopelessStays ==
  ASSUME IInv, NEW p \in End, Hopeless(p),
         impl' = impl, open' \subseteq open, shut \subseteq shut',
         \/ UNCHANGED <<wire, taken>>
         \/ \E e \in End : /\ ~Hopeless(e)
                           /\ \A q \in End : q # e => Moved(q)' = Moved(q)
  PROVE  Hopeless(p)'
<1>1. CASE UNCHANGED <<wire, taken>>
  BY <1>1 DEF Hopeless, HungUp, Held, EndsSeen
<1>2. CASE \E e \in End : ~Hopeless(e) /\ \A q \in End : q # e => Moved(q)' = Moved(q)
  <2>1. PICK e \in End : ~Hopeless(e) /\ \A q \in End : q # e => Moved(q)' = Moved(q)
    BY <1>2
  <2>2. e # p
    BY <2>1
  <2>3. CASE p = "writer"
    BY <2>3, Peers DEF Hopeless, HungUp, EndsSeen
  <2>4. CASE p = "reader"
    <3>1. e = "writer"
      BY <2>2, <2>4 DEF End
    <3>2. CASE p \notin open
      BY <3>2 DEF Hopeless
    <3>3. CASE p \in open
      BY <3>1, <3>3, <2>1, <2>4, Peers DEF Hopeless, HungUp, EndsSeen
    <3> QED BY <3>2, <3>3
  <2> QED BY <2>3, <2>4 DEF End
<1> QED BY <1>1, <1>2

(* An end that a step leaves alone keeps its part of the invariant.        *)
LEMMA OtherEnd ==
  ASSUME IInv, NEW p \in End,
         op'[p] = op[p], position'[p] = position[p], result'[p] = result[p],
         impl' = impl, Moved(p)' = Moved(p),
         Hopeless(p) => Hopeless(p)'
  PROVE  OpOK(p)' /\ Tracked(p)'
<1>1. OpOK(p) /\ Tracked(p)
  BY DEF IInv
<1>2. OpOK(p)'
  BY <1>1 DEF OpOK, Composed
<1>3. Tracked(p)'
  BY <1>1 DEF Tracked, InStep, GivenUp, Dead
<1> QED BY <1>2, <1>3

(* One attempt at an operation (Start, Reactor, Continue), by an end that  *)
(* is in step or hopeless, keeps the invariant: bytes go where they        *)
(* belong, and a hopeless end only gets an error.                          *)
LEMMA AttemptInv ==
  ASSUME IInv, NEW e \in End, NEW o \in Operation,
         o.at = position[e], o.n > 0, o.at + o.n <= Total, o.got <= o.n, o.error = FALSE,
         impl \notin Composed => o.got = 0,
         \/ o.at + o.got = Moved(e)
         \/ Hopeless(e) /\ o.got = 0 /\ o.at <= Moved(e) /\ result[e].is = "error",
         Succeeds(e, o) \/ Fails(e, o) \/ WouldBlock(e, o),
         UNCHANGED <<impl, position, open, shut, result, cancelled>>
  PROVE  IInv'
<1>1. TypeOK /\ op \in [End -> Operation] /\ position[e] \in Nat
  BY DEF IInv, TypeOK
<1>2. o.at \in Nat /\ o.n \in Nat /\ o.got \in Nat
  BY DEF Operation
<1>3. \A d \in End : Moved(d) \in Nat
  <2>1. Len(wire) \in Nat
    BY <1>1, LenProperties DEF TypeOK
  <2> QED BY <1>1, <2>1 DEF Moved, TypeOK
<1>4. CASE Succeeds(e, o)
  <2>1. PICK k \in 1..Transferable(e, o) :
          /\ Transfer(e, o, k)
          /\ op' = [op EXCEPT ![e] = [o EXCEPT !.state = "completed", !.got = o.got + k]]
    BY <1>4 DEF Succeeds
  <2>2. ~Hopeless(e) /\ o.at + o.got = Moved(e)
    BY <1>4 DEF Succeeds, Hopeless
  <2>3. /\ memory' \in [1..Total -> 0..Total]
        /\ wire' \in Seq(1..Total)
        /\ taken' \in 0..Len(wire')
        /\ Bytes'
        /\ k \in Nat /\ o.got + k <= o.n
        /\ Moved(e)' = Moved(e) + k
        /\ \A p \in End : p # e => Moved(p)' = Moved(p)
    BY <2>1, <2>2, TransferFacts
  <2>4. \A p \in End : p # e => (Hopeless(p) => Hopeless(p)')
    BY <2>2, <2>3, HopelessStays
  <2>5. \A p \in End : p # e => op'[p] = op[p]
    BY <2>1, <1>1
  <2>6. op'[e] = [o EXCEPT !.state = "completed", !.got = o.got + k]
    BY <2>1, <1>1
  <2>7. /\ op'[e] \in Operation
        /\ op'[e].state = "completed" /\ op'[e].got = o.got + k
        /\ op'[e].at = o.at /\ op'[e].n = o.n /\ op'[e].error = FALSE
    <3>1. o.got + k \in Nat
      BY <2>3, <1>2
    <3> QED BY <2>6, <3>1, <1>2 DEF Operation, OpState
  <2>8. op' \in [End -> Operation]
    BY <2>1, <2>6, <2>7, <1>1
  <2>9. TypeOK'
    <3>1. \A d \in End : op'[d].at + op'[d].n <= Total /\ op'[d].got <= op'[d].n
      BY <2>3, <2>5, <2>7, <1>1 DEF TypeOK
    <3> QED BY <3>1, <2>3, <2>8, <1>1 DEF TypeOK
  <2>10. OpOK(e)' /\ Tracked(e)'
    <3>1. op'[e].at = position'[e] /\ position'[e] = position[e] /\ impl' = impl
      BY <2>7
    <3>2. OpOK(e)'
      BY <3>1, <2>7 DEF OpOK, NoOp
    <3>3. position'[e] + op'[e].got = Moved(e)'
      BY <3>1, <2>2, <2>3, <2>7, <1>1, <1>2, <1>3
    <3>4. Moved(e)' \in Nat
      BY <2>3, <1>3
    <3> QED BY <3>2, <3>3, <3>4 DEF Tracked, InStep
  <2>11. \A p \in End : p # e => OpOK(p)' /\ Tracked(p)'
    BY <2>3, <2>4, <2>5, OtherEnd
  <2> QED BY <2>3, <2>9, <2>10, <2>11 DEF IInv
<1>5. CASE Fails(e, o) \/ WouldBlock(e, o)
  <2>1. PICK st \in {"completed", "waiting"} :
          /\ op' = [op EXCEPT ![e] = [o EXCEPT !.state = st, !.error = (st = "completed")]]
          /\ st = "waiting" => ~Hopeless(e)
          /\ UNCHANGED data
    <3>1. CASE Fails(e, o)
      <4>1. ("completed" = "completed") = TRUE
        OBVIOUS
      <4> QED BY <3>1, <4>1 DEF Fails
    <3>2. CASE WouldBlock(e, o)
      <4>1. [o EXCEPT !.state = "waiting"] = [o EXCEPT !.state = "waiting", !.error = FALSE]
        BY DEF Operation
      <4> QED BY <3>2, <4>1 DEF WouldBlock, Hopeless
    <3> QED BY <1>5, <3>1, <3>2
  <2>2. UNCHANGED <<memory, wire, taken>>
    BY <2>1 DEF data
  <2>3. /\ op'[e] \in Operation
        /\ op'[e].state = st /\ op'[e].got = o.got
        /\ op'[e].at = o.at /\ op'[e].n = o.n /\ op'[e].error = (st = "completed")
    BY <2>1, <1>1, <1>2 DEF Operation, OpState
  <2>4. \A p \in End : p # e => op'[p] = op[p]
    BY <2>1, <1>1
  <2>5. op' \in [End -> Operation]
    BY <2>1, <2>3, <1>1
  <2>6. TypeOK'
    <3>1. \A d \in End : op'[d].at + op'[d].n <= Total /\ op'[d].got <= op'[d].n
      BY <2>3, <2>4, <1>1 DEF TypeOK
    <3> QED BY <3>1, <2>2, <2>5, <1>1 DEF TypeOK
  <2>7. \A p \in End : Moved(p)' = Moved(p) /\ (Hopeless(p) => Hopeless(p)')
    BY <2>2 DEF Moved, Hopeless, HungUp, Held, EndsSeen
  <2>8. OpOK(e)'
    BY <2>3 DEF OpOK
  <2>9. Tracked(e)'
    <3>1. CASE o.at + o.got = Moved(e)
      BY <3>1, <2>3, <2>7, <1>2, <1>3 DEF Tracked, InStep
    <3>2. CASE Hopeless(e) /\ o.got = 0 /\ o.at <= Moved(e) /\ result[e].is = "error"
      <4>1. st = "completed"
        BY <3>2, <2>1
      <4>2. op'[e].state = "completed" /\ op'[e].error = TRUE /\ op'[e].got = 0
        BY <4>1, <3>2, <2>3
      <4>3. position'[e] + op'[e].got <= Moved(e)'
        BY <4>2, <3>2, <2>7, <1>1, <1>2, <1>3
      <4>4. Hopeless(e)' /\ result'[e].is = "error"
        BY <3>2, <2>7
      <4> QED BY <4>2, <4>3, <4>4 DEF Tracked, Dead
    <3> QED BY <3>1, <3>2
  <2>10. \A p \in End : p # e => OpOK(p)' /\ Tracked(p)'
    BY <2>4, <2>7, OtherEnd
  <2>11. Bytes'
    BY <2>2 DEF IInv, Bytes
  <2> QED BY <2>6, <2>8, <2>9, <2>10, <2>11 DEF IInv
<1> QED BY <1>4, <1>5

(* The end of an operation (the completion handlers, and the return of the *)
(* synchronous calls) keeps the invariant when the position moves by what  *)
(* was transferred, or when it does not matter any more that it does not.  *)
LEMMA SettleInv ==
  ASSUME IInv, NEW e \in End, NEW error \in BOOLEAN, NEW advances \in BOOLEAN,
         op[e].state # "idle",
         Settle(e, op[e], error, advances),
         UNCHANGED <<impl, memory, wire, taken, open, shut>>,
         \/ advances /\ InStep(e)
         \/ advances /\ Dead(e) /\ error
         \/ ~advances /\ error /\ (op[e].got = 0 \/ Hopeless(e) \/ impl \notin Retrying)
  PROVE  IInv'
<1>1. /\ TypeOK /\ op \in [End -> Operation] /\ position \in [End -> 0..Total]
      /\ result \in [End -> Outcome]
      /\ op[e] \in Operation /\ position[e] \in Nat
      /\ op[e].at + op[e].n <= Total /\ op[e].got <= op[e].n
  BY DEF IInv, TypeOK
<1>2. op[e].at \in Nat /\ op[e].n \in Nat /\ op[e].got \in Nat /\ Total \in Nat
  BY <1>1, ChannelAssumption DEF Operation
<1>3. OpOK(e) /\ Tracked(e) /\ op[e].at = position[e]
  BY DEF IInv, OpOK
<1>4. Moved(e) \in Nat
  <2>1. Len(wire) \in Nat
    BY <1>1, LenProperties DEF TypeOK
  <2> QED BY <1>1, <2>1 DEF Moved, TypeOK
<1>5. /\ op'[e] = NoOp /\ op' \in [End -> Operation]
      /\ \A p \in End : p # e =>
           op'[p] = op[p] /\ position'[p] = position[p] /\ result'[p] = result[p]
  <2>1. NoOp \in Operation
    BY DEF NoOp, Operation, OpState
  <2> QED BY <2>1, <1>1 DEF Settle
<1>6. /\ op'[e].state = "idle" /\ op'[e].got = 0 /\ op'[e].error = FALSE
      /\ op'[e].at = 0 /\ op'[e].n = 0
  BY <1>5 DEF NoOp
<1>7. position'[e] = IF advances THEN position[e] + op[e].got ELSE position[e]
  BY <1>1 DEF Settle
<1>8. position[e] + op[e].got \in 0..Total
  BY <1>1, <1>2, <1>3
<1>9. position' \in [End -> 0..Total]
  <2>1. position'[e] \in 0..Total
    BY <1>1, <1>7, <1>8
  <2> QED BY <2>1, <1>1 DEF Settle
<1>10. result'[e].is = (IF error THEN "error" ELSE "value") /\ result' \in [End -> Outcome]
  <2>1. [is |-> IF error THEN "error" ELSE "value", at |-> op[e].at, n |-> op[e].n] \in Outcome
    BY <1>2 DEF Outcome
  <2> QED BY <2>1, <1>1 DEF Settle
<1>11. TypeOK'
  <2>1. \A d \in End : op'[d].at + op'[d].n <= Total /\ op'[d].got <= op'[d].n
    <3>1. op'[e].at + op'[e].n <= Total /\ op'[e].got <= op'[e].n
      BY <1>6, <1>2
    <3>2. \A d \in End : d # e => op'[d].at + op'[d].n <= Total /\ op'[d].got <= op'[d].n
      BY <1>5, <1>1 DEF TypeOK
    <3> QED BY <3>1, <3>2
  <2>2. cancelled' \subseteq End
    BY <1>1 DEF Settle, TypeOK
  <2> QED BY <2>1, <2>2, <1>1, <1>5, <1>9, <1>10 DEF TypeOK
<1>12. \A p \in End : Moved(p)' = Moved(p) /\ (Hopeless(p) => Hopeless(p)')
  BY DEF Moved, Hopeless, HungUp, Held, EndsSeen
<1>13. OpOK(e)'
  BY <1>5, <1>6 DEF OpOK
<1>14. Tracked(e)'
  <2>1. position[e] + op[e].got <= Moved(e) /\ (InStep(e) \/ Dead(e))
    BY <1>3 DEF Tracked, GivenUp
  <2>2. position'[e] + op'[e].got <= Moved(e)'
    BY <2>1, <1>1, <1>2, <1>4, <1>6, <1>7, <1>12
  <2>3. CASE advances /\ InStep(e)
    BY <2>2, <2>3, <1>1, <1>2, <1>4, <1>6, <1>7, <1>12 DEF Tracked, InStep
  <2>4. CASE Dead(e) /\ error
    BY <2>2, <2>4, <1>6, <1>10, <1>12 DEF Tracked, Dead
  <2>5. CASE ~advances /\ op[e].got = 0 /\ InStep(e)
    BY <2>2, <2>5, <1>1, <1>2, <1>4, <1>6, <1>7, <1>12 DEF Tracked, InStep
  <2>6. CASE error /\ Hopeless(e)
    BY <2>2, <2>6, <1>6, <1>10, <1>12 DEF Tracked, Dead
  <2>7. CASE error /\ impl \notin Retrying
    BY <2>2, <2>7, <1>6, <1>10 DEF Tracked, GivenUp
  <2> QED BY <2>1, <2>3, <2>4, <2>5, <2>6, <2>7
<1>15. \A p \in End : p # e => OpOK(p)' /\ Tracked(p)'
  BY <1>5, <1>12, OtherEnd
<1>16. Bytes'
  BY DEF IInv, Bytes
<1> QED BY <1>11, <1>13, <1>14, <1>15, <1>16 DEF IInv

(* cancel() and close() abort what waits in the reactor and nothing else.  *)
LEMMA AbortInv ==
  ASSUME IInv, NEW ends \in SUBSET End, Abort(ends),
         open' \subseteq open, cancelled' \subseteq End,
         UNCHANGED <<impl, position, memory, wire, taken, shut, result>>
  PROVE  IInv'
<1>1. TypeOK /\ op \in [End -> Operation]
  BY DEF IInv, TypeOK
<1>2. \A p \in End : Moved(p)' = Moved(p) /\ (Hopeless(p) => Hopeless(p)')
  BY DEF Moved, Hopeless, HungUp, Held, EndsSeen
<1>3. ASSUME NEW d \in End
      PROVE  /\ op'[d] \in Operation
             /\ op'[d].at + op'[d].n <= Total /\ op'[d].got <= op'[d].n
             /\ OpOK(d)' /\ Tracked(d)'
  <2>1. OpOK(d) /\ Tracked(d)
    BY DEF IInv
  <2>2. /\ op[d] \in Operation
        /\ op[d].at + op[d].n <= Total /\ op[d].got <= op[d].n
    BY <1>1 DEF TypeOK
  <2>3. CASE d \in ends /\ op[d].state = "waiting"
    <3>1. op'[d] = [op[d] EXCEPT !.state = "completed", !.error = TRUE]
      BY <2>3 DEF Abort
    <3>2. /\ op'[d] \in Operation
          /\ op'[d].state = "completed" /\ op'[d].error = TRUE
          /\ op'[d].at = op[d].at /\ op'[d].n = op[d].n /\ op'[d].got = op[d].got
      BY <3>1, <2>2 DEF Operation, OpState
    <3>3. OpOK(d)'
      BY <3>2, <2>1, <2>3 DEF OpOK
    <3>4. InStep(d) /\ position[d] + op[d].got <= Moved(d)
      BY <2>1, <2>3 DEF Tracked, GivenUp, Dead
    <3>5. Tracked(d)'
      BY <3>2, <3>4, <1>2 DEF Tracked, InStep
    <3> QED BY <2>2, <3>2, <3>3, <3>5
  <2>4. CASE ~(d \in ends /\ op[d].state = "waiting")
    <3>1. op'[d] = op[d]
      BY <2>4 DEF Abort
    <3>2. OpOK(d)' /\ Tracked(d)'
      BY <3>1, <1>2, OtherEnd
    <3> QED BY <3>1, <3>2, <2>2
  <2> QED BY <2>3, <2>4
<1>4. op' \in [End -> Operation]
  BY <1>3 DEF Abort
<1>5. TypeOK'
  BY <1>1, <1>3, <1>4 DEF TypeOK
<1>6. Bytes'
  BY DEF IInv, Bytes
<1> QED BY <1>3, <1>5, <1>6 DEF IInv
-----------------------------------------------------------------------------
(* The actions, one by one                                                 *)

(* An end whose client may start an operation has none and has not given   *)
(* up.                                                                     *)
LEMMA MayStartFacts ==
  ASSUME IInv, NEW e \in End, NEW n \in 1..Total, MayStart(e, n)
  PROVE  /\ op[e] = NoOp /\ position[e] \in Nat /\ n \in Nat /\ Moved(e) \in Nat
         /\ position[e] + n <= Total
         /\ asio_buffer(e, n) \in Operation
         /\ asio_buffer(e, n) = [state |-> "idle", at |-> position[e], n |-> n,
                                 got |-> 0, error |-> FALSE]
         /\ \/ position[e] = Moved(e)
            \/ Hopeless(e) /\ position[e] <= Moved(e) /\ result[e].is = "error"
<1>1. OpOK(e) /\ Tracked(e) /\ op[e].state = "idle"
  BY DEF IInv, MayStart
<1>2. op[e] = NoOp /\ op[e].got = 0
  BY <1>1 DEF OpOK, NoOp
<1>3. position[e] \in Nat /\ n \in Nat /\ Total \in Nat
  BY ChannelAssumption DEF IInv, TypeOK
<1>4. Moved(e) \in Nat
  <2>1. wire \in Seq(1..Total) /\ taken \in 0..Len(wire)
    BY DEF IInv, TypeOK
  <2>2. Len(wire) \in Nat
    BY <2>1, LenProperties
  <2> QED BY <2>1, <2>2 DEF Moved
<1>5. asio_buffer(e, n) = [state |-> "idle", at |-> position[e], n |-> n,
                           got |-> 0, error |-> FALSE]
  BY DEF asio_buffer
<1>6. asio_buffer(e, n) \in Operation
  BY <1>3, <1>5 DEF Operation, OpState
<1>7. ~GivenUp(e)
  BY DEF MayStart, GivenUp
<1>8. \/ position[e] = Moved(e)
      \/ Hopeless(e) /\ position[e] <= Moved(e) /\ result[e].is = "error"
  BY <1>1, <1>2, <1>3, <1>4, <1>7 DEF Tracked, InStep, Dead
<1> QED BY <1>2, <1>3, <1>4, <1>5, <1>6, <1>8 DEF MayStart

(* asyncRead, asyncWrite.                                                  *)
LEMMA StartInv ==
  ASSUME IInv, NEW e \in End, NEW n \in 1..Total, Start(e, n)
  PROVE  IInv'
<1> DEFINE o == asio_buffer(e, n)
<1>1. MayStart(e, n) /\ (Succeeds(e, o) \/ Fails(e, o) \/ WouldBlock(e, o))
  BY DEF Start
<1>2. UNCHANGED <<impl, position, open, shut, result, cancelled>>
  BY DEF Start
<1>3. /\ o \in Operation /\ position[e] \in Nat /\ n \in Nat /\ Moved(e) \in Nat
      /\ position[e] + n <= Total
      /\ o = [state |-> "idle", at |-> position[e], n |-> n, got |-> 0, error |-> FALSE]
      /\ \/ position[e] = Moved(e)
         \/ Hopeless(e) /\ position[e] <= Moved(e) /\ result[e].is = "error"
  BY <1>1, MayStartFacts
<1> HIDE DEF o
<1>4. o.at = position[e] /\ o.n = n /\ o.got = 0 /\ o.error = FALSE
  BY <1>3
<1>5. o.n > 0 /\ o.at + o.n <= Total /\ o.got <= o.n
  BY <1>3, <1>4
<1>6. \/ o.at + o.got = Moved(e)
      \/ Hopeless(e) /\ o.got = 0 /\ o.at <= Moved(e) /\ result[e].is = "error"
  BY <1>3, <1>4
<1> QED BY <1>1, <1>2, <1>3, <1>4, <1>5, <1>6, AttemptInv

(* Facts of an operation in progress that can still transfer.              *)
LEMMA Progressing ==
  ASSUME IInv, NEW e \in End, op[e].state # "idle", op[e].error = FALSE,
         op[e].state # "blocked" \/ ~Hopeless(e)
  PROVE  /\ op[e] \in Operation /\ op[e].at = position[e] /\ op[e].n > 0
         /\ op[e].at + op[e].n <= Total /\ op[e].got <= op[e].n
         /\ op[e].at + op[e].got = Moved(e)
<1>1. OpOK(e) /\ Tracked(e) /\ TypeOK
  BY DEF IInv
<1>2. op[e] \in Operation /\ op[e].at + op[e].n <= Total /\ op[e].got <= op[e].n
  BY <1>1 DEF TypeOK
<1>3. op[e].state \in {"waiting", "completed", "blocked"}
  BY <1>2 DEF Operation, OpState
<1>4. ~GivenUp(e) /\ ~Dead(e)
  BY <1>3 DEF GivenUp, Dead
<1>5. op[e].at = position[e] /\ op[e].n > 0
  BY <1>1 DEF OpOK
<1>6. position[e] + op[e].got = Moved(e)
  BY <1>1, <1>4 DEF Tracked, InStep
<1> QED BY <1>2, <1>5, <1>6

(* The reactor finds the descriptor of a waiting operation ready.          *)
LEMMA ReactorInv ==
  ASSUME IInv, NEW e \in End, Reactor(e)
  PROVE  IInv'
<1>1. op[e].state = "waiting" /\ (Succeeds(e, op[e]) \/ Fails(e, op[e]))
  BY DEF Reactor
<1>2. UNCHANGED <<impl, position, open, shut, result, cancelled>>
  BY DEF Reactor
<1>3. op[e].error = FALSE /\ (impl \notin Composed => op[e].got = 0)
  <2>1. OpOK(e) /\ op[e] \in Operation
    BY DEF IInv, TypeOK
  <2> QED BY <2>1, <1>1 DEF OpOK, Operation
<1>4. /\ op[e] \in Operation /\ op[e].at = position[e] /\ op[e].n > 0
      /\ op[e].at + op[e].n <= Total /\ op[e].got <= op[e].n
      /\ op[e].at + op[e].got = Moved(e)
  BY <1>1, <1>3, Progressing
<1> QED BY <1>1, <1>2, <1>3, <1>4, AttemptInv

(* A composed operation of tcpsocket.cpp or streamdomainsocket.cpp goes on. *)
LEMMA ContinueInv ==
  ASSUME IInv, NEW e \in End, Continue(e)
  PROVE  IInv'
<1>1. /\ op[e].state = "completed" /\ Unfinished(op[e])
      /\ Succeeds(e, op[e]) \/ Fails(e, op[e]) \/ WouldBlock(e, op[e])
  BY DEF Continue
<1>2. UNCHANGED <<impl, position, open, shut, result, cancelled>>
  BY DEF Continue
<1>3. op[e].error = FALSE /\ impl \in Composed
  <2>1. op[e] \in Operation
    BY DEF IInv, TypeOK
  <2> QED BY <2>1, <1>1 DEF Unfinished, Operation
<1>4. /\ op[e] \in Operation /\ op[e].at = position[e] /\ op[e].n > 0
      /\ op[e].at + op[e].n <= Total /\ op[e].got <= op[e].n
      /\ op[e].at + op[e].got = Moved(e)
  BY <1>1, <1>3, Progressing
<1> QED BY <1>1, <1>2, <1>3, <1>4, AttemptInv

(* The completion handlers of the four classes.                            *)
LEMMA HandlerInv ==
  ASSUME IInv, TcpGivesUp, NEW e \in End, Handler(e)
  PROVE  IInv'
<1> DEFINE err == op[e].error
           adv == ~op[e].error \/ impl \in AdvancesOnError
<1>1. op[e].state = "completed" /\ Settle(e, op[e], err, adv)
  BY DEF Handler
<1>2. UNCHANGED <<impl, memory, wire, taken, open, shut>>
  BY DEF Handler, data
<1>3. OpOK(e) /\ Tracked(e) /\ op[e] \in Operation /\ impl \in Implementations
  BY DEF IInv, TypeOK
<1>4. err \in BOOLEAN /\ adv \in BOOLEAN
  BY <1>3 DEF Operation
<1>5. InStep(e) \/ (Dead(e) /\ err)
  BY <1>1, <1>3 DEF Tracked, GivenUp, Dead
<1>6. \/ adv /\ InStep(e)
      \/ adv /\ Dead(e) /\ err
      \/ ~adv /\ err /\ (op[e].got = 0 \/ Hopeless(e) \/ impl \notin Retrying)
  <2>1. CASE adv
    BY <2>1, <1>5
  <2>2. CASE ~adv
    <3>1. err /\ impl # "StreamDomainSocketImpl"
      BY <2>2 DEF AdvancesOnError
    <3>2. CASE impl = "TcpSocketImpl"
      BY <2>2, <3>1, <3>2 DEF TcpGivesUp
    <3>3. CASE impl # "TcpSocketImpl"
      BY <2>2, <3>1, <3>3, <1>3 DEF OpOK, Composed
    <3> QED BY <3>2, <3>3
  <2> QED BY <2>1, <2>2
<1> HIDE DEF err, adv
<1> QED BY <1>1, <1>2, <1>4, <1>6, SettleInv

(* read, write: the call itself.                                           *)
LEMMA CallInv ==
  ASSUME IInv, NEW e \in End, NEW n \in 1..Total, Call(e, n)
  PROVE  IInv'
<1>1. /\ MayStart(e, n)
      /\ op' = [op EXCEPT ![e] = [asio_buffer(e, n) EXCEPT !.state = "blocked"]]
      /\ UNCHANGED <<impl, position, memory, wire, taken, open, shut, result, cancelled>>
  BY DEF Call, data
<1>2. /\ op[e] = NoOp /\ position[e] \in Nat /\ n \in Nat /\ Moved(e) \in Nat
      /\ position[e] + n <= Total
      /\ asio_buffer(e, n) = [state |-> "idle", at |-> position[e], n |-> n,
                              got |-> 0, error |-> FALSE]
      /\ \/ position[e] = Moved(e)
         \/ Hopeless(e) /\ position[e] <= Moved(e) /\ result[e].is = "error"
  BY <1>1, MayStartFacts
<1>3. TypeOK /\ op \in [End -> Operation]
  BY DEF IInv, TypeOK
<1>4. op'[e] = [asio_buffer(e, n) EXCEPT !.state = "blocked"]
  BY <1>1, <1>3
<1>5. /\ op'[e].state = "blocked" /\ op'[e].at = position[e] /\ op'[e].n = n
      /\ op'[e].got = 0 /\ op'[e].error = FALSE /\ op'[e] \in Operation
  <2>1. asio_buffer(e, n) \in Operation
    BY <1>1, MayStartFacts
  <2>2. op'[e] \in Operation
    BY <2>1, <1>4 DEF Operation, OpState
  <2>3. /\ asio_buffer(e, n).at = position[e] /\ asio_buffer(e, n).n = n
        /\ asio_buffer(e, n).got = 0 /\ asio_buffer(e, n).error = FALSE
    BY <1>2
  <2>4. /\ op'[e].state = "blocked" /\ op'[e].at = asio_buffer(e, n).at
        /\ op'[e].n = asio_buffer(e, n).n /\ op'[e].got = asio_buffer(e, n).got
        /\ op'[e].error = asio_buffer(e, n).error
    BY <2>1, <1>4 DEF Operation
  <2> QED BY <2>2, <2>3, <2>4
<1>6. \A p \in End : p # e => op'[p] = op[p]
  BY <1>1, <1>3
<1>7. op' \in [End -> Operation]
  BY <1>1, <1>3, <1>5
<1>8. TypeOK'
  <2>1. op'[e].at + op'[e].n <= Total /\ op'[e].got <= op'[e].n
    BY <1>2, <1>5
  <2>2. \A d \in End : d # e => op'[d].at + op'[d].n <= Total /\ op'[d].got <= op'[d].n
    BY <1>3, <1>6 DEF TypeOK
  <2> QED BY <2>1, <2>2, <1>1, <1>3, <1>7 DEF TypeOK
<1>9. \A p \in End : Moved(p)' = Moved(p) /\ (Hopeless(p) => Hopeless(p)')
  BY <1>1 DEF Moved, Hopeless, HungUp, Held, EndsSeen
<1>10. OpOK(e)'
  BY <1>1, <1>2, <1>5 DEF OpOK
<1>11. Tracked(e)'
  <2>1. position'[e] = position[e] /\ result'[e] = result[e] /\ Moved(e)' = Moved(e)
    BY <1>1, <1>9
  <2>2. CASE position[e] = Moved(e)
    BY <2>1, <2>2, <1>2, <1>5 DEF Tracked, InStep
  <2>3. CASE Hopeless(e) /\ position[e] <= Moved(e) /\ result[e].is = "error"
    <3>1. position'[e] + op'[e].got <= Moved(e)'
      BY <2>1, <2>3, <1>2, <1>5
    <3> QED BY <3>1, <2>1, <2>3, <1>5, <1>9 DEF Tracked, Dead
  <2> QED BY <2>2, <2>3, <1>2
<1>12. \A p \in End : p # e => OpOK(p)' /\ Tracked(p)'
  BY <1>1, <1>6, <1>9, OtherEnd
<1>13. Bytes'
  BY <1>1 DEF IInv, Bytes
<1> QED BY <1>8, <1>10, <1>11, <1>12, <1>13 DEF IInv

(* read, write: some bytes for the blocked caller.                         *)
LEMMA BlockedTransferInv ==
  ASSUME IInv, NEW e \in End, BlockedTransfer(e)
  PROVE  IInv'
<1>1. op[e].state = "blocked" /\ ~Hopeless(e)
  BY DEF BlockedTransfer, Hopeless
<1>2. UNCHANGED <<impl, position, open, shut, result, cancelled>>
  BY DEF BlockedTransfer
<1>3. PICK k \in 1..Transferable(e, op[e]) :
        Transfer(e, op[e], k) /\ op' = [op EXCEPT ![e].got = op[e].got + k]
  BY DEF BlockedTransfer
<1>4. TypeOK /\ op \in [End -> Operation] /\ op[e].error = FALSE
  <2>1. OpOK(e) /\ TypeOK /\ op[e] \in Operation
    BY DEF IInv, TypeOK
  <2> QED BY <2>1, <1>1 DEF OpOK, Operation, TypeOK
<1>5. /\ op[e] \in Operation /\ op[e].at = position[e] /\ op[e].n > 0
      /\ op[e].at + op[e].n <= Total /\ op[e].got <= op[e].n
      /\ op[e].at + op[e].got = Moved(e)
  BY <1>1, <1>4, Progressing
<1>6. op[e].at \in Nat /\ op[e].n \in Nat /\ op[e].got \in Nat
  BY <1>5 DEF Operation
<1>7. /\ memory' \in [1..Total -> 0..Total]
      /\ wire' \in Seq(1..Total)
      /\ taken' \in 0..Len(wire')
      /\ Bytes'
      /\ k \in Nat /\ op[e].got + k <= op[e].n
      /\ Moved(e)' = Moved(e) + k
      /\ \A p \in End : p # e => Moved(p)' = Moved(p)
  BY <1>3, <1>5, TransferFacts
<1>8. \A p \in End : p # e => (Hopeless(p) => Hopeless(p)')
  BY <1>1, <1>2, <1>7, HopelessStays
<1>9. \A p \in End : p # e => op'[p] = op[p]
  BY <1>3, <1>4
<1>10. op'[e] = [op[e] EXCEPT !.got = op[e].got + k]
  BY <1>3, <1>4
<1>11. /\ op'[e] \in Operation
       /\ op'[e].state = "blocked" /\ op'[e].got = op[e].got + k
       /\ op'[e].at = op[e].at /\ op'[e].n = op[e].n /\ op'[e].error = FALSE
  <2>1. op[e].got + k \in Nat
    BY <1>6, <1>7
  <2> QED BY <2>1, <1>1, <1>4, <1>5, <1>10 DEF Operation
<1>12. op' \in [End -> Operation]
  BY <1>3, <1>4, <1>10, <1>11
<1>13. TypeOK'
  <2>1. \A d \in End : op'[d].at + op'[d].n <= Total /\ op'[d].got <= op'[d].n
    BY <1>4, <1>5, <1>7, <1>9, <1>11 DEF TypeOK
  <2> QED BY <2>1, <1>2, <1>4, <1>7, <1>12 DEF TypeOK
<1>14. OpOK(e)'
  BY <1>2, <1>5, <1>11 DEF OpOK
<1>15. Tracked(e)'
  <2>1. position'[e] + op'[e].got = Moved(e)' /\ Moved(e)' \in Nat
    BY <1>2, <1>5, <1>6, <1>7, <1>11
  <2> QED BY <2>1 DEF Tracked, InStep
<1>16. \A p \in End : p # e => OpOK(p)' /\ Tracked(p)'
  BY <1>2, <1>7, <1>8, <1>9, OtherEnd
<1> QED BY <1>7, <1>13, <1>14, <1>15, <1>16 DEF IInv

(* read, write: the blocked caller returns.                                *)
LEMMA ReturnInv ==
  ASSUME IInv, NEW e \in End, Return(e)
  PROVE  IInv'
<1> DEFINE done == op[e].got = op[e].n
<1>1. /\ op[e].state = "blocked"
      /\ done \/ Hopeless(e)
      /\ Settle(e, op[e], ~done, done)
  BY DEF Return, Hopeless
<1>2. UNCHANGED <<impl, memory, wire, taken, open, shut>>
  BY DEF Return, data
<1>3. OpOK(e) /\ Tracked(e) /\ op[e] \in Operation
  BY DEF IInv, TypeOK
<1>4. done => InStep(e)
  <2>1. op[e].n > 0 /\ op[e].n \in Nat
    BY <1>1, <1>3 DEF OpOK, Operation
  <2> QED BY <2>1, <1>1, <1>3 DEF Tracked, GivenUp, Dead
<1>5. (~done) \in BOOLEAN /\ done \in BOOLEAN
  OBVIOUS
<1> HIDE DEF done
<1>6. \/ done /\ InStep(e)
      \/ done /\ Dead(e) /\ ~done
      \/ ~done /\ ~done /\ (op[e].got = 0 \/ Hopeless(e) \/ impl \notin Retrying)
  BY <1>1, <1>4
<1> QED BY <1>1, <1>2, <1>5, <1>6, SettleInv

(* cancel and close abort; shutdown only changes what an attempt meets.    *)
LEMMA InterfaceInv ==
  ASSUME IInv, NEW e \in End, cancel(e) \/ close(e) \/ shutdown(e)
  PROVE  IInv'
<1>0. Handles(e) \in SUBSET End /\ cancelled \subseteq End /\ TypeOK
  BY DEF Handles, IInv, TypeOK
<1>1. CASE cancel(e)
  <2>1. /\ Abort(Handles(e)) /\ open' = open /\ cancelled' \subseteq End
        /\ UNCHANGED <<impl, position, memory, wire, taken, shut, result>>
    BY <1>0, <1>1 DEF cancel, data
  <2> QED BY <2>1, <1>0, AbortInv
<1>2. CASE close(e)
  <2>1. /\ Abort(Handles(e) \cap open) /\ open' \subseteq open /\ cancelled' \subseteq End
        /\ UNCHANGED <<impl, position, memory, wire, taken, shut, result>>
    BY <1>0, <1>2 DEF close, data
  <2>2. Handles(e) \cap open \in SUBSET End
    BY <1>0
  <2> QED BY <2>1, <2>2, AbortInv
<1>3. CASE shutdown(e)
  <2>1. /\ shut' = shut \cup {e}
        /\ UNCHANGED <<impl, position, memory, wire, taken, op, open, result, cancelled>>
    BY <1>3 DEF shutdown, data
  <2>2. \A p \in End : Moved(p)' = Moved(p) /\ (Hopeless(p) => Hopeless(p)')
    BY <2>1 DEF Moved, Hopeless, HungUp, Held, EndsSeen
  <2>3. \A p \in End : OpOK(p)' /\ Tracked(p)'
    BY <2>1, <2>2, OtherEnd
  <2>4. TypeOK'
    BY <2>1, <1>0 DEF TypeOK
  <2>5. Bytes'
    BY <2>1 DEF IInv, Bytes
  <2> QED BY <2>3, <2>4, <2>5 DEF IInv
<1> QED BY <1>1, <1>2, <1>3
-----------------------------------------------------------------------------
(* The theorems                                                            *)

(* The invariant holds in the initial states.                              *)
LEMMA InitInv == Init => IInv
<1> SUFFICES ASSUME Init PROVE IInv
  OBVIOUS
<1>1. NoOp \in Operation /\ NoOp.state = "idle" /\ NoOp.got = 0 /\ NoOp.at = 0
      /\ NoOp.n = 0 /\ NoOp.error = FALSE
  BY DEF NoOp, Operation, OpState
<1>2. wire = <<>> /\ Len(wire) = 0 /\ wire \in Seq(1..Total) /\ taken = 0
  BY DEF Init
<1>3. \A e \in End : op[e] = NoOp /\ position[e] = 0
  BY DEF Init
<1>4. TypeOK
  <2>1. result \in [End -> Outcome]
    BY DEF Init, Outcome
  <2>2. position \in [End -> 0..Total] /\ memory \in [1..Total -> 0..Total]
    BY ChannelAssumption DEF Init
  <2>3. impl \in Implementations
    BY ChannelAssumption DEF Init
  <2>4. op \in [End -> Operation]
    BY <1>1 DEF Init
  <2>5. \A e \in End : op[e].at + op[e].n <= Total /\ op[e].got <= op[e].n
    BY <1>1, <1>3, ChannelAssumption
  <2> QED BY <1>2, <2>1, <2>2, <2>3, <2>4, <2>5 DEF TypeOK, Init
<1>5. \A e \in End : OpOK(e)
  BY <1>1, <1>3 DEF OpOK
<1>6. \A e \in End : Tracked(e)
  BY <1>1, <1>2, <1>3 DEF Tracked, InStep, Moved
<1>7. Bytes
  BY <1>2 DEF Bytes
<1> QED BY <1>4, <1>5, <1>6, <1>7 DEF IInv

(* Every step keeps the invariant.                                         *)
LEMMA NextInv ==
  ASSUME TcpGivesUp, IInv, [Next]_vars
  PROVE  IInv'
<1>1. CASE Client
  <2>1. CASE \E n \in 1..Total : asyncRead(n) \/ asyncWrite(n)
    BY <2>1, StartInv DEF asyncRead, asyncWrite, End
  <2>2. CASE \E n \in 1..Total : read(n) \/ write(n)
    BY <2>2, CallInv DEF read, write, End
  <2>3. CASE \E e \in End : cancel(e) \/ close(e) \/ shutdown(e)
    BY <2>3, InterfaceInv
  <2> QED BY <1>1, <2>1, <2>2, <2>3 DEF Client
<1>2. CASE \E e \in End : Loop(e)
  <2>1. PICK e \in End : Loop(e)
    BY <1>2
  <2> QED
    BY <2>1, ReactorInv, ContinueInv, HandlerInv, BlockedTransferInv, ReturnInv DEF Loop
<1>3. CASE UNCHANGED vars
  <2>1. UNCHANGED <<impl, position, memory, wire, taken, op, open, shut, result, cancelled>>
    BY <1>3 DEF vars, data
  <2>2. \A p \in End : Moved(p)' = Moved(p) /\ (Hopeless(p) => Hopeless(p)')
    BY <2>1 DEF Moved, Hopeless, HungUp, Held, EndsSeen
  <2>3. \A p \in End : OpOK(p)' /\ Tracked(p)'
    BY <2>1, <2>2, OtherEnd
  <2>4. TypeOK' /\ Bytes'
    BY <2>1 DEF IInv, TypeOK, Bytes
  <2> QED BY <2>3, <2>4 DEF IInv
<1> QED BY <1>1, <1>2, <1>3 DEF Next

(* What the invariant gives the client.                                    *)
LEMMA InvGives == IInv => TypeOK /\ StreamFaithful /\ PositionExact
<1> SUFFICES ASSUME IInv PROVE TypeOK /\ StreamFaithful /\ PositionExact
  OBVIOUS
<1>1. TypeOK
  BY DEF IInv
<1>2. wire \in Seq(1..Total) /\ taken \in 0..Len(wire)
  BY <1>1 DEF TypeOK
<1>3. Len(wire) \in Nat
  BY <1>2, LenProperties
<1>4. ASSUME NEW e \in End
      PROVE  /\ position[e] \in Nat /\ Moved(e) \in Nat
             /\ position[e] <= Moved(e)
             /\ op[e].state = "idle" /\ result[e].is # "error" => position[e] = Moved(e)
  <2>1. OpOK(e) /\ Tracked(e) /\ op[e] \in Operation
    BY DEF IInv, TypeOK
  <2>2. op[e].got \in Nat /\ position[e] \in Nat
    BY <2>1, <1>1 DEF Operation, TypeOK
  <2>3. Moved(e) \in Nat
    BY <1>2, <1>3 DEF Moved
  <2>4. position[e] <= Moved(e)
    BY <2>1, <2>2, <2>3 DEF Tracked
  <2>5. ASSUME op[e].state = "idle", result[e].is # "error"
        PROVE  position[e] = Moved(e)
    <3>1. op[e].got = 0
      BY <2>1, <2>5 DEF OpOK, NoOp
    <3>2. position[e] + op[e].got = Moved(e)
      BY <2>1, <2>5 DEF Tracked, InStep, GivenUp, Dead
    <3> QED BY <3>1, <3>2, <2>2, <2>3
  <2> QED BY <2>2, <2>3, <2>4, <2>5
<1>5. PositionExact
  BY <1>4 DEF PositionExact, Moved
<1>6. StreamFaithful
  <2>1. position["reader"] <= taken /\ position["reader"] \in Nat /\ taken \in Nat
    BY <1>2, <1>3, <1>4 DEF Moved, End
  <2>2. \A i \in 1..taken : memory[i] = i
    BY DEF IInv, Bytes
  <2> QED BY <2>1, <2>2 DEF StreamFaithful
<1> QED BY <1>1, <1>5, <1>6

(* The types of the state are kept (all actions of StreamChannel).         *)
THEOREM ChannelTypeOK ==
  ASSUME TcpGivesUp
  PROVE  Spec => []TypeOK
<1>1. Init => IInv
  BY InitInv
<1>2. IInv /\ [Next]_vars => IInv'
  BY NextInv
<1>3. IInv => TypeOK
  BY InvGives
<1> QED BY <1>1, <1>2, <1>3, PTL DEF Spec

(* The reader's buffer holds the writer's bytes in order, none lost and    *)
(* none twice, for buffers of every length, kernel queues of every size    *)
(* and every split of the transfers, whatever is cancelled, closed, shut   *)
(* down or retried, if a client of TcpSocketImpl gives up on an error      *)
(* (pipe.cpp:53-113, serialChannel.cpp:87-147, tcpsocket.cpp:50-109,       *)
(* streamdomainsocket.cpp:84-147).                                         *)
THEOREM ChannelFaithful ==
  ASSUME TcpGivesUp
  PROVE  Spec => []StreamFaithful
<1>1. Init => IInv
  BY InitInv
<1>2. IInv /\ [Next]_vars => IInv'
  BY NextInv
<1>3. IInv => StreamFaithful
  BY InvGives
<1> QED BY <1>1, <1>2, <1>3, PTL DEF Spec

(* Under the same assumption a buffer's position never runs ahead of the   *)
(* kernel, and is exact for an end that has not met an error.              *)
THEOREM ChannelPositionExact ==
  ASSUME TcpGivesUp
  PROVE  Spec => []PositionExact
<1>1. Init => IInv
  BY InitInv
<1>2. IInv /\ [Next]_vars => IInv'
  BY NextInv
<1>3. IInv => PositionExact
  BY InvGives
<1> QED BY <1>1, <1>2, <1>3, PTL DEF Spec
-----------------------------------------------------------------------------
(* What a value means.  None of this needs a client that gives up.         *)

ResolvedTypeOK ==
  /\ impl \in Implementations
  /\ position \in [End -> Nat]
  /\ wire \in Seq(Nat) /\ taken \in Nat
  /\ op \in [End -> Operation]
  /\ result \in [End -> Outcome]

(* An operation works from the buffer's present position, on what it was   *)
(* asked for; a completion without an error comes with bytes.              *)
Working(e) ==
  /\ op[e].state # "idle" => op[e].at = position[e] /\ op[e].n > 0
  /\ op[e].got <= op[e].n
  /\ op[e].state = "completed" /\ op[e].error = FALSE => op[e].got > 0

(* What a value means at one end: all the bytes, of a socket; of a pipe or *)
(* a serial line at least one, and no more than were asked for.            *)
Reported(e) ==
  result[e].is = "value" =>
    IF impl \in StreamSockets
    THEN position[e] = result[e].at + result[e].n
    ELSE position[e] \in (result[e].at + 1)..(result[e].at + result[e].n)

ResolvedInv == ResolvedTypeOK /\ \A e \in End : Working(e) /\ Reported(e)

(* A transfer moves at least a byte, and no more than is left to do.       *)
LEMMA ResolvedTransfer ==
  ASSUME ResolvedTypeOK, NEW e \in End, NEW o \in Operation, o.got <= o.n,
         NEW k \in 1..Transferable(e, o), Transfer(e, o, k)
  PROVE  /\ wire' \in Seq(Nat) /\ taken' \in Nat
         /\ k \in Nat /\ k > 0 /\ o.got + k <= o.n
<1>1. /\ wire \in Seq(Nat) /\ Len(wire) \in Nat /\ taken \in Nat /\ Capacity \in Nat
      /\ o.at \in Nat /\ o.n \in Nat /\ o.got \in Nat
  BY ChannelAssumption, LenProperties DEF ResolvedTypeOK, Operation
<1>2. k \in Nat /\ k > 0 /\ k <= o.n - o.got
  BY <1>1 DEF Transferable, Held
<1>3. CASE e = "reader"
  BY <1>1, <1>2, <1>3 DEF Transfer
<1>4. CASE e # "reader"
  <2> DEFINE new == [i \in 1..k |-> o.at + o.got + i]
  <2>1. wire' = wire \o new /\ taken' = taken
    BY <1>4 DEF Transfer
  <2>2. \A i \in 1..k : o.at + o.got + i \in Nat
    BY <1>1, <1>2
  <2>3. new \in Seq(Nat)
    BY <1>2, <2>2
  <2> HIDE DEF new
  <2> QED BY <1>1, <1>2, <2>1, <2>3
<1> QED BY <1>3, <1>4

(* Steps that change the operation of one end and resolve nothing.         *)
LEMMA ResolvedOneOp ==
  ASSUME ResolvedInv, NEW e \in End, NEW o \in Operation,
         op' = [op EXCEPT ![e] = o],
         o.state # "idle", o.at = position[e], o.n > 0, o.got <= o.n,
         o.state = "completed" /\ o.error = FALSE => o.got > 0,
         wire' \in Seq(Nat), taken' \in Nat,
         UNCHANGED <<impl, position, result>>
  PROVE  ResolvedInv'
<1>1. op \in [End -> Operation]
  BY DEF ResolvedInv, ResolvedTypeOK
<1>2. op' \in [End -> Operation] /\ op'[e] = o /\ \A p \in End : p # e => op'[p] = op[p]
  BY <1>1
<1>3. ResolvedTypeOK'
  BY <1>2 DEF ResolvedInv, ResolvedTypeOK
<1>4. ASSUME NEW p \in End PROVE Working(p)' /\ Reported(p)'
  <2>1. Working(p) /\ Reported(p)
    BY DEF ResolvedInv
  <2>2. Reported(p)'
    BY <2>1 DEF Reported, StreamSockets
  <2>3. CASE p = e
    BY <1>2, <2>2, <2>3 DEF Working
  <2>4. CASE p # e
    BY <1>2, <2>1, <2>2, <2>4 DEF Working
  <2> QED BY <2>3, <2>4
<1> QED BY <1>3, <1>4 DEF ResolvedInv

(* An attempt at an operation: started, taken up by the reactor or gone on *)
(* with.                                                                   *)
LEMMA ResolvedAttempt ==
  ASSUME ResolvedInv, NEW e \in End, NEW o \in Operation,
         o.at = position[e], o.n > 0, o.got <= o.n,
         Succeeds(e, o) \/ Fails(e, o) \/ WouldBlock(e, o),
         UNCHANGED <<impl, position, open, shut, result, cancelled>>
  PROVE  ResolvedInv'
<1>0. ResolvedTypeOK /\ wire \in Seq(Nat) /\ taken \in Nat
      /\ o.at \in Nat /\ o.n \in Nat /\ o.got \in Nat
  BY DEF ResolvedInv, ResolvedTypeOK, Operation
<1>1. CASE Succeeds(e, o)
  <2>1. PICK k \in 1..Transferable(e, o) :
          /\ Transfer(e, o, k)
          /\ op' = [op EXCEPT ![e] = [o EXCEPT !.state = "completed", !.got = o.got + k]]
    BY <1>1 DEF Succeeds
  <2>2. wire' \in Seq(Nat) /\ taken' \in Nat /\ k \in Nat /\ k > 0 /\ o.got + k <= o.n
    BY <1>0, <2>1, ResolvedTransfer
  <2> DEFINE g == o.got + k
             u == [o EXCEPT !.state = "completed", !.got = g]
  <2>4. g \in Nat /\ g > 0 /\ g <= o.n
    BY <1>0, <2>2
  <2>5. op' = [op EXCEPT ![e] = u]
    BY <2>1
  <2> HIDE DEF g
  <2>3. /\ u \in Operation /\ u.state = "completed" /\ u.at = o.at /\ u.n = o.n
        /\ u.got = g
    BY <2>4 DEF Operation, OpState
  <2> HIDE DEF u
  <2> QED BY <2>2, <2>3, <2>4, <2>5, ResolvedOneOp
<1>2. CASE Fails(e, o)
  <2> DEFINE u == [o EXCEPT !.state = "completed", !.error = TRUE]
  <2>1. /\ u \in Operation /\ u.state = "completed" /\ u.at = o.at /\ u.n = o.n
        /\ u.got = o.got /\ u.error = TRUE
    BY DEF Operation, OpState
  <2>2. op' = [op EXCEPT ![e] = u] /\ wire' = wire /\ taken' = taken
    BY <1>2 DEF Fails, data
  <2> HIDE DEF u
  <2>3. ~(u.error = FALSE)
    BY <2>1
  <2> QED BY <1>0, <2>1, <2>2, <2>3, ResolvedOneOp
<1>3. CASE WouldBlock(e, o)
  <2> DEFINE u == [o EXCEPT !.state = "waiting"]
  <2>1. /\ u \in Operation /\ u.state = "waiting" /\ u.at = o.at /\ u.n = o.n
        /\ u.got = o.got
    BY DEF Operation, OpState
  <2>2. op' = [op EXCEPT ![e] = u] /\ wire' = wire /\ taken' = taken
    BY <1>3 DEF WouldBlock, data
  <2> HIDE DEF u
  <2> QED BY <1>0, <2>1, <2>2, ResolvedOneOp
<1> QED BY <1>1, <1>2, <1>3

(* Resolving the promise: one that reports a value has transferred all it  *)
(* was asked for, or at least a byte of it where the code asks for one     *)
(* transfer.                                                               *)
LEMMA ResolvedSettle ==
  ASSUME ResolvedInv, NEW e \in End, NEW error, NEW advances, op[e].state # "idle",
         Settle(e, op[e], error, advances),
         UNCHANGED <<impl, memory, wire, taken, open, shut>>,
         ~error => /\ advances /\ op[e].got > 0
                   /\ impl \in StreamSockets => op[e].got = op[e].n
  PROVE  ResolvedInv'
<1> DEFINE r == [is |-> IF error THEN "error" ELSE "value", at |-> op[e].at, n |-> op[e].n]
           p2 == IF advances THEN position[e] + op[e].got ELSE position[e]
<1>0. /\ ResolvedTypeOK /\ position \in [End -> Nat] /\ op \in [End -> Operation]
      /\ result \in [End -> Outcome]
  BY DEF ResolvedInv, ResolvedTypeOK
<1>1. /\ op[e].at \in Nat /\ op[e].n \in Nat /\ op[e].got \in Nat /\ position[e] \in Nat
      /\ op[e].at = position[e] /\ op[e].got <= op[e].n
  BY <1>0 DEF ResolvedInv, Working, Operation
<1>2. /\ position' = [position EXCEPT ![e] = p2]
      /\ result' = [result EXCEPT ![e] = r]
      /\ op' = [op EXCEPT ![e] = NoOp]
  BY DEF Settle
<1>3. /\ NoOp \in Operation /\ NoOp.state = "idle" /\ NoOp.got = 0 /\ NoOp.n = 0
  BY DEF NoOp, Operation, OpState
<1>4. /\ r \in Outcome /\ r.at = op[e].at /\ r.n = op[e].n
      /\ r.is = IF error THEN "error" ELSE "value"
  BY <1>1 DEF Outcome
<1>5. p2 \in Nat
  BY <1>1
<1>6. ~error => p2 = op[e].at + op[e].got
  BY <1>1
<1> HIDE DEF r, p2
<1>7. /\ position' \in [End -> Nat] /\ position'[e] = p2
      /\ op' \in [End -> Operation] /\ op'[e] = NoOp
      /\ result' \in [End -> Outcome] /\ result'[e] = r
      /\ \A p \in End : p # e => /\ position'[p] = position[p] /\ op'[p] = op[p]
                                 /\ result'[p] = result[p]
  BY <1>0, <1>2, <1>3, <1>4, <1>5
<1>8. ResolvedTypeOK'
  BY <1>0, <1>7 DEF ResolvedTypeOK
<1>9. Working(e)' /\ Reported(e)'
  <2>1. Working(e)'
    BY <1>3, <1>7 DEF Working
  <2>2. ASSUME result'[e].is = "value"
        PROVE  /\ impl \in StreamSockets => position'[e] = result'[e].at + result'[e].n
               /\ position'[e] \in (result'[e].at + 1)..(result'[e].at + result'[e].n)
    <3>1. ~error
      BY <1>4, <1>7, <2>2
    <3>2. /\ position'[e] = op[e].at + op[e].got /\ result'[e].at = op[e].at
          /\ result'[e].n = op[e].n
      BY <1>4, <1>6, <1>7, <3>1
    <3>3. op[e].got > 0 /\ (impl \in StreamSockets => op[e].got = op[e].n)
      BY <3>1
    <3> QED BY <1>1, <3>2, <3>3
  <2> QED BY <2>1, <2>2 DEF Reported, StreamSockets
<1>10. ASSUME NEW p \in End, p # e PROVE Working(p)' /\ Reported(p)'
  <2>1. Working(p) /\ Reported(p)
    BY DEF ResolvedInv
  <2> QED BY <1>7, <1>10, <2>1 DEF Working, Reported, StreamSockets
<1> QED BY <1>8, <1>9, <1>10 DEF ResolvedInv

(* A step of a client that starts an operation.                            *)
LEMMA ResolvedStart ==
  ASSUME ResolvedInv, NEW e \in End, NEW n \in 1..Total, Start(e, n) \/ Call(e, n)
  PROVE  ResolvedInv'
<1> DEFINE o == asio_buffer(e, n)
<1>0. ResolvedTypeOK /\ position[e] \in Nat /\ n \in Nat /\ n > 0
      /\ wire \in Seq(Nat) /\ taken \in Nat
  BY ChannelAssumption DEF ResolvedInv, ResolvedTypeOK
<1>1. o \in Operation /\ o.at = position[e] /\ o.n = n /\ o.got = 0
  BY <1>0 DEF asio_buffer, Operation, OpState
<1>2. CASE Start(e, n)
  <2>1. /\ Succeeds(e, o) \/ Fails(e, o) \/ WouldBlock(e, o)
        /\ UNCHANGED <<impl, position, open, shut, result, cancelled>>
    BY <1>2 DEF Start
  <2> HIDE DEF o
  <2>2. o.n > 0 /\ o.got <= o.n
    BY <1>0, <1>1
  <2> QED BY <1>1, <2>1, <2>2, ResolvedAttempt
<1>3. CASE Call(e, n)
  <2> DEFINE u == [o EXCEPT !.state = "blocked"]
  <2>1. op' = [op EXCEPT ![e] = u] /\ UNCHANGED <<impl, position, result>>
        /\ wire' = wire /\ taken' = taken
    BY <1>3 DEF Call, data
  <2> HIDE DEF o
  <2>2. /\ u \in Operation /\ u.state = "blocked" /\ u.at = o.at /\ u.n = o.n /\ u.got = o.got
    BY <1>1 DEF Operation, OpState
  <2> HIDE DEF u
  <2>3. u.n > 0 /\ u.got <= u.n
    BY <1>0, <1>1, <2>2
  <2> QED BY <1>0, <1>1, <2>1, <2>2, <2>3, ResolvedOneOp
<1> QED BY <1>2, <1>3

(* The loop's thread, and the thread of a caller that is blocked.          *)
LEMMA ResolvedLoop ==
  ASSUME ResolvedInv, NEW e \in End, Loop(e)
  PROVE  ResolvedInv'
<1>0. /\ ResolvedTypeOK /\ Working(e) /\ op[e] \in Operation
      /\ wire \in Seq(Nat) /\ taken \in Nat
  BY DEF ResolvedInv, ResolvedTypeOK
<1>1. op[e].got \in Nat /\ op[e].n \in Nat /\ op[e].at \in Nat
  BY <1>0 DEF Operation
<1>2. CASE Reactor(e) \/ Continue(e)
  <2>1. /\ op[e].state # "idle"
        /\ Succeeds(e, op[e]) \/ Fails(e, op[e]) \/ WouldBlock(e, op[e])
        /\ UNCHANGED <<impl, position, open, shut, result, cancelled>>
    BY <1>2 DEF Reactor, Continue
  <2>2. op[e].at = position[e] /\ op[e].n > 0 /\ op[e].got <= op[e].n
    BY <1>0, <2>1 DEF Working
  <2> QED BY <1>0, <2>1, <2>2, ResolvedAttempt
<1>3. CASE Handler(e)
  <2> DEFINE err == op[e].error
             adv == ~op[e].error \/ impl \in AdvancesOnError
  <2>1. /\ op[e].state = "completed" /\ ~Unfinished(op[e])
        /\ Settle(e, op[e], err, adv)
        /\ UNCHANGED <<impl, memory, wire, taken, open, shut>>
    BY <1>3 DEF Handler, data
  <2>2. ASSUME ~err
        PROVE  /\ adv /\ op[e].got > 0
               /\ impl \in StreamSockets => op[e].got = op[e].n
    <3>1. op[e].error \in BOOLEAN
      BY <1>0 DEF Operation
    <3>2. op[e].error = FALSE
      BY <2>2, <3>1
    <3>3. op[e].got > 0 /\ op[e].got <= op[e].n
      BY <1>0, <2>1, <3>2 DEF Working
    <3>4. impl \in StreamSockets => ~(op[e].got < op[e].n)
      BY <2>1, <2>2 DEF Unfinished, Composed, StreamSockets
    <3>5. adv
      BY <2>2
    <3> QED BY <1>1, <3>3, <3>4, <3>5
  <2> HIDE DEF err, adv
  <2> QED BY <2>1, <2>2, ResolvedSettle
<1>4. CASE BlockedTransfer(e)
  <2>1. PICK k \in 1..Transferable(e, op[e]) :
          Transfer(e, op[e], k) /\ op' = [op EXCEPT ![e].got = op[e].got + k]
    BY <1>4 DEF BlockedTransfer
  <2>2. op[e].state = "blocked" /\ UNCHANGED <<impl, position, result>>
    BY <1>4 DEF BlockedTransfer
  <2>3. op[e].at = position[e] /\ op[e].n > 0 /\ op[e].got <= op[e].n
    BY <1>0, <2>2 DEF Working
  <2>4. wire' \in Seq(Nat) /\ taken' \in Nat /\ k \in Nat /\ op[e].got + k <= op[e].n
    BY <1>0, <2>1, <2>3, ResolvedTransfer
  <2> DEFINE g == op[e].got + k
             u == [op[e] EXCEPT !.got = g]
  <2>5. g \in Nat /\ g <= op[e].n /\ op' = [op EXCEPT ![e] = u]
    BY <1>1, <2>1, <2>4
  <2> HIDE DEF g
  <2>6. /\ u \in Operation /\ u.state = "blocked" /\ u.at = op[e].at /\ u.n = op[e].n
        /\ u.got = g
    BY <1>0, <2>2, <2>5 DEF Operation, OpState
  <2> HIDE DEF u
  <2> QED BY <2>2, <2>3, <2>4, <2>5, <2>6, ResolvedOneOp
<1>5. CASE Return(e)
  <2> DEFINE done == op[e].got = op[e].n
  <2>1. /\ op[e].state = "blocked" /\ Settle(e, op[e], ~done, done)
        /\ UNCHANGED <<impl, memory, wire, taken, open, shut>>
    BY <1>5 DEF Return, data
  <2>2. op[e].n > 0
    BY <1>0, <2>1 DEF Working
  <2>3. ASSUME ~~done
        PROVE  done /\ op[e].got > 0 /\ (impl \in StreamSockets => op[e].got = op[e].n)
    BY <2>2, <2>3
  <2> HIDE DEF done
  <2> QED BY <2>1, <2>3, ResolvedSettle
<1> QED BY <1>2, <1>3, <1>4, <1>5 DEF Loop

(* cancel, close and shutdown complete what waits with an error.           *)
LEMMA ResolvedInterface ==
  ASSUME ResolvedInv, NEW e \in End, cancel(e) \/ close(e) \/ shutdown(e)
  PROVE  ResolvedInv'
<1>0. ResolvedTypeOK /\ op \in [End -> Operation]
  BY DEF ResolvedInv, ResolvedTypeOK
<1>1. UNCHANGED <<impl, position, wire, taken, result>>
  BY DEF cancel, close, shutdown, data
<1>2. (\E ends \in SUBSET End : Abort(ends)) \/ op' = op
  <2>1. Handles(e) \in SUBSET End
    BY DEF Handles
  <2> QED BY <2>1 DEF cancel, close, shutdown
<1>3. ASSUME NEW p \in End
      PROVE  /\ op'[p] \in Operation /\ op'[p].got = op[p].got /\ op'[p].n = op[p].n
             /\ op'[p].at = op[p].at
             /\ op'[p].state = "idle" <=> op[p].state = "idle"
             /\ op'[p].state = "completed" /\ op'[p].error = FALSE =>
                  op[p].state = "completed" /\ op[p].error = FALSE
  <2>1. CASE op' = op
    BY <1>0, <2>1
  <2>2. CASE \E ends \in SUBSET End : Abort(ends)
    <3>1. PICK ends \in SUBSET End : Abort(ends)
      BY <2>2
    <3> DEFINE u == [op[p] EXCEPT !.state = "completed", !.error = TRUE]
    <3>2. op'[p] = IF p \in ends /\ op[p].state = "waiting" THEN u ELSE op[p]
      BY <3>1 DEF Abort
    <3>3. /\ u \in Operation /\ u.state = "completed" /\ u.at = op[p].at /\ u.n = op[p].n
          /\ u.got = op[p].got /\ u.error = TRUE
      BY <1>0 DEF Operation, OpState
    <3> HIDE DEF u
    <3>4. ~(u.error = FALSE)
      BY <3>3
    <3> QED BY <1>0, <3>2, <3>3, <3>4
  <2> QED BY <1>2, <2>1, <2>2
<1>4. op' \in [End -> Operation]
  <2>1. \E f : op' = [p \in End |-> f[p]]
    BY <1>0, <1>2 DEF Abort
  <2> QED BY <1>3, <2>1
<1>5. ResolvedTypeOK'
  BY <1>0, <1>1, <1>4 DEF ResolvedTypeOK
<1>6. ASSUME NEW p \in End PROVE Working(p)' /\ Reported(p)'
  <2>1. Working(p) /\ Reported(p)
    BY DEF ResolvedInv
  <2>2. Working(p)'
    BY <1>1, <1>3, <2>1 DEF Working
  <2> QED BY <1>1, <2>1, <2>2 DEF Reported, StreamSockets
<1> QED BY <1>5, <1>6 DEF ResolvedInv

(* "A future that will be resolved one the scpecified number of bytes has  *)
(* been read" (channel.hpp:90): of a socket, whatever its client does      *)
(* after errors, and however transfers, cancellations and closes           *)
(* interleave (tcpsocket.cpp:50-109, streamdomainsocket.cpp:84-143).       *)
THEOREM ChannelResolvedMeansDone == Spec => []ResolvedMeansDone
<1>1. Init => ResolvedInv
  <2> SUFFICES ASSUME Init PROVE ResolvedInv
    OBVIOUS
  <2>1. /\ NoOp \in Operation /\ NoOp.state = "idle" /\ NoOp.got = 0 /\ NoOp.n = 0
    BY DEF NoOp, Operation, OpState
  <2>2. ResolvedTypeOK
    BY <2>1, ChannelAssumption DEF Init, ResolvedTypeOK, Outcome
  <2>3. \A e \in End : op[e] = NoOp /\ result[e].is = "none"
    BY DEF Init
  <2> QED BY <2>1, <2>2, <2>3 DEF ResolvedInv, Working, Reported
<1>2. ResolvedInv /\ [Next]_vars => ResolvedInv'
  <2> SUFFICES ASSUME ResolvedInv, [Next]_vars PROVE ResolvedInv'
    OBVIOUS
  <2>1. CASE \E n \in 1..Total : asyncRead(n) \/ asyncWrite(n) \/ read(n) \/ write(n)
    <3>1. "reader" \in End /\ "writer" \in End
      BY DEF End
    <3> QED BY <2>1, <3>1, ResolvedStart DEF asyncRead, asyncWrite, read, write
  <2>2. CASE \E e \in End : cancel(e) \/ close(e) \/ shutdown(e)
    BY <2>2, ResolvedInterface
  <2>3. CASE \E e \in End : Loop(e)
    BY <2>3, ResolvedLoop
  <2>4. CASE UNCHANGED vars
    BY <2>4 DEF vars, data, ResolvedInv, ResolvedTypeOK, Working, Reported, StreamSockets
  <2> QED BY <2>1, <2>2, <2>3, <2>4 DEF Next, Client
<1>3. ResolvedInv => ResolvedMeansDone
  BY DEF ResolvedInv, Reported, ResolvedMeansDone, FutureMeansAllBytes
<1> QED BY <1>1, <1>2, <1>3, PTL DEF Spec
=============================================================================
