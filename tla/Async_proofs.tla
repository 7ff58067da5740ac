---------------------------- MODULE Async_proofs ----------------------------
(***************************************************************************)
(* Proofs about Waits, for any number of waits, notifications, deadlines   *)
(* and signals, and however the threads interleave; and about              *)
(* DatagramSocket, for buffers and datagrams of every size.                *)
(***************************************************************************)
EXTENDS Waits, DatagramSocket, Vector_proofs, FunctionTheorems

Completion == [wait : Wait, error : {"none", "aborted"}, what : Nat]
Future == [is : {"none", "pending", "error", "value"}, what : Nat]

(* Waits go through asio and the event loop in the order they were         *)
(* started: the ones on their way are the last ones started, and those     *)
(* before them are resolved.                                               *)
Resolved == started - Len(waiting) - Len(queued)

LineTypeOK ==
  /\ started \in 0..MaxWaits
  /\ waiting \in Seq(Wait)
  /\ queued \in Seq(Completion)
  /\ future \in [Wait -> Future]

InLine ==
  /\ Resolved \in Nat
  /\ \A i \in 1..Len(waiting) : waiting[i] = Resolved + Len(queued) + i
  /\ \A i \in 1..Len(queued) : queued[i].wait = Resolved + i
  /\ \A w \in Wait : /\ w <= Resolved => future[w].is \in {"error", "value"}
                     /\ w > Resolved /\ w <= started => future[w].is = "pending"
                     /\ w > started => future[w].is = "none"

Line == LineTypeOK /\ InLine

(* The rest of the state.                                                  *)
TypeOK ==
  /\ counter \in Nat /\ notified \in Nat
  /\ deadline \in Nat
  /\ under \in [Wait -> Nat]
  /\ pipe \in Seq(Signals)
  /\ undelivered \in [Signals -> Nat] /\ raised \in [Signals -> Nat]

(* A signal is kept only while nobody waits.                               *)
KeptForNobody ==
  source = "SignalSet" => \A s \in Signals : undelivered[s] > 0 => waiting = <<>>

(* The deadlines of a Timer that the waits it has completed, and those it  *)
(* has not, were started under.                                            *)
Timely ==
  source = "Timer" =>
    /\ \A i \in 1..Len(waiting) : under[waiting[i]] = deadline
    /\ \A w \in Wait : Succeeded(w) => under[w] \in passed

Inv == Line /\ TypeOK /\ KeptForNobody /\ Timely /\ NoSpuriousWakeup /\ NoSignalLost

(* The call in progress, and the operations outstanding when it was made.  *)
LoopInv ==
  /\ owed \subseteq 1..started
  /\ inside = "none" => owed = {}
  /\ inside = "none" /\ fresh /\ stopped => asked
  /\ inside # "none" /\ stopped /\ ~asked => owed \subseteq 1..Resolved
  /\ ~early
-----------------------------------------------------------------------------
(* How waits move                                                          *)

(* The next wait to be started has nothing yet.                            *)
LEMMA NextWaitFresh ==
  ASSUME Line, started < MaxWaits
  PROVE  /\ started + 1 \in Wait
         /\ future[started + 1].is = "none"
         /\ \A i \in 1..Len(queued) : queued[i].wait # started + 1
<1>1. started \in Nat /\ MaxWaits \in Nat /\ Len(queued) \in Nat /\ Len(waiting) \in Nat
  BY WaitsAssumption DEF Line, LineTypeOK
<1>2. started + 1 \in Wait
  BY <1>1 DEF Wait
<1>3. future[started + 1].is = "none"
  BY <1>1, <1>2 DEF Line, InLine
<1>4. \A i \in 1..Len(queued) : queued[i].wait <= started /\ queued[i].wait \in Nat
  BY <1>1 DEF Line, InLine, Resolved
<1> QED BY <1>1, <1>2, <1>3, <1>4

(* asyncWait whose wait stays with asio (event.cpp:43, timer.cpp:50,       *)
(* signalSet.cpp:38): the line grows by one and nothing else changes.      *)
LEMMA KeepWaitingFacts ==
  ASSUME Line, StartWait, KeepWaiting
  PROVE  /\ Line'
         /\ Resolved' = Resolved
         /\ \A w \in Wait : Succeeded(w)' <=> Succeeded(w)
         /\ \A w \in Wait : \A s : SucceededWith(w, s)' <=> SucceededWith(w, s)
<1> DEFINE n == started + 1
           pending == [is |-> "pending", what |-> 0]
<1>0. started \in Nat /\ MaxWaits \in Nat /\ Len(queued) \in Nat /\ Len(waiting) \in Nat
      /\ waiting \in Seq(Wait) /\ future \in [Wait -> Future]
  BY WaitsAssumption DEF Line, LineTypeOK
<1>1. n \in Wait /\ future[n].is = "none"
  BY NextWaitFresh DEF StartWait
<1>2. waiting' = Append(waiting, n) /\ queued' = queued /\ started' = n
  BY DEF KeepWaiting, StartWait
<1>3. /\ waiting' \in Seq(Wait) /\ Len(waiting') = Len(waiting) + 1
      /\ \A i \in 1..Len(waiting) : waiting'[i] = waiting[i]
      /\ waiting'[Len(waiting) + 1] = n
  BY <1>0, <1>1, <1>2
<1>4. Resolved' = Resolved
  BY <1>0, <1>2, <1>3 DEF Resolved
<1>5. future' = [future EXCEPT ![n] = pending] /\ pending \in Future /\ pending.is = "pending"
  BY DEF StartWait, Future
<1> HIDE DEF pending
<1>6. future' \in [Wait -> Future] /\ future'[n].is = "pending"
      /\ \A w \in Wait : w # n => future'[w] = future[w]
  BY <1>0, <1>1, <1>5
<1>7. LineTypeOK'
  <2>1. n \in 0..MaxWaits
    BY <1>0, <1>1 DEF Wait
  <2> QED BY <1>2, <1>3, <1>6, <2>1 DEF Line, LineTypeOK
<1>8. InLine'
  <2>1. Resolved \in Nat /\ Resolved + Len(queued) + (Len(waiting) + 1) = n
    BY <1>0 DEF Line, InLine, Resolved
  <2>2. \A i \in 1..(Len(waiting) + 1) : waiting'[i] = Resolved + Len(queued) + i
    <3>1. \A i \in 1..Len(waiting) : waiting'[i] = Resolved + Len(queued) + i
      BY <1>3 DEF Line, InLine
    <3>2. \A i \in 1..(Len(waiting) + 1) : i \in 1..Len(waiting) \/ i = Len(waiting) + 1
      BY <1>0
    <3> QED BY <1>3, <2>1, <3>1, <3>2
  <2>3. \A w \in Wait : /\ w <= Resolved => future'[w].is \in {"error", "value"}
                        /\ w > Resolved /\ w <= n => future'[w].is = "pending"
                        /\ w > n => future'[w].is = "none"
    <3>1. \A w \in Wait : w \in Nat
      BY DEF Wait
    <3>2. Resolved < n
      BY <1>0, <2>1
    <3>3. \A w \in Wait : w # n => (w > n <=> w > started) /\ (w <= n <=> w <= started)
      BY <1>0, <3>1
    <3>4. \A w \in Wait : w # n => /\ w <= Resolved => future'[w].is \in {"error", "value"}
                                   /\ w > Resolved /\ w <= n => future'[w].is = "pending"
                                   /\ w > n => future'[w].is = "none"
      BY <1>6, <3>1, <3>3 DEF Line, InLine
    <3>5. ~(n <= Resolved) /\ ~(n > n)
      BY <1>0, <2>1
    <3> QED BY <1>6, <3>4, <3>5
  <2> QED BY <1>2, <1>3, <1>4, <2>1, <2>2, <2>3 DEF Line, InLine
<1>9. \A w \in Wait : (future'[w].is = "value" <=> future[w].is = "value")
                      /\ (future[w].is = "value" => future'[w] = future[w])
  BY <1>1, <1>6
<1> QED BY <1>2, <1>4, <1>7, <1>8, <1>9 DEF Line, Succeeded, SucceededWith

(* What CompleteFirst appends to the event loop's queue: the completions   *)
(* of the first n waits, which leave asio's hands.                         *)
LEMMA CompleteFirstFacts ==
  ASSUME Line, NEW n \in 0..Len(waiting), NEW error \in {"none", "aborted"}, NEW what \in Nat,
         CompleteFirst(n, error, what)
  PROVE  /\ Line'
         /\ Resolved' = Resolved
         /\ Len(waiting') = Len(waiting) - n
         /\ Len(queued') = Len(queued) + n
         /\ \A i \in 1..Len(waiting') : waiting'[i] = waiting[n + i]
         /\ \A i \in 1..Len(queued) : queued'[i] = queued[i]
         /\ \A i \in 1..n : queued'[Len(queued) + i] =
                              [wait |-> waiting[i], error |-> error, what |-> what]
         /\ future' = future
<1> DEFINE first == SubSeq(waiting, 1, n)
           done == Completed(first, error, what)
           q == Len(queued)
           m == Len(waiting)
<1>0. /\ started \in Nat /\ m \in Nat /\ q \in Nat /\ n \in Nat /\ n <= m
      /\ waiting \in Seq(Wait) /\ queued \in Seq(Completion)
  BY DEF Line, LineTypeOK
<1>1. first \in Seq(Wait) /\ Len(first) = n /\ \A i \in 1..n : first[i] = waiting[i]
  BY <1>0
<1>2. waiting' = SubSeq(waiting, n + 1, m) /\ queued' = queued \o done
      /\ UNCHANGED <<source, started, future>>
  BY DEF CompleteFirst
<1>3. waiting' \in Seq(Wait) /\ Len(waiting') = m - n
      /\ \A i \in 1..(m - n) : waiting'[i] = waiting[n + i]
  BY <1>0, <1>2
<1>4. /\ done \in Seq(Completion) /\ Len(done) = n
      /\ \A i \in 1..n : done[i] = [wait |-> waiting[i], error |-> error, what |-> what]
  <2>1. done = [i \in 1..n |-> [wait |-> first[i], error |-> error, what |-> what]]
    BY <1>1 DEF Completed
  <2> HIDE DEF first, done
  <2>2. \A i \in 1..n : first[i] \in Wait
    BY <1>1
  <2>3. \A i \in 1..n : [wait |-> first[i], error |-> error, what |-> what] \in Completion
    BY <2>2 DEF Completion
  <2>4. done \in [1..n -> Completion]
    BY <2>1, <2>3
  <2>5. done \in Seq(Completion) /\ Len(done) = n
    BY <1>0, <2>4, SeqDef, LenProperties
  <2>6. \A i \in 1..n : done[i] = [wait |-> waiting[i], error |-> error, what |-> what]
    BY <1>1, <2>1
  <2> QED BY <2>5, <2>6
<1> HIDE DEF first, done
<1>5. /\ queued' \in Seq(Completion) /\ Len(queued') = q + n
      /\ \A i \in 1..q : queued'[i] = queued[i]
      /\ \A i \in 1..n : queued'[q + i] = done[i]
  <2>1. /\ queued \o done \in Seq(Completion) /\ Len(queued \o done) = Len(queued) + Len(done)
        /\ \A i \in 1..Len(queued) : (queued \o done)[i] = queued[i]
        /\ \A i \in 1..Len(done) : (queued \o done)[Len(queued) + i] = done[i]
    <3>1. queued \in Seq(Completion) /\ done \in Seq(Completion)
      BY <1>0, <1>4
    <3> HIDE DEF q, m
    <3> QED BY ONLY <3>1, Joined
  <2> QED BY <1>2, <1>4, <2>1
<1>6. Resolved' = Resolved /\ Resolved \in Nat
  <2>1. \A a, b, c, d \in Nat : a - (b - d) - (c + d) = a - b - c
    OBVIOUS
  <2>2. Resolved' = started - (m - n) - (q + n)
    BY <1>2, <1>3, <1>5 DEF Resolved
  <2>3. Resolved' = started - m - q
    BY <1>0, <2>1, <2>2
  <2> QED BY <2>3 DEF Resolved, Line, InLine
<1>7. \A i \in 1..(m - n) : waiting'[i] = Resolved + (q + n) + i
  <2>1. \A i \in 1..(m - n) : n + i \in 1..m /\ Resolved + q + (n + i) = Resolved + (q + n) + i
    BY <1>0, <1>6
  <2> QED BY <1>3, <2>1 DEF Line, InLine
<1>8. \A i \in 1..(q + n) : queued'[i].wait = Resolved + i
  <2> SUFFICES ASSUME NEW i \in 1..(q + n) PROVE queued'[i].wait = Resolved + i
    OBVIOUS
  <2>1. CASE i <= q
    <3>1. i \in 1..q
      BY <1>0, <2>1
    <3> QED BY <1>5, <3>1 DEF Line, InLine
  <2>2. CASE i > q
    <3> DEFINE j == i - q
    <3>1. j \in 1..n /\ q + j = i /\ j \in 1..m
      BY <1>0, <2>2
    <3>2. queued'[i].wait = waiting[j]
      BY <1>4, <1>5, <3>1
    <3>3. waiting[j] = Resolved + q + j
      BY <3>1 DEF Line, InLine
    <3> QED BY <1>0, <1>6, <3>1, <3>2, <3>3
  <2> QED BY <1>0, <2>1, <2>2
<1>9. Line'
  BY <1>2, <1>3, <1>5, <1>6, <1>7, <1>8 DEF Line, LineTypeOK, InLine
<1> QED BY <1>2, <1>3, <1>4, <1>5, <1>6, <1>9

(* A wait that asio holds, or has completed with an error, has not         *)
(* succeeded; no wait has two completions.                                 *)
LEMMA WaitingNotSucceeded ==
  ASSUME Line
  PROVE  /\ \A i \in 1..Len(waiting) : waiting[i] \in Wait /\ ~Succeeded(waiting[i])
         /\ \A i, j \in 1..Len(queued) : queued[i].wait = queued[j].wait => i = j
<1>0. /\ started \in Nat /\ Len(waiting) \in Nat /\ Len(queued) \in Nat /\ Resolved \in Nat
      /\ started = Resolved + Len(queued) + Len(waiting)
      /\ waiting \in Seq(Wait)
  BY DEF Line, LineTypeOK, InLine, Resolved
<1>1. \A i, j \in 1..Len(queued) : queued[i].wait = queued[j].wait => i = j
  BY <1>0 DEF Line, InLine
<1>2. ASSUME NEW i \in 1..Len(waiting)
      PROVE  waiting[i] \in Wait /\ ~Succeeded(waiting[i])
  <2>1. waiting[i] \in Wait /\ waiting[i] = Resolved + Len(queued) + i
    BY <1>0 DEF Line, InLine
  <2>2. waiting[i] > Resolved /\ waiting[i] <= started
    BY <1>0, <2>1
  <2>3. future[waiting[i]].is = "pending"
    BY <2>1, <2>2 DEF Line, InLine
  <2>4. \A j \in 1..Len(queued) : queued[j].wait # waiting[i]
    <3>1. \A j \in 1..Len(queued) : queued[j].wait = Resolved + j
      BY DEF Line, InLine
    <3> QED BY <1>0, <2>1, <3>1
  <2> QED BY <2>1, <2>3, <2>4 DEF Succeeded
<1> QED BY <1>1, <1>2

(* Waits that are aborted (cancel, setTimeout, the destructors) do not     *)
(* succeed.                                                                *)
LEMMA AbortedFacts ==
  ASSUME Line, NEW n \in 0..Len(waiting), CompleteFirst(n, "aborted", 0)
  PROVE  /\ \A w \in Wait : Succeeded(w)' <=> Succeeded(w)
         /\ \A w \in Wait : \A s : SucceededWith(w, s)' <=> SucceededWith(w, s)
<1> DEFINE q == Len(queued)
<1>0. q \in Nat /\ n \in Nat
  BY DEF Line, LineTypeOK
<1>1. /\ Len(queued') = q + n
      /\ \A i \in 1..q : queued'[i] = queued[i]
      /\ \A i \in 1..n : queued'[q + i] = [wait |-> waiting[i], error |-> "aborted", what |-> 0]
      /\ future' = future
  BY CompleteFirstFacts
<1>2. \A i \in 1..n : queued'[q + i].error = "aborted"
  <2> SUFFICES ASSUME NEW i \in 1..n PROVE queued'[q + i].error = "aborted"
    OBVIOUS
  <2>1. queued'[q + i] = [wait |-> waiting[i], error |-> "aborted", what |-> 0]
    BY <1>1, Zenon
  <2> QED BY <2>1
<1>3. ASSUME NEW i \in 1..(q + n), queued'[i].error = "none"
      PROVE  i \in 1..q
  <2>1. i \in 1..q \/ (i - q \in 1..n /\ q + (i - q) = i)
    BY <1>0
  <2> QED BY <1>2, <1>3, <2>1
<1>4. \A i \in 1..q : i \in 1..(q + n)
  BY <1>0
<1> HIDE DEF q
<1>5. \A w \in Wait : \A s :
        (\E i \in 1..(q + n) : queued'[i].wait = w /\ queued'[i].error = "none" /\ queued'[i].what = s)
          <=> (\E i \in 1..q : queued[i].wait = w /\ queued[i].error = "none" /\ queued[i].what = s)
  BY <1>1, <1>3, <1>4
<1>6. \A w \in Wait :
        (\E i \in 1..(q + n) : queued'[i].wait = w /\ queued'[i].error = "none")
          <=> (\E i \in 1..q : queued[i].wait = w /\ queued[i].error = "none")
  BY <1>1, <1>3, <1>4
<1>7. \A w \in Wait : \A s : SucceededWith(w, s)' <=> SucceededWith(w, s)
  BY <1>1, <1>5 DEF SucceededWith, q
<1>8. \A w \in Wait : Succeeded(w)' <=> Succeeded(w)
  BY <1>1, <1>6 DEF Succeeded, q
<1> QED BY <1>7, <1>8

(* Waits that complete without an error succeed with what they are given,  *)
(* and no others do.                                                       *)
LEMMA SucceedFacts ==
  ASSUME Line, NEW n \in 0..Len(waiting), NEW what \in Nat, CompleteFirst(n, "none", what)
  PROVE  /\ \A w \in Wait : Succeeded(w)' <=> Succeeded(w) \/ \E i \in 1..n : w = waiting[i]
         /\ \A w \in Wait : \A s : SucceededWith(w, s)' <=>
              SucceededWith(w, s) \/ (s = what /\ \E i \in 1..n : w = waiting[i])
<1> DEFINE q == Len(queued)
<1>0. q \in Nat /\ n \in Nat
  BY DEF Line, LineTypeOK
<1>1. /\ Len(queued') = q + n
      /\ \A i \in 1..q : queued'[i] = queued[i]
      /\ \A i \in 1..n : queued'[q + i] = [wait |-> waiting[i], error |-> "none", what |-> what]
      /\ future' = future
  BY CompleteFirstFacts
<1>2. \A i \in 1..n : /\ queued'[q + i].error = "none" /\ queued'[q + i].wait = waiting[i]
                      /\ queued'[q + i].what = what
  <2> SUFFICES ASSUME NEW i \in 1..n
               PROVE  /\ queued'[q + i].error = "none" /\ queued'[q + i].wait = waiting[i]
                      /\ queued'[q + i].what = what
    OBVIOUS
  <2>1. queued'[q + i] = [wait |-> waiting[i], error |-> "none", what |-> what]
    BY <1>1, Zenon
  <2> QED BY <2>1
<1>3. \A i \in 1..(q + n) : i \in 1..q \/ \E j \in 1..n : i = q + j
  <2> SUFFICES ASSUME NEW i \in 1..(q + n), i \notin 1..q PROVE \E j \in 1..n : i = q + j
    OBVIOUS
  <2>1. i - q \in 1..n /\ q + (i - q) = i
    BY <1>0
  <2> QED BY <2>1
<1>4. (\A i \in 1..q : i \in 1..(q + n)) /\ (\A i \in 1..n : q + i \in 1..(q + n))
  BY <1>0
<1> HIDE DEF q
<1>5. \A w \in Wait : \A s :
        (\E i \in 1..(q + n) : queued'[i].wait = w /\ queued'[i].error = "none" /\ queued'[i].what = s)
          <=> \/ \E i \in 1..q : queued[i].wait = w /\ queued[i].error = "none" /\ queued[i].what = s
              \/ s = what /\ \E i \in 1..n : w = waiting[i]
  BY <1>1, <1>2, <1>3, <1>4
<1>6. \A w \in Wait :
        (\E i \in 1..(q + n) : queued'[i].wait = w /\ queued'[i].error = "none")
          <=> \/ \E i \in 1..q : queued[i].wait = w /\ queued[i].error = "none"
              \/ \E i \in 1..n : w = waiting[i]
  BY <1>1, <1>2, <1>3, <1>4
<1>7. \A w \in Wait : \A s : SucceededWith(w, s)' <=>
        SucceededWith(w, s) \/ (s = what /\ \E i \in 1..n : w = waiting[i])
  <2> SUFFICES ASSUME NEW w \in Wait, NEW s
               PROVE  SucceededWith(w, s)' <=>
                        SucceededWith(w, s) \/ (s = what /\ \E i \in 1..n : w = waiting[i])
    OBVIOUS
  <2>1. (\E i \in 1..Len(queued') : queued'[i].wait = w /\ queued'[i].error = "none" /\ queued'[i].what = s)
          <=> \/ \E i \in 1..q : queued[i].wait = w /\ queued[i].error = "none" /\ queued[i].what = s
              \/ s = what /\ \E i \in 1..n : w = waiting[i]
    BY <1>1, <1>5
  <2> QED BY <1>1, <2>1, Zenon DEF SucceededWith, q
<1>8. \A w \in Wait : Succeeded(w)' <=> Succeeded(w) \/ \E i \in 1..n : w = waiting[i]
  BY <1>1, <1>6 DEF Succeeded, q
<1> QED BY <1>7, <1>8

(* asyncWait that asio completes at once, when nobody else waits: the new  *)
(* wait has succeeded and is last in the queue.                            *)
LEMMA CompleteNowFacts ==
  ASSUME Line, StartWait, waiting = <<>>, NEW what \in Nat, CompleteNow(what)
  PROVE  /\ Line'
         /\ Resolved' = Resolved
         /\ started + 1 \in Wait /\ ~Succeeded(started + 1)
         /\ \A s : ~SucceededWith(started + 1, s)
         /\ \A w \in Wait : Succeeded(w)' <=> Succeeded(w) \/ w = started + 1
         /\ \A w \in Wait : \A s : SucceededWith(w, s)' <=>
              SucceededWith(w, s) \/ (s = what /\ w = started + 1)
<1> DEFINE n == started + 1
           q == Len(queued)
           pending == [is |-> "pending", what |-> 0]
           new == [wait |-> n, error |-> "none", what |-> what]
<1>0. /\ started \in Nat /\ MaxWaits \in Nat /\ q \in Nat /\ Len(waiting) = 0
      /\ queued \in Seq(Completion) /\ future \in [Wait -> Future]
  BY WaitsAssumption DEF Line, LineTypeOK
<1>1. n \in Wait /\ future[n].is = "none" /\ \A i \in 1..q : queued[i].wait # n
  BY NextWaitFresh DEF StartWait
<1>2. waiting' = waiting /\ queued' = queued \o Completed(<<n>>, "none", what) /\ started' = n
  BY DEF CompleteNow, StartWait
<1>3. new \in Completion /\ new.wait = n /\ new.error = "none" /\ new.what = what
  BY <1>1 DEF Completion
<1> DEFINE c == Completed(<<n>>, "none", what)
<1>4. c \in Seq(Completion) /\ Len(c) = 1 /\ c[1] = new
  <2>1. c = [i \in 1..1 |-> [wait |-> <<n>>[i], error |-> "none", what |-> what]]
    BY DEF Completed
  <2>2. \A i \in 1..1 : [wait |-> <<n>>[i], error |-> "none", what |-> what] = new
    OBVIOUS
  <2> HIDE DEF new, c, n
  <2>3. c = [i \in 1..1 |-> new]
    BY <2>1, <2>2
  <2> QED BY <1>3, <2>3
<1> HIDE DEF new, c
<1>5. /\ queued' \in Seq(Completion) /\ Len(queued') = q + 1
      /\ \A i \in 1..q : queued'[i] = queued[i]
      /\ queued'[q + 1] = new
  <2>1. /\ queued \o c \in Seq(Completion) /\ Len(queued \o c) = Len(queued) + Len(c)
        /\ \A i \in 1..Len(queued) : (queued \o c)[i] = queued[i]
        /\ \A i \in 1..Len(c) : (queued \o c)[Len(queued) + i] = c[i]
    <3>1. queued \in Seq(Completion) /\ c \in Seq(Completion)
      BY <1>0, <1>4
    <3> HIDE DEF q
    <3> QED BY ONLY <3>1, Joined
  <2>2. queued' = queued \o c /\ 1 \in 1..Len(c)
    BY <1>2, <1>4 DEF c
  <2> QED BY <1>4, <2>1, <2>2
<1>6. Resolved' = Resolved /\ Resolved \in Nat /\ Resolved = started - q
  <2>1. Resolved = started - q /\ Resolved \in Nat
    BY <1>0 DEF Line, InLine, Resolved
  <2>2. Resolved' = n - (q + 1)
    <3>1. started' = n /\ Len(waiting') = 0 /\ Len(queued') = q + 1 /\ n \in Nat
      BY <1>0, <1>2, <1>5
    <3> HIDE DEF n
    <3> QED BY <1>0, <3>1 DEF Resolved
  <2> QED BY <1>0, <2>1, <2>2
<1>7. future' = [future EXCEPT ![n] = pending] /\ pending \in Future /\ pending.is = "pending"
  BY DEF StartWait, Future
<1> HIDE DEF pending
<1>8. future' \in [Wait -> Future] /\ future'[n].is = "pending"
      /\ \A w \in Wait : w # n => future'[w] = future[w]
  BY <1>0, <1>1, <1>7
<1>9. LineTypeOK'
  <2>1. n \in 0..MaxWaits
    BY <1>0, <1>1 DEF Wait
  <2> QED BY <1>2, <1>5, <1>8, <2>1 DEF Line, LineTypeOK
<1>10. InLine'
  <2>2. \A i \in 1..(q + 1) : queued'[i].wait = Resolved + i
    <3>1. \A i \in 1..q : queued'[i].wait = Resolved + i
      BY <1>5 DEF Line, InLine
    <3>2. queued'[q + 1].wait = Resolved + (q + 1)
      BY <1>0, <1>3, <1>5, <1>6
    <3>3. \A i \in 1..(q + 1) : i \in 1..q \/ i = q + 1
      BY <1>0
    <3> QED BY <3>1, <3>2, <3>3
  <2>3. \A w \in Wait : /\ w <= Resolved => future'[w].is \in {"error", "value"}
                        /\ w > Resolved /\ w <= n => future'[w].is = "pending"
                        /\ w > n => future'[w].is = "none"
    <3>1. \A w \in Wait : w \in Nat
      BY DEF Wait
    <3>3. \A w \in Wait : w # n => (w > n <=> w > started) /\ (w <= n <=> w <= started)
      BY <1>0, <3>1
    <3>4. \A w \in Wait : w # n => /\ w <= Resolved => future'[w].is \in {"error", "value"}
                                   /\ w > Resolved /\ w <= n => future'[w].is = "pending"
                                   /\ w > n => future'[w].is = "none"
      BY <1>8, <3>1, <3>3 DEF Line, InLine
    <3>5. ~(n <= Resolved) /\ ~(n > n)
      BY <1>0, <1>6
    <3> QED BY <1>8, <3>4, <3>5
  <2>4. \A i \in 1..Len(waiting') : waiting'[i] = Resolved' + Len(queued') + i
    BY <1>0, <1>2
  <2> HIDE DEF n, q
  <2> QED BY <1>2, <1>5, <1>6, <2>2, <2>3, <2>4 DEF InLine
<1>11. \A w \in Wait : (future'[w].is = "value" <=> future[w].is = "value")
                       /\ (future[w].is = "value" => future'[w] = future[w])
  BY <1>1, <1>8
<1>12. \A i : i \in 1..(q + 1) <=> i \in 1..q \/ i = q + 1
  BY <1>0
<1>13. ~Succeeded(n) /\ \A s : ~SucceededWith(n, s)
  BY <1>1 DEF Succeeded, SucceededWith
<1>14. \A w \in Wait : Succeeded(w)' <=> Succeeded(w) \/ w = n
  <2> HIDE DEF n
  <2> QED BY <1>1, <1>3, <1>5, <1>11, <1>12 DEF Succeeded
<1>15. \A w \in Wait : \A s : SucceededWith(w, s)' <=> SucceededWith(w, s) \/ (s = what /\ w = n)
  <2> HIDE DEF n
  <2> QED BY <1>1, <1>3, <1>5, <1>11, <1>12 DEF SucceededWith
<1> QED BY <1>1, <1>6, <1>9, <1>10, <1>13, <1>14, <1>15 DEF Line

(* The completion handler (event.cpp:44-50, timer.cpp:50-56,               *)
(* signalSet.cpp:38-44) resolves the oldest wait on its way, and what it   *)
(* puts in the future is what the completion said.                         *)
LEMMA HandlerFacts ==
  ASSUME Line, Handler
  PROVE  /\ Line'
         /\ Resolved' = Resolved + 1
         /\ started' = started /\ waiting' = waiting
         /\ \A w \in Wait : Succeeded(w)' <=> Succeeded(w)
         /\ \A w \in Wait : \A s : SucceededWith(w, s)' <=> SucceededWith(w, s)
<1> DEFINE h == Head(queued)
           q == Len(queued)
           f == [is |-> IF h.error # "none" THEN "error" ELSE "value", what |-> h.what]
<1>0. /\ started \in Nat /\ Len(waiting) \in Nat /\ q \in Nat /\ Resolved \in Nat
      /\ started = Resolved + q + Len(waiting)
      /\ queued \in Seq(Completion) /\ future \in [Wait -> Future] /\ queued # <<>>
  BY DEF Line, LineTypeOK, InLine, Resolved, Handler
<1>1. /\ queued' \in Seq(Completion) /\ Len(queued') = q - 1 /\ q \in Nat \ {0}
      /\ \A i \in 1..(q - 1) : queued'[i] = queued[i + 1]
      /\ h = queued[1] /\ h \in Completion
  <2>1. queued' = Tail(queued)
    BY DEF Handler, Resolve
  <2>2. Tail(queued) \in Seq(Completion) /\ Len(Tail(queued)) = q - 1
        /\ (\A i \in 1..Len(Tail(queued)) : Tail(queued)[i] = queued[i + 1]) /\ h \in Completion
    BY <1>0, HeadTailProperties
  <2>3. q \in Nat \ {0} /\ h = queued[1]
    BY <1>0, EmptySeq
  <2> QED BY <2>1, <2>2, <2>3
<1>2. started' = started /\ waiting' = waiting /\ future' = [future EXCEPT ![h.wait] = f]
  BY DEF Handler, Resolve
<1>3. h.wait \in Wait /\ h.wait = Resolved + 1 /\ h.what \in Nat /\ h.wait \in Nat
  BY <1>0, <1>1 DEF Line, InLine, Completion
<1>4. f \in Future /\ f.is \in {"error", "value"} /\ f.what = h.what
      /\ (f.is = "value" <=> h.error = "none")
  BY <1>3 DEF Future
<1> HIDE DEF h, f
<1>5. /\ future' \in [Wait -> Future] /\ future'[h.wait] = f
      /\ \A w \in Wait : w # h.wait => future'[w] = future[w]
  BY <1>0, <1>2, <1>3, <1>4
<1>6. Resolved' = Resolved + 1
  <2>1. Resolved' = started - Len(waiting) - (q - 1)
    BY <1>1, <1>2 DEF Resolved
  <2> QED BY <1>0, <1>1, <2>1
<1>7. LineTypeOK'
  BY <1>1, <1>2, <1>5 DEF Line, LineTypeOK
<1>8. InLine'
  <2>1. \A i \in 1..Len(waiting) : waiting[i] = (Resolved + 1) + (q - 1) + i
    <3>1. \A i \in 1..Len(waiting) : waiting[i] = Resolved + q + i
      BY DEF Line, InLine
    <3> QED BY <1>0, <1>1, <3>1
  <2>2. \A i \in 1..(q - 1) : queued'[i].wait = (Resolved + 1) + i
    <3>1. \A i \in 1..(q - 1) : i + 1 \in 1..q /\ Resolved + (i + 1) = (Resolved + 1) + i
      BY <1>0, <1>1
    <3>2. \A i \in 1..(q - 1) : queued'[i].wait = Resolved + (i + 1)
      BY <1>1, <3>1 DEF Line, InLine
    <3> QED BY <3>1, <3>2
  <2>3. \A w \in Wait : /\ w <= Resolved + 1 => future'[w].is \in {"error", "value"}
                        /\ w > Resolved + 1 /\ w <= started => future'[w].is = "pending"
                        /\ w > started => future'[w].is = "none"
    <3>1. \A w \in Wait : w \in Nat
      BY DEF Wait
    <3>2. \A w \in Wait : w # h.wait => /\ w <= Resolved + 1 <=> w <= Resolved
                                        /\ w > Resolved + 1 <=> w > Resolved
      BY <1>0, <1>3, <3>1
    <3>3. \A w \in Wait : w # h.wait =>
            /\ w <= Resolved + 1 => future'[w].is \in {"error", "value"}
            /\ w > Resolved + 1 /\ w <= started => future'[w].is = "pending"
            /\ w > started => future'[w].is = "none"
      BY <1>5, <3>2 DEF Line, InLine
    <3>4. ~(h.wait > Resolved + 1) /\ ~(h.wait > started)
      BY <1>0, <1>1, <1>3
    <3> QED BY <1>4, <1>5, <3>3, <3>4
  <2>4. Resolved + 1 \in Nat
    BY <1>0
  <2> HIDE DEF q
  <2> QED BY <1>1, <1>2, <1>6, <2>1, <2>2, <2>3, <2>4 DEF InLine
<1>9. \A i, j \in 1..q : queued[i].wait = queued[j].wait => i = j
  BY WaitingNotSucceeded
<1>10. \A i \in 1..q : i = 1 \/ \E j \in 1..(q - 1) : i = j + 1
  <2> SUFFICES ASSUME NEW i \in 1..q, i # 1 PROVE \E j \in 1..(q - 1) : i = j + 1
    OBVIOUS
  <2>1. i - 1 \in 1..(q - 1) /\ i = (i - 1) + 1
    BY <1>1
  <2> QED BY <2>1
<1>11. 1 \in 1..q /\ \A j \in 1..(q - 1) : j + 1 \in 1..q /\ j + 1 # 1
  BY <1>1
<1>12. \A j \in 1..(q - 1) : queued'[j].wait # h.wait
  <2> SUFFICES ASSUME NEW j \in 1..(q - 1) PROVE queued'[j].wait # h.wait
    OBVIOUS
  <2>1. queued'[j] = queued[j + 1] /\ j + 1 \in 1..q /\ j + 1 # 1
    BY <1>1, <1>11
  <2> QED BY <1>1, <1>9, <1>11, <2>1
<1>13. future[h.wait].is = "pending"
  <2>1. h.wait > Resolved /\ h.wait <= started
    BY <1>0, <1>1, <1>3
  <2> QED BY <1>3, <2>1 DEF Line, InLine
<1>14. ASSUME NEW w \in Wait, NEW s
       PROVE  /\ Succeeded(w)' <=> Succeeded(w)
              /\ SucceededWith(w, s)' <=> SucceededWith(w, s)
  <2> DEFINE C(i) == queued[i].wait = w /\ queued[i].error = "none"
             D(i) == queued'[i].wait = w /\ queued'[i].error = "none"
             CW(i) == C(i) /\ queued[i].what = s
             DW(i) == D(i) /\ queued'[i].what = s
  <2>1. \A j \in 1..(q - 1) : (D(j) <=> C(j + 1)) /\ (DW(j) <=> CW(j + 1))
    BY <1>1
  <2>2. C(1) <=> w = h.wait /\ h.error = "none"
    BY <1>1
  <2>3. CW(1) <=> w = h.wait /\ h.error = "none" /\ h.what = s
    BY <1>1
  <2>4. w = h.wait => \A j \in 1..(q - 1) : ~D(j) /\ ~DW(j)
    BY <1>12
  <2> HIDE DEF C, D, CW, DW
  <2>5. (\E i \in 1..q : C(i)) <=> C(1) \/ \E j \in 1..(q - 1) : D(j)
    BY <1>10, <1>11, <2>1
  <2>6. (\E i \in 1..q : CW(i)) <=> CW(1) \/ \E j \in 1..(q - 1) : DW(j)
    BY <1>10, <1>11, <2>1
  <2>7. Succeeded(w) <=> future[w].is = "value" \/ \E i \in 1..q : C(i)
    BY DEF Succeeded, C
  <2>8. Succeeded(w)' <=> future'[w].is = "value" \/ \E i \in 1..(q - 1) : D(i)
    BY <1>1 DEF Succeeded, D
  <2>9. SucceededWith(w, s) <=>
          (future[w].is = "value" /\ future[w].what = s) \/ \E i \in 1..q : CW(i)
    BY DEF SucceededWith, CW, C
  <2>10. SucceededWith(w, s)' <=>
           (future'[w].is = "value" /\ future'[w].what = s) \/ \E i \in 1..(q - 1) : DW(i)
    BY <1>1 DEF SucceededWith, DW, D
  <2>11. CASE w = h.wait
    BY <1>4, <1>5, <1>13, <2>2, <2>3, <2>4, <2>5, <2>6, <2>7, <2>8, <2>9, <2>10, <2>11
  <2>12. CASE w # h.wait
    BY <1>5, <2>2, <2>3, <2>5, <2>6, <2>7, <2>8, <2>9, <2>10, <2>12
  <2> QED BY <2>11, <2>12
<1> QED BY <1>2, <1>6, <1>7, <1>8, <1>14 DEF Line
-----------------------------------------------------------------------------
(* Counting                                                                *)

Successes == {w \in Wait : Succeeded(w)}
SuccessesWith(s) == {w \in Wait : SucceededWith(w, s)}
At(p, s) == {i \in 1..Len(p) : p[i] = s}

(* The sets that are counted are finite.                                   *)
LEMMA WaitsFinite ==
  /\ IsFiniteSet(Successes) /\ Cardinality(Successes) \in Nat
  /\ \A s : IsFiniteSet(SuccessesWith(s)) /\ Cardinality(SuccessesWith(s)) \in Nat
<1>1. IsFiniteSet(Wait)
  BY WaitsAssumption, FS_Interval DEF Wait
<1>2. Successes \in SUBSET Wait /\ \A s : SuccessesWith(s) \in SUBSET Wait
  BY DEF Successes, SuccessesWith
<1> QED BY <1>1, <1>2, FS_Subset, FS_CardinalityType

(* The pipe gains a signal at its end.                                     *)
LEMMA CountAppend ==
  ASSUME NEW S, NEW p \in Seq(S), NEW e \in S, NEW s
  PROVE  /\ Cardinality(At(p, s)) \in Nat
         /\ Cardinality(At(Append(p, e), s)) =
              IF e = s THEN Cardinality(At(p, s)) + 1 ELSE Cardinality(At(p, s))
<1> DEFINE n == Len(p)
           A == At(p, s)
           B == At(Append(p, e), s)
<1>1. n \in Nat /\ Len(Append(p, e)) = n + 1 /\ Append(p, e)[n + 1] = e
      /\ \A i \in 1..n : Append(p, e)[i] = p[i]
  OBVIOUS
<1>2. IsFiniteSet(A) /\ Cardinality(A) \in Nat
  <2>1. A \in SUBSET (1..n)
    BY DEF At
  <2>2. \A k \in Nat : IsFiniteSet(1..k)
    BY FS_Interval
  <2>3. IsFiniteSet(1..n)
    BY <1>1, <2>2
  <2> QED BY <2>1, <2>3, FS_Subset, FS_CardinalityType
<1>3. \A i : i \in 1..(n + 1) <=> i \in 1..n \/ i = n + 1
  BY <1>1
<1>4. n + 1 \notin A
  BY <1>1 DEF At
<1>5. \A i : i \in B <=> i \in A \/ (i = n + 1 /\ e = s)
  <2> HIDE DEF n
  <2>1. \A i : i \in B <=> i \in 1..(n + 1) /\ Append(p, e)[i] = s
    BY <1>1 DEF At
  <2>2. \A i : i \in A <=> i \in 1..n /\ p[i] = s
    BY DEF At, n
  <2> QED BY <1>1, <1>3, <2>1, <2>2
<1> HIDE DEF A, B, n
<1>6. CASE e = s
  <2>1. B = A \cup {n + 1}
    BY <1>5, <1>6
  <2>2. Cardinality(B) = Cardinality(A) + 1
    BY <1>2, <1>4, <2>1, FS_AddElement
  <2> QED BY <1>2, <1>6, <2>2 DEF A, B
<1>7. CASE e # s
  <2>1. B = A
    BY <1>5, <1>7
  <2> QED BY <1>2, <1>7, <2>1 DEF A, B
<1> QED BY <1>6, <1>7

(* The pipe loses the signal at its head.                                  *)
LEMMA CountTail ==
  ASSUME NEW S, NEW p \in Seq(S), p # <<>>, NEW s
  PROVE  /\ Cardinality(At(p, s)) \in Nat
         /\ Cardinality(At(Tail(p), s)) =
              IF Head(p) = s THEN Cardinality(At(p, s)) - 1 ELSE Cardinality(At(p, s))
<1> DEFINE n == Len(p)
           A == At(p, s)
           B == At(Tail(p), s)
           f == [i \in B |-> i + 1]
<1>1. /\ n \in Nat \ {0} /\ Len(Tail(p)) = n - 1 /\ Head(p) = p[1]
      /\ \A i \in 1..(n - 1) : Tail(p)[i] = p[i + 1]
  BY HeadTailProperties, EmptySeq
<1>2. IsFiniteSet(A) /\ Cardinality(A) \in Nat
  <2>1. A \in SUBSET (1..n) /\ IsFiniteSet(1..n)
    BY <1>1, FS_Interval DEF At
  <2> QED BY <2>1, FS_Subset, FS_CardinalityType
<1>3. IsFiniteSet(B)
  <2>0. n - 1 \in Nat
    BY <1>1
  <2>1. B \in SUBSET (1..(n - 1)) /\ IsFiniteSet(1..(n - 1))
    BY <1>1, <2>0, FS_Interval DEF At
  <2> QED BY <2>1, FS_Subset
<1>4. \A i \in B : i \in Nat /\ i + 1 \in A \ {1}
  <2> SUFFICES ASSUME NEW i \in B PROVE i \in Nat /\ i + 1 \in A \ {1}
    OBVIOUS
  <2>1. i \in 1..(n - 1) /\ Tail(p)[i] = s
    BY <1>1 DEF At
  <2>2. p[i + 1] = s /\ i \in Nat /\ i + 1 \in 1..n /\ i + 1 # 1
    BY <1>1, <2>1
  <2> QED BY <2>2 DEF At
<1>5. \A k \in A \ {1} : \E i \in B : i + 1 = k
  <2> SUFFICES ASSUME NEW k \in A \ {1} PROVE \E i \in B : i + 1 = k
    OBVIOUS
  <2>1. k \in 1..n /\ k # 1 /\ p[k] = s
    BY DEF At
  <2>2. k - 1 \in 1..(n - 1) /\ (k - 1) + 1 = k
    BY <1>1, <2>1
  <2>3. Tail(p)[k - 1] = s
    BY <1>1, <2>1, <2>2
  <2>4. k - 1 \in B
    BY <1>1, <2>2, <2>3 DEF At
  <2> QED BY <2>2, <2>4
<1> HIDE DEF A, B
<1>6. f \in Bijection(B, A \ {1})
  <2>1. f \in [B -> A \ {1}]
    BY <1>4
  <2>2. \A a, b \in B : f[a] = f[b] => a = b
    BY <1>4
  <2>3. \A k \in A \ {1} : \E i \in B : f[i] = k
    BY <1>5
  <2> QED BY <2>1, <2>2, <2>3, Fun_IsBij
<1>7. Cardinality(B) = Cardinality(A \ {1})
  <2>1. ExistsBijection(B, A \ {1})
    BY <1>6 DEF ExistsBijection
  <2> QED BY <1>3, <2>1, FS_Bijection
<1>8. Cardinality(A \ {1}) = IF 1 \in A THEN Cardinality(A) - 1 ELSE Cardinality(A)
  BY <1>2, FS_RemoveElement
<1>9. 1 \in A <=> Head(p) = s
  BY <1>1 DEF A, At
<1> QED BY <1>2, <1>7, <1>8, <1>9 DEF A, B
-----------------------------------------------------------------------------
(* The invariant                                                           *)

(* Nothing in the class's own state is lost when no wait's success changes *)
(* and the class's own variables do not.                                   *)
LEMMA Unmoved ==
  ASSUME Inv, Line', UNCHANGED <<source, eventVars, timerVars, signalVars>>,
         waiting' = waiting \/ waiting' = <<>>,
         \A w \in Wait : Succeeded(w)' <=> Succeeded(w),
         \A w \in Wait : \A s : SucceededWith(w, s)' <=> SucceededWith(w, s)
  PROVE  Inv'
<1>1. TypeOK'
  BY DEF Inv, TypeOK, eventVars, timerVars, signalVars
<1>2. KeptForNobody'
  BY DEF Inv, KeptForNobody, signalVars
<1>3. Timely'
  BY DEF Inv, Timely, timerVars
<1>4. NoSpuriousWakeup'
  <2>1. {w \in Wait : Succeeded(w)'} = {w \in Wait : Succeeded(w)}
    OBVIOUS
  <2> QED BY <2>1 DEF Inv, NoSpuriousWakeup, eventVars
<1>5. NoSignalLost'
  <2>1. \A s : {w \in Wait : SucceededWith(w, s)'} = {w \in Wait : SucceededWith(w, s)}
    OBVIOUS
  <2> QED BY <2>1 DEF Inv, NoSignalLost, signalVars
<1> QED BY <1>1, <1>2, <1>3, <1>4, <1>5 DEF Inv

(* All waits complete: nobody waits any more.                              *)
LEMMA CompleteAllFacts ==
  ASSUME Line, NEW error \in {"none", "aborted"}, NEW what \in Nat, CompleteAll(error, what)
  PROVE  /\ Len(waiting) \in 0..Len(waiting) /\ CompleteFirst(Len(waiting), error, what)
         /\ Line' /\ waiting' = <<>> /\ source' = source
         /\ Resolved' = Resolved /\ started' = started
<1>1. Len(waiting) \in 0..Len(waiting)
  BY DEF Line, LineTypeOK
<1>2. CompleteFirst(Len(waiting), error, what)
  BY DEF CompleteAll
<1>3. Line' /\ Resolved' = Resolved /\ Len(waiting') = Len(waiting) - Len(waiting)
  BY <1>1, <1>2, CompleteFirstFacts
<1>4. waiting' \in Seq(Wait) /\ Len(waiting') = 0
  BY <1>3 DEF Line, LineTypeOK
<1>5. waiting' = <<>>
  BY <1>4, EmptySeq
<1> QED BY <1>1, <1>2, <1>3, <1>5 DEF CompleteFirst

(* cancel, setTimeout's abort and the destructors leave everything else.   *)
LEMMA AbortKeepsInv ==
  ASSUME Inv, CompleteAll("aborted", 0), UNCHANGED <<eventVars, timerVars, signalVars>>
  PROVE  Inv'
<1>1. Line /\ 0 \in Nat
  BY DEF Inv
<1>2. /\ Len(waiting) \in 0..Len(waiting) /\ CompleteFirst(Len(waiting), "aborted", 0)
      /\ Line' /\ waiting' = <<>> /\ source' = source
  BY <1>1, CompleteAllFacts
<1>3. /\ \A w \in Wait : Succeeded(w)' <=> Succeeded(w)
      /\ \A w \in Wait : \A s : SucceededWith(w, s)' <=> SucceededWith(w, s)
  BY <1>1, <1>2, AbortedFacts
<1> QED BY <1>2, <1>3, Unmoved

(* An Event: a wait that succeeds takes at least one notification with it  *)
(* (event.cpp:43).                                                         *)
LEMMA EventKeepsInv ==
  ASSUME Inv, EventWait \/ notify \/ EventReady
  PROVE  Inv'
<1>0. Line /\ TypeOK /\ source = "Event" /\ counter + Cardinality(Successes) <= notified
      /\ Cardinality(Successes) \in Nat /\ IsFiniteSet(Successes)
      /\ counter \in Nat /\ notified \in Nat
  BY WaitsFinite DEF Inv, TypeOK, EventWait, notify, EventReady, NoSpuriousWakeup, Successes
<1>1. source' = source
  BY DEF EventWait, notify, EventReady, StartWait, waits, CompleteFirst
<1>2. KeptForNobody' /\ NoSignalLost' /\ Timely'
  BY <1>0, <1>1 DEF KeptForNobody, NoSignalLost, Timely
<1>3. CASE EventWait /\ counter > 0 /\ waiting = <<>>
  <2>1. StartWait /\ CompleteNow(0) /\ counter' = 0 /\ UNCHANGED <<notified, timerVars, signalVars>>
    BY <1>3 DEF EventWait, CounterAfterRead
  <2>2. /\ Line' /\ started + 1 \in Wait /\ ~Succeeded(started + 1)
        /\ \A w \in Wait : Succeeded(w)' <=> Succeeded(w) \/ w = started + 1
    BY <1>0, <1>3, <2>1, CompleteNowFacts
  <2>3. Successes' = Successes \cup {started + 1} /\ started + 1 \notin Successes
    BY <2>2 DEF Successes
  <2>4. Cardinality(Successes') = Cardinality(Successes) + 1
    BY <1>0, <2>3, FS_AddElement
  <2>5. NoSpuriousWakeup'
    <3>1. counter' + Cardinality(Successes') <= notified'
      BY <1>0, <1>3, <2>1, <2>4
    <3> QED BY <3>1 DEF NoSpuriousWakeup, Successes
  <2>6. TypeOK'
    BY <1>0, <2>1 DEF TypeOK, timerVars, signalVars
  <2> QED BY <1>2, <2>2, <2>5, <2>6 DEF Inv
<1>4. CASE EventWait /\ ~(counter > 0 /\ waiting = <<>>)
  <2>1. StartWait /\ KeepWaiting /\ UNCHANGED <<counter, notified, timerVars, signalVars>>
    BY <1>4 DEF EventWait
  <2>2. Line' /\ \A w \in Wait : Succeeded(w)' <=> Succeeded(w)
    BY <1>0, <2>1, KeepWaitingFacts
  <2>3. Successes' = Successes
    BY <2>2 DEF Successes
  <2>4. NoSpuriousWakeup'
    BY <1>0, <2>1, <2>3 DEF NoSpuriousWakeup, Successes
  <2>5. TypeOK'
    BY <1>0, <2>1 DEF TypeOK, timerVars, signalVars
  <2> QED BY <1>2, <2>2, <2>4, <2>5 DEF Inv
<1>5. CASE notify
  <2>1. /\ counter' = counter + 1 /\ notified' = notified + 1
        /\ UNCHANGED <<source, started, waiting, queued, future, timerVars, signalVars>>
    BY <1>5 DEF notify, waits
  <2>2. Line' /\ Successes' = Successes
    BY <1>0, <2>1 DEF Line, LineTypeOK, InLine, Resolved, Successes, Succeeded
  <2>3. NoSpuriousWakeup'
    <3>1. counter' + Cardinality(Successes') <= notified'
      BY <1>0, <2>1, <2>2
    <3> QED BY <3>1 DEF NoSpuriousWakeup, Successes
  <2>4. TypeOK'
    BY <1>0, <2>1 DEF TypeOK, timerVars, signalVars
  <2> QED BY <1>2, <2>2, <2>3, <2>4 DEF Inv
<1>6. CASE EventReady
  <2>1. /\ counter > 0 /\ waiting # <<>> /\ CompleteFirst(1, "none", 0) /\ counter' = 0
        /\ UNCHANGED <<notified, timerVars, signalVars>>
    BY <1>6 DEF EventReady, CounterAfterRead
  <2>2. 1 \in 0..Len(waiting) /\ 1 \in 1..Len(waiting)
    <3>1. waiting \in Seq(Wait)
      BY <1>0 DEF Line, LineTypeOK
    <3> QED BY <2>1, <3>1, EmptySeq
  <2>3. Line' /\ \A w \in Wait : Succeeded(w)' <=> Succeeded(w) \/ \E i \in 1..1 : w = waiting[i]
    BY <1>0, <2>1, <2>2, CompleteFirstFacts, SucceedFacts
  <2>4. waiting[1] \in Wait /\ ~Succeeded(waiting[1])
    BY <1>0, <2>2, WaitingNotSucceeded
  <2>5. Successes' = Successes \cup {waiting[1]} /\ waiting[1] \notin Successes
    BY <2>3, <2>4 DEF Successes
  <2>6. Cardinality(Successes') = Cardinality(Successes) + 1
    BY <1>0, <2>5, FS_AddElement
  <2>7. NoSpuriousWakeup'
    <3>1. counter' + Cardinality(Successes') <= notified'
      BY <1>0, <2>1, <2>6
    <3> QED BY <3>1 DEF NoSpuriousWakeup, Successes
  <2>8. TypeOK'
    BY <1>0, <2>1 DEF TypeOK, timerVars, signalVars
  <2> QED BY <1>2, <2>3, <2>7, <2>8 DEF Inv
<1> QED BY <1>3, <1>4, <1>5, <1>6

(* A Timer: a wait succeeds only with the deadline it was started under,   *)
(* because setTimeout aborts the ones that are left (timer.cpp:34-59).     *)
LEMMA TimerKeepsInv ==
  ASSUME Inv, TimerWait \/ setTimeout \/ cancel \/ Elapse \/ TimerReady
  PROVE  Inv'
<1>0. /\ Line /\ TypeOK /\ source = "Timer" /\ deadline \in Nat /\ under \in [Wait -> Nat]
      /\ \A i \in 1..Len(waiting) : waiting[i] \in Wait /\ under[waiting[i]] = deadline
      /\ \A w \in Wait : Succeeded(w) => under[w] \in passed
  BY WaitingNotSucceeded DEF Inv, TypeOK, TimerWait, setTimeout, cancel, Elapse, TimerReady, Timely
<1>1. source' = source
  BY DEF TimerWait, setTimeout, cancel, Elapse, TimerReady, StartWait, waits, CompleteAll, CompleteFirst
<1>2. KeptForNobody' /\ NoSignalLost' /\ NoSpuriousWakeup'
  BY <1>0, <1>1 DEF KeptForNobody, NoSignalLost, NoSpuriousWakeup
<1>3. CASE TimerWait
  <2> DEFINE n == started + 1
  <2>1. /\ StartWait /\ KeepWaiting /\ under' = [under EXCEPT ![n] = deadline]
        /\ UNCHANGED <<eventVars, deadline, passed, signalVars>>
    BY <1>3 DEF TimerWait
  <2>2. Line' /\ \A w \in Wait : Succeeded(w)' <=> Succeeded(w)
    BY <1>0, <2>1, KeepWaitingFacts
  <2>3. n \in Wait /\ ~Succeeded(n)
    <3>1. started < MaxWaits
      BY <2>1 DEF StartWait
    <3> QED BY <1>0, <3>1, NextWaitFresh DEF Succeeded
  <2>4. TypeOK'
    BY <1>0, <2>1, <2>3 DEF TypeOK, eventVars, signalVars
  <2>5. \A w \in Wait : w # n => under'[w] = under[w]
    BY <1>0, <2>1
  <2>6. under'[n] = deadline
    BY <1>0, <2>1, <2>3
  <2>7. /\ Len(waiting) \in Nat /\ Len(waiting') = Len(waiting) + 1 /\ waiting'[Len(waiting) + 1] = n
        /\ \A i \in 1..Len(waiting) : waiting'[i] = waiting[i]
    BY <1>0, <2>1 DEF Line, LineTypeOK, KeepWaiting
  <2> HIDE DEF n
  <2>8. \A i \in 1..Len(waiting') : under'[waiting'[i]] = deadline'
    <3>1. \A i \in 1..(Len(waiting) + 1) : i \in 1..Len(waiting) \/ i = Len(waiting) + 1
      BY <2>7
    <3>2. \A i \in 1..Len(waiting) : under'[waiting'[i]] = deadline
      BY <1>0, <2>5, <2>6, <2>7
    <3> QED BY <2>1, <2>6, <2>7, <3>1, <3>2
  <2>9. \A w \in Wait : Succeeded(w)' => under'[w] \in passed'
    BY <1>0, <2>1, <2>2, <2>3, <2>5
  <2> QED BY <1>2, <2>2, <2>4, <2>8, <2>9 DEF Inv, Timely
<1>4. CASE setTimeout
  <2>1. /\ CompleteAll("aborted", 0) /\ deadline' = deadline + 1
        /\ UNCHANGED <<eventVars, passed, under, signalVars>>
    BY <1>4 DEF setTimeout
  <2>2. /\ Len(waiting) \in 0..Len(waiting) /\ CompleteFirst(Len(waiting), "aborted", 0)
        /\ Line' /\ waiting' = <<>>
    BY <1>0, <2>1, CompleteAllFacts
  <2>3. \A w \in Wait : Succeeded(w)' <=> Succeeded(w)
    BY <1>0, <2>2, AbortedFacts
  <2>4. TypeOK'
    BY <1>0, <2>1 DEF TypeOK, eventVars, signalVars
  <2>5. Len(waiting') = 0
    BY <2>2
  <2> QED BY <1>0, <1>2, <2>1, <2>2, <2>3, <2>4, <2>5 DEF Inv, Timely
<1>5. CASE cancel
  BY <1>5, AbortKeepsInv DEF cancel
<1>6. CASE Elapse
  <2>1. /\ passed' = passed \cup {deadline}
        /\ UNCHANGED <<source, started, waiting, queued, future, eventVars, deadline, under, signalVars>>
    BY <1>6 DEF Elapse, waits
  <2>2. Line' /\ \A w \in Wait : Succeeded(w)' <=> Succeeded(w)
    BY <1>0, <2>1 DEF Line, LineTypeOK, InLine, Resolved, Succeeded
  <2>3. TypeOK'
    BY <1>0, <2>1 DEF TypeOK, eventVars, signalVars
  <2> QED BY <1>0, <1>2, <2>1, <2>2, <2>3 DEF Inv, Timely
<1>7. CASE TimerReady
  <2>1. /\ CompleteAll("none", 1) /\ deadline \in passed /\ 1 \in Nat
        /\ UNCHANGED <<eventVars, timerVars, signalVars>>
    BY <1>7 DEF TimerReady
  <2>2. /\ Len(waiting) \in 0..Len(waiting) /\ CompleteFirst(Len(waiting), "none", 1)
        /\ Line' /\ waiting' = <<>>
    BY <1>0, <2>1, CompleteAllFacts
  <2>3. \A w \in Wait : Succeeded(w)' <=> Succeeded(w) \/ \E i \in 1..Len(waiting) : w = waiting[i]
    BY <1>0, <2>1, <2>2, SucceedFacts
  <2>4. TypeOK'
    BY <1>0, <2>1 DEF TypeOK, eventVars, timerVars, signalVars
  <2>5. Len(waiting') = 0
    BY <2>2
  <2>6. \A w \in Wait : Succeeded(w)' => under[w] \in passed
    BY <1>0, <2>1, <2>3
  <2> QED BY <1>2, <2>1, <2>2, <2>4, <2>5, <2>6 DEF Inv, Timely, timerVars
<1> QED BY <1>3, <1>4, <1>5, <1>6, <1>7

(* A SignalSet: what leaves the pipe is kept or succeeds, and what was     *)
(* kept succeeds (signalSet.cpp:38).                                       *)
LEMMA SignalKeepsInv ==
  ASSUME Inv, SignalWait \/ (\E s \in Signals : Raise(s)) \/ SignalReady
  PROVE  Inv'
<1> DEFINE Found(s) == Cardinality(At(pipe, s)) + undelivered[s] + Cardinality(SuccessesWith(s))
<1>0. /\ Line /\ TypeOK /\ source = "SignalSet"
      /\ \A s \in Signals : undelivered[s] > 0 => waiting = <<>>
      /\ \A s \in Signals : raised[s] <= Found(s)
  BY DEF Inv, SignalWait, Raise, SignalReady, KeptForNobody, NoSignalLost, SuccessesWith, At
<1>1. /\ pipe \in Seq(Signals) /\ undelivered \in [Signals -> Nat] /\ raised \in [Signals -> Nat]
      /\ \A s \in Signals : s \in Nat
  BY <1>0, WaitsAssumption DEF TypeOK
<1>2. \A s \in Signals : /\ Cardinality(At(pipe, s)) \in Nat /\ undelivered[s] \in Nat /\ raised[s] \in Nat
                         /\ Cardinality(SuccessesWith(s)) \in Nat /\ IsFiniteSet(SuccessesWith(s))
  BY <1>1, WaitsFinite, CountAppend
<1>3. source' = source
  BY DEF SignalWait, Raise, SignalReady, StartWait, waits, CompleteAll, CompleteFirst
<1>4. Timely' /\ NoSpuriousWakeup'
  BY <1>0, <1>3 DEF Timely, NoSpuriousWakeup
<1>5. SUFFICES /\ Line' /\ TypeOK'
               /\ \A s \in Signals : undelivered'[s] > 0 => waiting' = <<>>
               /\ \A s \in Signals : raised'[s] <= Found(s)'
  BY <1>4 DEF Inv, KeptForNobody, NoSignalLost, SuccessesWith, At
<1>6. CASE SignalWait /\ Kept # {}
  <2>1. PICK k \in Kept : k = CHOOSE t \in Kept : \A u \in Kept : t <= u
    <3>1. Kept \in SUBSET Nat
      BY <1>1 DEF Kept
    <3> QED BY <1>6, <3>1, LeastElement
  <2>2. /\ StartWait /\ CompleteNow(k) /\ undelivered' = [undelivered EXCEPT ![k] = @ - 1]
        /\ UNCHANGED <<eventVars, timerVars, pipe, raised>>
    BY <1>6, <2>1 DEF SignalWait
  <2>3. k \in Signals /\ k \in Nat /\ undelivered[k] > 0 /\ waiting = <<>>
    BY <1>0, <1>1, <2>1 DEF Kept
  <2>4. /\ Line' /\ started + 1 \in Wait
        /\ \A s : ~SucceededWith(started + 1, s)
        /\ \A w \in Wait : \A s : SucceededWith(w, s)' <=>
             SucceededWith(w, s) \/ (s = k /\ w = started + 1)
    BY <1>0, <2>2, <2>3, CompleteNowFacts
  <2>5. SuccessesWith(k)' = SuccessesWith(k) \cup {started + 1} /\ started + 1 \notin SuccessesWith(k)
    BY <2>4 DEF SuccessesWith
  <2>6. Cardinality(SuccessesWith(k)') = Cardinality(SuccessesWith(k)) + 1
    BY <1>2, <2>3, <2>5, FS_AddElement
  <2>7. \A s \in Signals : s # k => SuccessesWith(s)' = SuccessesWith(s)
    BY <2>4 DEF SuccessesWith
  <2>8. undelivered' \in [Signals -> Nat] /\ undelivered'[k] = undelivered[k] - 1
        /\ \A s \in Signals : s # k => undelivered'[s] = undelivered[s]
    BY <1>1, <2>2, <2>3
  <2>9. TypeOK'
    BY <1>0, <2>2, <2>8 DEF TypeOK, eventVars, timerVars
  <2>10. waiting' = <<>>
    BY <2>2, <2>3 DEF CompleteNow
  <2>11. \A s \in Signals : raised'[s] <= Found(s)'
    <3> SUFFICES ASSUME NEW s \in Signals PROVE raised'[s] <= Found(s)'
      OBVIOUS
    <3>1. raised'[s] = raised[s] /\ pipe' = pipe /\ raised[s] <= Found(s)
      BY <1>0, <2>2
    <3>2. CASE s = k
      BY <1>2, <2>3, <2>6, <2>8, <3>1, <3>2
    <3>3. CASE s # k
      BY <1>2, <2>7, <2>8, <3>1, <3>3
    <3> QED BY <3>2, <3>3
  <2> QED BY <2>4, <2>9, <2>10, <2>11
<1>7. CASE SignalWait /\ Kept = {}
  <2>1. StartWait /\ KeepWaiting /\ UNCHANGED <<undelivered, eventVars, timerVars, pipe, raised>>
    BY <1>7 DEF SignalWait
  <2>2. Line' /\ \A w \in Wait : \A s : SucceededWith(w, s)' <=> SucceededWith(w, s)
    BY <1>0, <2>1, KeepWaitingFacts
  <2>3. \A s \in Signals : SuccessesWith(s)' = SuccessesWith(s)
    BY <2>2 DEF SuccessesWith
  <2>4. TypeOK'
    BY <1>0, <2>1 DEF TypeOK, eventVars, timerVars
  <2>5. \A s \in Signals : ~(undelivered[s] > 0)
    BY <1>7 DEF Kept
  <2> QED BY <1>0, <2>1, <2>2, <2>3, <2>4, <2>5
<1>8. ASSUME NEW t \in Signals, Raise(t)
      PROVE  /\ Line' /\ TypeOK'
             /\ \A s \in Signals : undelivered'[s] > 0 => waiting' = <<>>
             /\ \A s \in Signals : raised'[s] <= Found(s)'
  <2>1. /\ raised' = [raised EXCEPT ![t] = @ + 1] /\ pipe' = Append(pipe, t)
        /\ UNCHANGED <<source, started, waiting, queued, future, eventVars, timerVars, undelivered>>
    BY <1>8 DEF Raise, waits
  <2>2. Line' /\ \A s \in Signals : SuccessesWith(s)' = SuccessesWith(s)
    BY <1>0, <2>1 DEF Line, LineTypeOK, InLine, Resolved, SuccessesWith, SucceededWith
  <2>3. pipe' \in Seq(Signals) /\ raised' \in [Signals -> Nat] /\ raised'[t] = raised[t] + 1
        /\ \A s \in Signals : s # t => raised'[s] = raised[s]
    BY <1>1, <2>1
  <2>4. TypeOK'
    BY <1>0, <2>1, <2>3 DEF TypeOK, eventVars, timerVars
  <2>5. \A s \in Signals : Cardinality(At(pipe', s)) =
                             IF t = s THEN Cardinality(At(pipe, s)) + 1 ELSE Cardinality(At(pipe, s))
    BY <1>1, <2>1, CountAppend
  <2>6. \A s \in Signals : raised'[s] <= Found(s)'
    <3> SUFFICES ASSUME NEW s \in Signals PROVE raised'[s] <= Found(s)'
      OBVIOUS
    <3>1. raised[s] <= Found(s) /\ SuccessesWith(s)' = SuccessesWith(s) /\ undelivered' = undelivered
      BY <1>0, <2>1, <2>2
    <3>2. CASE s = t
      BY <1>2, <2>3, <2>5, <3>1, <3>2
    <3>3. CASE s # t
      BY <1>2, <2>3, <2>5, <3>1, <3>3
    <3> QED BY <3>2, <3>3
  <2> QED BY <1>0, <2>1, <2>2, <2>4, <2>6
<1>9. CASE SignalReady
  <2>1. pipe # <<>> /\ pipe' = Tail(pipe) /\ UNCHANGED <<eventVars, timerVars, raised>>
    BY <1>9 DEF SignalReady
  <2>2. PICK h \in Signals : h = Head(pipe) /\ Tail(pipe) \in Seq(Signals) /\ h \in Nat
    BY <1>1, <2>1, HeadTailProperties
  <2>3. \A s \in Signals : Cardinality(At(pipe', s)) =
                             IF h = s THEN Cardinality(At(pipe, s)) - 1 ELSE Cardinality(At(pipe, s))
    BY <1>1, <2>1, <2>2, CountTail
  <2>4. CASE waiting = <<>>
    <3>1. /\ undelivered' = [undelivered EXCEPT ![h] = @ + 1]
          /\ UNCHANGED <<source, started, waiting, queued, future>>
      BY <1>9, <2>2, <2>4 DEF SignalReady, waits
    <3>2. Line' /\ \A s \in Signals : SuccessesWith(s)' = SuccessesWith(s)
      BY <1>0, <3>1 DEF Line, LineTypeOK, InLine, Resolved, SuccessesWith, SucceededWith
    <3>3. undelivered' \in [Signals -> Nat] /\ undelivered'[h] = undelivered[h] + 1
          /\ \A s \in Signals : s # h => undelivered'[s] = undelivered[s]
      BY <1>1, <2>2, <3>1
    <3>4. TypeOK'
      BY <1>0, <2>1, <2>2, <3>3 DEF TypeOK, eventVars, timerVars
    <3>5. \A s \in Signals : raised'[s] <= Found(s)'
      <4> SUFFICES ASSUME NEW s \in Signals PROVE raised'[s] <= Found(s)'
        OBVIOUS
      <4>1. raised'[s] = raised[s] /\ raised[s] <= Found(s) /\ SuccessesWith(s)' = SuccessesWith(s)
        BY <1>0, <2>1, <3>2
      <4>2. CASE s = h
        BY <1>2, <2>2, <2>3, <3>3, <4>1, <4>2
      <4>3. CASE s # h
        BY <1>2, <2>3, <3>3, <4>1, <4>3
      <4> QED BY <4>2, <4>3
    <3> QED BY <2>4, <3>1, <3>2, <3>4, <3>5
  <2>5. CASE waiting # <<>>
    <3>1. CompleteAll("none", h) /\ undelivered' = undelivered
      BY <1>9, <2>2, <2>5 DEF SignalReady
    <3>2. /\ Len(waiting) \in 0..Len(waiting) /\ CompleteFirst(Len(waiting), "none", h)
          /\ Line' /\ waiting' = <<>>
      BY <1>0, <2>2, <3>1, CompleteAllFacts
    <3>3. \A w \in Wait : \A s : SucceededWith(w, s)' <=>
            SucceededWith(w, s) \/ (s = h /\ \E i \in 1..Len(waiting) : w = waiting[i])
      BY <1>0, <2>2, <3>2, SucceedFacts
    <3>4. 1 \in 1..Len(waiting)
      <4>1. waiting \in Seq(Wait)
        BY <1>0 DEF Line, LineTypeOK
      <4> QED BY <2>5, <4>1, EmptySeq
    <3>5. waiting[1] \in Wait /\ ~Succeeded(waiting[1])
      BY <1>0, <3>4, WaitingNotSucceeded
    <3>6. ~SucceededWith(waiting[1], h)
      BY <3>5 DEF Succeeded, SucceededWith
    <3>7. SuccessesWith(h) \cup {waiting[1]} \subseteq SuccessesWith(h)' /\ waiting[1] \notin SuccessesWith(h)
      BY <3>3, <3>4, <3>5, <3>6 DEF SuccessesWith
    <3>8. /\ IsFiniteSet(SuccessesWith(h)') /\ Cardinality(SuccessesWith(h)') \in Nat
          /\ IsFiniteSet(SuccessesWith(h) \cup {waiting[1]})
          /\ Cardinality(SuccessesWith(h) \cup {waiting[1]}) = Cardinality(SuccessesWith(h)) + 1
      <4>1. IsFiniteSet(SuccessesWith(h)') /\ Cardinality(SuccessesWith(h)') \in Nat
        <5>1. IsFiniteSet(Wait) /\ SuccessesWith(h)' \in SUBSET Wait
          BY WaitsAssumption, FS_Interval DEF Wait, SuccessesWith
        <5> QED BY <5>1, FS_Subset, FS_CardinalityType
      <4> QED BY <1>2, <2>2, <3>7, <4>1, FS_AddElement
    <3>9. Cardinality(SuccessesWith(h)') >= Cardinality(SuccessesWith(h)) + 1
      <4>1. Cardinality(SuccessesWith(h) \cup {waiting[1]}) <= Cardinality(SuccessesWith(h)')
        BY <3>7, <3>8, FS_Subset
      <4> QED BY <1>2, <2>2, <3>8, <4>1
    <3>10. \A s \in Signals : s # h => SuccessesWith(s)' = SuccessesWith(s)
      BY <3>3 DEF SuccessesWith
    <3>11. TypeOK'
      BY <1>0, <2>1, <2>2, <3>1 DEF TypeOK, eventVars, timerVars
    <3>12. \A s \in Signals : raised'[s] <= Found(s)'
      <4> SUFFICES ASSUME NEW s \in Signals PROVE raised'[s] <= Found(s)'
        OBVIOUS
      <4>1. raised'[s] = raised[s] /\ raised[s] <= Found(s) /\ undelivered' = undelivered
        BY <1>0, <2>1, <3>1
      <4>2. CASE s = h
        BY <1>2, <2>2, <2>3, <3>8, <3>9, <4>1, <4>2
      <4>3. CASE s # h
        BY <1>2, <2>3, <3>10, <4>1, <4>3
      <4> QED BY <4>2, <4>3
    <3> QED BY <3>2, <3>11, <3>12
  <2> QED BY <2>4, <2>5
<1> QED BY <1>6, <1>7, <1>8, <1>9

(* The initial state.                                                      *)
LEMMA InitInv == Init => Inv
<1> SUFFICES ASSUME Init PROVE Inv
  OBVIOUS
<1>0. MaxWaits \in Nat /\ \A s \in Signals : s \in Nat
  BY WaitsAssumption
<1>1. Len(waiting) = 0 /\ Len(queued) = 0 /\ started = 0 /\ Len(pipe) = 0
  BY DEF Init
<1>2. \A w \in Wait : w \in Nat /\ w > 0 /\ future[w].is = "none"
  BY <1>0 DEF Init, Wait
<1>3. LineTypeOK
  BY <1>0 DEF Init, LineTypeOK, Future
<1>4. InLine
  <2>1. Resolved = 0
    BY <1>1 DEF Resolved
  <2>2. \A w \in Wait : ~(w <= Resolved) /\ ~(w <= started)
    BY <1>1, <1>2, <2>1
  <2> QED BY <1>1, <1>2, <2>1, <2>2 DEF InLine
<1>5. TypeOK
  BY DEF Init, TypeOK
<1>6. KeptForNobody
  BY DEF Init, KeptForNobody
<1>7. \A w \in Wait : ~Succeeded(w)
  BY <1>1, <1>2 DEF Succeeded
<1>8. Timely
  BY <1>1, <1>7 DEF Timely
<1>9. NoSpuriousWakeup
  <2>1. {w \in Wait : Succeeded(w)} = {}
    BY <1>7
  <2>2. Cardinality({}) = 0
    BY FS_EmptySet
  <2>3. counter = 0 /\ notified = 0
    BY DEF Init
  <2>4. Cardinality({w \in Wait : Succeeded(w)}) = 0
    BY <2>1, <2>2
  <2> QED BY <2>3, <2>4 DEF NoSpuriousWakeup
<1>10. NoSignalLost
  <2> SUFFICES ASSUME NEW s \in Signals
               PROVE  raised[s] <= Cardinality(At(pipe, s)) + undelivered[s] + Cardinality(SuccessesWith(s))
    BY DEF NoSignalLost, At, SuccessesWith
  <2>1. Cardinality(SuccessesWith(s)) \in Nat
    BY WaitsFinite
  <2>2. pipe \in Seq(Signals)
    BY <1>5 DEF TypeOK
  <2>3. Cardinality(At(pipe, s)) \in Nat
    BY <2>2, CountAppend
  <2>4. raised[s] = 0 /\ undelivered[s] = 0
    BY DEF Init
  <2> QED BY <2>1, <2>3, <2>4
<1> QED BY <1>3, <1>4, <1>5, <1>6, <1>8, <1>9, <1>10 DEF Inv, Line

(* A step that leaves the objects alone.                                   *)
LEMMA ObjectsAlone ==
  ASSUME Inv, UNCHANGED objects
  PROVE  Inv' /\ Resolved' = Resolved /\ started' = started
<1>1. UNCHANGED <<source, started, waiting, queued, future>>
      /\ UNCHANGED <<eventVars, timerVars, signalVars>>
  BY DEF objects, waits
<1>2. Line' /\ Resolved' = Resolved
  BY <1>1 DEF Inv, Line, LineTypeOK, InLine, Resolved
<1>3. /\ \A w \in Wait : Succeeded(w)' <=> Succeeded(w)
      /\ \A w \in Wait : \A s : SucceededWith(w, s)' <=> SucceededWith(w, s)
  BY <1>1 DEF Succeeded, SucceededWith
<1> QED BY <1>1, <1>2, <1>3, Unmoved

(* Every step keeps the invariant: one step per group of actions.          *)
LEMMA NextInv == Inv /\ [Next]_vars => Inv'
<1> SUFFICES ASSUME Inv, [Next]_vars PROVE Inv'
  OBVIOUS
<1>1. CASE EventWait \/ notify \/ EventReady
  BY <1>1, EventKeepsInv
<1>2. CASE TimerWait \/ setTimeout \/ cancel \/ Elapse \/ TimerReady
  BY <1>2, TimerKeepsInv
<1>3. CASE SignalWait \/ (\E s \in Signals : Raise(s)) \/ SignalReady
  BY <1>3, SignalKeepsInv
<1>4. CASE Destroy
  BY <1>4, AbortKeepsInv DEF Destroy
<1>5. CASE Handler
  <2>1. UNCHANGED <<source, eventVars, timerVars, signalVars>>
    BY <1>5 DEF Handler, Resolve
  <2>2. /\ Line' /\ waiting' = waiting
        /\ \A w \in Wait : Succeeded(w)' <=> Succeeded(w)
        /\ \A w \in Wait : \A s : SucceededWith(w, s)' <=> SucceededWith(w, s)
    BY <1>5, HandlerFacts DEF Inv
  <2> QED BY <2>1, <2>2, Unmoved
<1>6. CASE UNCHANGED objects
  BY <1>6, ObjectsAlone
<1>7. \/ EventWait \/ notify \/ EventReady
      \/ TimerWait \/ setTimeout \/ cancel \/ Elapse \/ TimerReady
      \/ SignalWait \/ (\E s \in Signals : Raise(s)) \/ SignalReady
      \/ Destroy \/ Handler \/ UNCHANGED objects
  BY DEF Next, vars, asyncWait, Reactor, Dispatch
<1> QED BY <1>1, <1>2, <1>3, <1>4, <1>5, <1>6, <1>7

(* Waits are in line, and what is counted agrees, in every state.          *)
THEOREM WaitsInv == Spec => []Inv
BY InitInv, NextInv, PTL DEF Spec

(* The line says where each pending future is: PendingInOnePlace.          *)
LEMMA LineGivesPlaces == Line => PendingInOnePlace
<1> SUFFICES ASSUME Line PROVE PendingInOnePlace
  OBVIOUS
<1> DEFINE q == Len(queued)
           m == Len(waiting)
           ws == [i \in 1..q |-> queued[i].wait]
           r == Resolved
<1>0. /\ started \in Nat /\ q \in Nat /\ m \in Nat /\ r \in Nat /\ MaxWaits \in Nat
      /\ started = r + q + m /\ started <= MaxWaits
      /\ waiting \in Seq(Wait) /\ queued \in Seq(Completion)
  BY WaitsAssumption DEF Line, LineTypeOK, InLine, Resolved
<1>1. ws \in Seq(Wait) /\ Len(ws) = q /\ \A i \in 1..q : ws[i] = r + i
  <2>1. \A i \in 1..q : queued[i].wait \in Wait
    <3> SUFFICES ASSUME NEW i \in 1..q PROVE queued[i].wait \in Wait
      OBVIOUS
    <3>1. queued[i] \in Completion
      BY <1>0
    <3> QED BY <3>1 DEF Completion
  <2>2. \A i \in 1..q : queued[i].wait = r + i
    BY DEF Line, InLine
  <2> HIDE DEF r
  <2> QED BY <1>0, <2>1, <2>2
<1> HIDE DEF ws
<1>2. /\ Len(Places) = q + m
      /\ \A i \in 1..q : Places[i] = ws[i]
      /\ \A i \in 1..m : Places[q + i] = waiting[i]
  <2>1. /\ Len(ws \o waiting) = Len(ws) + Len(waiting)
        /\ \A i \in 1..Len(ws) : (ws \o waiting)[i] = ws[i]
        /\ \A i \in 1..Len(waiting) : (ws \o waiting)[Len(ws) + i] = waiting[i]
    <3>1. ws \in Seq(Wait) /\ waiting \in Seq(Wait)
      BY <1>0, <1>1
    <3> HIDE DEF q, m
    <3> QED BY ONLY <3>1, Joined
  <2>2. Places = ws \o waiting
    BY DEF Places, ws
  <2> QED BY <1>1, <2>1, <2>2
<1>3. ASSUME NEW i \in 1..(q + m) PROVE Places[i] = r + i
  <2>1. CASE i \in 1..q
    BY <1>1, <1>2, <2>1
  <2>2. CASE i \notin 1..q
    <3> DEFINE j == i - q
    <3>1. j \in 1..m /\ q + j = i
      BY <1>0, <2>2
    <3>2. Places[q + j] = waiting[j]
      BY <1>2, <3>1
    <3>3. waiting[j] = r + q + j
      BY <3>1 DEF Line, InLine
    <3> QED BY <1>0, <3>1, <3>2, <3>3
  <2> QED BY <2>1, <2>2
<1>4. \A w \in Wait : future[w].is = "pending" <=> w > r /\ w <= started
  <2>1. \A w \in Wait : w \in Nat
    BY DEF Wait
  <2>2. \A w \in Wait : w <= r \/ (w > r /\ w <= started) \/ w > started
    BY <1>0, <2>1
  <2>3. \A w \in Wait : /\ w <= r => ~(w > r) /\ future[w].is \in {"error", "value"}
                        /\ w > started => ~(w <= started) /\ future[w].is = "none"
                        /\ w > r /\ w <= started => future[w].is = "pending"
    BY <1>0, <2>1 DEF Line, InLine
  <2> QED BY <2>2, <2>3
<1> HIDE DEF r, q, m
<1>5. \A i, j \in 1..Len(Places) : Places[i] = Places[j] => i = j
  BY <1>0, <1>2, <1>3
<1>6. ASSUME NEW w \in Wait, w > r, w <= started
      PROVE  \E i \in 1..Len(Places) : Places[i] = w
  <2>1. w - r \in 1..(q + m) /\ r + (w - r) = w
    BY <1>0, <1>6 DEF Wait
  <2>2. Places[w - r] = w
    BY <1>3, <2>1
  <2> QED BY <1>2, <2>1, <2>2
<1>7. ASSUME NEW i \in 1..Len(Places)
      PROVE  Places[i] \in Wait /\ Places[i] > r /\ Places[i] <= started
  BY <1>0, <1>2, <1>3 DEF Wait
<1> QED BY <1>4, <1>5, <1>6, <1>7 DEF PendingInOnePlace

(* No pending future is forgotten and no promise is resolved twice,        *)
(* whatever cancel, setTimeout, destruction and the loop's thread race     *)
(* with (event.cpp:35-54, timer.cpp:41-60, signalSet.cpp:29-48).           *)
THEOREM WaitsInOnePlace == Spec => []PendingInOnePlace
<1>1. Inv => PendingInOnePlace
  BY LineGivesPlaces DEF Inv
<1> QED BY WaitsInv, <1>1, PTL

(* However many wait on an Event, and however notifications and waits      *)
(* interleave, no more succeed than were notified (event.cpp:43).          *)
THEOREM EventWakesOnce == Spec => []NoSpuriousWakeup
<1>1. Inv => NoSpuriousWakeup
  BY DEF Inv
<1> QED BY WaitsInv, <1>1, PTL

(* A wait of a Timer has a value only if its own deadline passed: the ones *)
(* that setTimeout overtakes are aborted (timer.cpp:34-59).                *)
THEOREM TimerValueMeansExpired == Spec => []ValueMeansExpired
<1>1. Inv => ValueMeansExpired
  BY DEF Inv, Timely, Succeeded, ValueMeansExpired
<1> QED BY WaitsInv, <1>1, PTL

(* Every signal raised is in the pipe, kept, or in a wait that succeeded   *)
(* with it (signalSet.cpp:34).                                             *)
THEOREM SignalsKept == Spec => []NoSignalLost
<1>1. Inv => NoSignalLost
  BY DEF Inv
<1> QED BY WaitsInv, <1>1, PTL
-----------------------------------------------------------------------------
(* The loop                                                                *)

(* What the steps do to the waits: nothing, one handler, a new wait that   *)
(* stays with asio or is complete at once, or some of them completing.     *)
LEMMA ShapeOfSteps ==
  ASSUME Inv, [Next]_vars
  PROVE  \/ Handler
         \/ UNCHANGED <<started, waiting, queued>>
         \/ StartWait /\ KeepWaiting
         \/ StartWait /\ waiting = <<>> /\ \E what \in Nat : CompleteNow(what)
         \/ \E n \in 0..Len(waiting), error \in {"none", "aborted"}, what \in Nat :
              CompleteFirst(n, error, what)
<1> DEFINE Kind == \/ Handler
                   \/ UNCHANGED <<started, waiting, queued>>
                   \/ StartWait /\ KeepWaiting
                   \/ StartWait /\ waiting = <<>> /\ \E what \in Nat : CompleteNow(what)
                   \/ \E n \in 0..Len(waiting), error \in {"none", "aborted"}, what \in Nat :
                        CompleteFirst(n, error, what)
<1>0. /\ waiting \in Seq(Wait) /\ Len(waiting) \in 0..Len(waiting) /\ pipe \in Seq(Signals)
      /\ \A s \in Signals : s \in Nat
  BY WaitsAssumption DEF Inv, Line, LineTypeOK, TypeOK
<1>1. CASE EventWait
  BY <1>1 DEF EventWait
<1>2. CASE notify \/ Elapse \/ \E s \in Signals : Raise(s)
  BY <1>2 DEF notify, Elapse, Raise, waits
<1>3. CASE EventReady
  <2>1. waiting # <<>> /\ CompleteFirst(1, "none", 0)
    BY <1>3 DEF EventReady
  <2>2. 1 \in 0..Len(waiting)
    BY <1>0, <2>1, EmptySeq
  <2> QED BY <2>1, <2>2
<1>4. CASE TimerWait
  BY <1>4 DEF TimerWait
<1>5. CASE setTimeout \/ cancel \/ Destroy
  BY <1>0, <1>5 DEF setTimeout, cancel, Destroy, CompleteAll
<1>6. CASE TimerReady
  BY <1>0, <1>6 DEF TimerReady, CompleteAll
<1>7. CASE SignalWait /\ Kept # {}
  <2>1. Kept \in SUBSET Nat
    BY <1>0 DEF Kept
  <2>2. PICK k \in Kept : k = CHOOSE t \in Kept : \A u \in Kept : t <= u
    BY <1>7, <2>1, LeastElement
  <2>3. k \in Nat /\ waiting = <<>>
    BY <1>7, <2>1, <2>2 DEF Inv, KeptForNobody, Kept, SignalWait
  <2>4. StartWait /\ CompleteNow(k)
    BY <1>7, <2>2 DEF SignalWait
  <2> QED BY <2>3, <2>4
<1>8. CASE SignalWait /\ Kept = {}
  BY <1>8 DEF SignalWait
<1>9. CASE SignalReady /\ waiting = <<>>
  BY <1>9 DEF SignalReady, waits
<1>10. CASE SignalReady /\ waiting # <<>>
  <2>1. CompleteFirst(Len(waiting), "none", Head(pipe)) /\ pipe # <<>>
    BY <1>10 DEF SignalReady, CompleteAll
  <2>2. Head(pipe) \in Nat
    BY <1>0, <2>1, HeadTailProperties
  <2> QED BY <1>0, <2>1, <2>2
<1>11. CASE Handler
  BY <1>11
<1>12. CASE UNCHANGED objects
  BY <1>12 DEF objects, waits
<1>13. \/ EventWait \/ notify \/ EventReady
       \/ TimerWait \/ setTimeout \/ cancel \/ Elapse \/ TimerReady
       \/ SignalWait \/ (\E s \in Signals : Raise(s)) \/ SignalReady
       \/ Destroy \/ Handler \/ UNCHANGED objects
  BY DEF Next, vars, asyncWait, Reactor, Dispatch
<1> HIDE DEF Kind
<1> QED BY <1>1, <1>2, <1>3, <1>4, <1>5, <1>6, <1>7, <1>8, <1>9, <1>10, <1>11, <1>12, <1>13 DEF Kind

(* What every step does to the line: it only gets longer at its end and    *)
(* shorter at its front.                                                   *)
LEMMA LineMoves ==
  ASSUME Inv, [Next]_vars
  PROVE  /\ started \in Nat /\ Resolved \in Nat
         /\ started' \in Nat /\ Resolved' \in Nat
         /\ started <= started' /\ Resolved <= Resolved'
<1>1. Inv'
  BY NextInv
<1>2. started \in Nat /\ Resolved \in Nat /\ started' \in Nat /\ Resolved' \in Nat
  BY <1>1 DEF Inv, Line, LineTypeOK, InLine
<1>3. Line
  BY DEF Inv
<1>4. CASE Handler
  <2>1. Resolved' = Resolved + 1 /\ started' = started
    BY <1>3, <1>4, HandlerFacts
  <2> QED BY <1>2, <2>1
<1>5. CASE UNCHANGED <<started, waiting, queued>>
  BY <1>2, <1>5 DEF Resolved
<1>6. CASE StartWait /\ KeepWaiting
  <2>1. started' = started + 1
    BY <1>6 DEF StartWait
  <2> QED BY <1>2, <1>3, <1>6, <2>1, KeepWaitingFacts
<1>7. CASE StartWait /\ waiting = <<>> /\ \E what \in Nat : CompleteNow(what)
  <2>1. started' = started + 1
    BY <1>7 DEF StartWait
  <2>2. PICK what \in Nat : CompleteNow(what)
    BY <1>7
  <2>3. Resolved' = Resolved
    BY <1>3, <1>7, <2>2, CompleteNowFacts
  <2> QED BY <1>2, <2>1, <2>3
<1>8. CASE \E n \in 0..Len(waiting), error \in {"none", "aborted"}, what \in Nat :
             CompleteFirst(n, error, what)
  <2>1. PICK n \in 0..Len(waiting), error \in {"none", "aborted"}, what \in Nat :
               CompleteFirst(n, error, what)
    BY <1>8
  <2>2. started' = started
    BY <2>1 DEF CompleteFirst
  <2>3. Resolved' = Resolved
    BY <1>3, <2>1, CompleteFirstFacts
  <2> QED BY <1>2, <2>2, <2>3
<1>9. \/ Handler
      \/ UNCHANGED <<started, waiting, queued>>
      \/ StartWait /\ KeepWaiting
      \/ StartWait /\ waiting = <<>> /\ \E what \in Nat : CompleteNow(what)
      \/ \E n \in 0..Len(waiting), error \in {"none", "aborted"}, what \in Nat :
           CompleteFirst(n, error, what)
  BY ShapeOfSteps
<1> QED BY <1>2, <1>4, <1>5, <1>6, <1>7, <1>8, <1>9

(* What the loop has outstanding is the line.                              *)
LEMMA OutstandingIs ==
  ASSUME Line
  PROVE  EventLoop!Outstanding = {w \in 1..started : w > Resolved}
<1> DEFINE q == Len(queued)
           m == Len(waiting)
           r == Resolved
<1>0. started \in Nat /\ q \in Nat /\ m \in Nat /\ r \in Nat /\ started = r + q + m
  BY DEF Line, LineTypeOK, InLine, Resolved
<1>1. (\A i \in 1..m : waiting[i] = r + q + i) /\ (\A i \in 1..q : queued[i].wait = r + i)
  BY DEF Line, InLine
<1>2. EventLoop!Outstanding = {waiting[i] : i \in 1..m} \cup {queued[i].wait : i \in 1..q}
  BY DEF EventLoop!Outstanding
<1> HIDE DEF q, m, r
<1>3. \A i \in 1..m : r + q + i \in 1..started /\ r + q + i > r
  BY <1>0
<1>4. \A i \in 1..q : r + i \in 1..started /\ r + i > r
  BY <1>0
<1>5. ASSUME NEW w \in 1..started, w > r
      PROVE  w \in {waiting[i] : i \in 1..m} \cup {queued[i].wait : i \in 1..q}
  <2>1. CASE w <= r + q
    <3>1. w - r \in 1..q /\ r + (w - r) = w
      BY <1>0, <1>5, <2>1
    <3>2. queued[w - r].wait = w
      BY <1>1, <3>1
    <3> QED BY <3>1, <3>2
  <2>2. CASE w > r + q
    <3>1. w - r - q \in 1..m /\ r + q + (w - r - q) = w
      BY <1>0, <1>5, <2>2
    <3>2. waiting[w - r - q] = w
      BY <1>1, <3>1
    <3> QED BY <3>1, <3>2
  <2> QED BY <1>0, <2>1, <2>2
<1>6. ASSUME NEW w \in {waiting[i] : i \in 1..m} \cup {queued[i].wait : i \in 1..q}
      PROVE  w \in 1..started /\ w > r
  BY <1>1, <1>3, <1>4
<1> QED BY <1>2, <1>5, <1>6 DEF r

(* The initial state of the loop.                                          *)
LEMMA InitLoopInv == Init => LoopInv
BY DEF Init, EventLoop!LoopInit, LoopInv

(* Every step keeps LoopInv, of a client that resets the loop before each  *)
(* call: a loop that stops without being asked to has run every handler it *)
(* owed (eventLoop.cpp:28-61).                                             *)
LEMMA NextLoopInv ==
  ASSUME ResetsFirst = TRUE, Inv, LoopInv, [Next]_vars
  PROVE  LoopInv'
<1>0. /\ started \in Nat /\ Resolved \in Nat /\ started' \in Nat /\ Resolved' \in Nat
      /\ started <= started' /\ Resolved <= Resolved'
  BY LineMoves
<1>1. 1..started \subseteq 1..started' /\ 1..Resolved \subseteq 1..Resolved'
  BY <1>0
<1>2. Line /\ EventLoop!Outstanding = {w \in 1..started : w > Resolved}
  BY OutstandingIs DEF Inv
<1>3. /\ EventLoop!Outstanding \subseteq 1..started
      /\ \A w \in 1..Resolved : w \notin EventLoop!Outstanding
  BY <1>0, <1>2
<1>4. CASE UNCHANGED loop
  BY <1>1, <1>4 DEF loop, LoopInv
<1>5. CASE Dispatch
  <2>1. Handler /\ EventLoop!Dispatch(Head(queued).wait)
    BY <1>5 DEF Dispatch
  <2>2. /\ inside # "none" /\ inside' = inside /\ owed' = owed /\ asked' = asked
        /\ fresh' = fresh /\ early' = early
        /\ stopped' = (EventLoop!Outstanding = {Head(queued).wait})
    BY <2>1 DEF EventLoop!Dispatch
  <2>3. Resolved' = Resolved + 1
    BY <1>2, <2>1, HandlerFacts
  <2>4. EventLoop!Outstanding = {Head(queued).wait} => 1..started \subseteq 1..Resolved'
    <3> SUFFICES ASSUME EventLoop!Outstanding = {Head(queued).wait}
                 PROVE  1..started \subseteq 1..Resolved'
      OBVIOUS
    <3>1. \A v, w \in 1..started : v > Resolved /\ w > Resolved => v = w
      BY <1>2
    <3>2. ASSUME started > Resolved + 1 PROVE FALSE
      <4>1. started \in 1..started /\ Resolved + 1 \in 1..started
            /\ started > Resolved /\ Resolved + 1 > Resolved
        BY <1>0, <3>2
      <4>2. started = Resolved + 1
        BY <3>1, <4>1
      <4> QED BY <1>0, <3>2, <4>2
    <3> QED BY <1>0, <2>3, <3>2
  <2>5. owed \subseteq 1..started /\ ~early
    BY DEF LoopInv
  <2>6. stopped' => owed \subseteq 1..Resolved'
    BY <2>2, <2>4, <2>5
  <2> QED BY <1>1, <2>2, <2>5, <2>6 DEF LoopInv
<1>6. ASSUME NEW call \in {"run", "poll", "runFor"}, EventLoop!Enter(call), UNCHANGED objects
      PROVE  LoopInv'
  <2>1. /\ inside = "none" /\ fresh /\ inside' = call /\ owed' = EventLoop!Outstanding
        /\ stopped' = (stopped \/ EventLoop!Outstanding = {})
        /\ asked' = asked /\ fresh' = fresh /\ early' = early
    BY <1>6 DEF EventLoop!Enter
  <2>2. stopped' /\ ~asked' => EventLoop!Outstanding = {}
    BY <2>1 DEF LoopInv
  <2> QED BY <1>1, <1>3, <2>1, <2>2 DEF LoopInv
<1>7. CASE EventLoop!Return /\ UNCHANGED objects
  <2>1. /\ inside # "none" /\ (inside = "run" => stopped)
        /\ inside' = "none" /\ fresh' = FALSE /\ owed' = {}
        /\ early' = (early \/ (inside = "run" /\ ~asked /\ owed \cap EventLoop!Outstanding # {}))
    BY <1>7 DEF EventLoop!Return
  <2>2. inside = "run" /\ ~asked => owed \subseteq 1..Resolved
    BY <2>1 DEF LoopInv
  <2>3. ~early'
    BY <1>3, <2>1, <2>2 DEF LoopInv
  <2> QED BY <2>1, <2>3 DEF LoopInv
<1>8. CASE EventLoop!reset /\ UNCHANGED objects
  BY <1>1, <1>8 DEF LoopInv, EventLoop!reset
<1>9. CASE EventLoop!stop /\ UNCHANGED objects
  BY <1>1, <1>9 DEF LoopInv, EventLoop!stop
<1>10. \/ UNCHANGED loop \/ Dispatch
       \/ UNCHANGED objects /\ EventLoop!LoopNext
  BY DEF Next, vars, Reactor
<1> QED BY <1>4, <1>5, <1>6, <1>7, <1>8, <1>9, <1>10
    DEF EventLoop!LoopNext, EventLoop!run, EventLoop!poll, EventLoop!runFor

(* "Run event processing loop until `stop()` is called or there is no more *)
(* jobs queued" (eventloop.hpp:63), for a client that calls reset() before *)
(* each call of run, poll and runFor: whatever waits are started,          *)
(* completed and resolved meanwhile, run does not return before the        *)
(* handlers of the operations it found outstanding, unless stop() was      *)
(* called.                                                                 *)
THEOREM LoopRunsUntilDone ==
  ASSUME ResetsFirst = TRUE
  PROVE  Spec => []RunsUntilDone
<1>1. Init => Inv /\ LoopInv
  BY InitInv, InitLoopInv
<1>2. Inv /\ LoopInv /\ [Next]_vars => Inv' /\ LoopInv'
  BY NextInv, NextLoopInv
<1>3. LoopInv => RunsUntilDone
  BY DEF LoopInv, RunsUntilDone, EventLoop!RunsUntilDone
<1> QED BY <1>1, <1>2, <1>3, PTL DEF Spec
-----------------------------------------------------------------------------
(***************************************************************************)
(* The datagram channels, UdpSocket and DatagramDomainSocket.              *)
(*                                                                         *)
(* The invariant: at most one operation of a direction is in progress; a   *)
(* read that has taken a datagram has put it right behind what its client  *)
(* was given so far; the position of the writer and what a completed write *)
(* has sent make up all that was sent.                                     *)
(***************************************************************************)
(* What the variables hold.                                                *)
Addresses == Address \cup {NoAddress}

Datagram == [id : Nat \ {0}, from : Address, len : Nat]

DatagramOp ==
  [dir : {"read", "write", "connect"}, address : BOOLEAN, at : Nat, n : Nat, got : Nat,
   error : BOOLEAN, id : Nat, sender : Addresses]

Entry ==
  [datagram : Nat, start : Nat, got : Nat, sender : Addresses, reported : Addresses]

Typed ==
  /\ blocked \in Seq(DatagramOp) /\ completions \in Seq(DatagramOp)
  /\ inbox \in Seq(Datagram)
  /\ sent \in Seq([at : Nat, n : Nat])
  /\ log \in Seq(Entry)
  /\ position \in [Direction -> Nat]
  /\ pe \in Addresses
  /\ peer \in Addresses
  /\ arrived \in Nat

(* A client has one read and one write in progress at most.                *)
Alone ==
  /\ \A i, j \in 1..Len(blocked) : blocked[i].dir = blocked[j].dir => i = j
  /\ \A i, j \in 1..Len(completions) :
       completions[i].dir = completions[j].dir /\ completions[i].dir # "connect" => i = j
  /\ \A i \in 1..Len(blocked), j \in 1..Len(completions) : blocked[i].dir # completions[j].dir

(* An operation in the reactor has transferred nothing, and is to use the  *)
(* part of the buffer that begins where the buffer stands.                 *)
BlockedOK(o) ==
  /\ o.dir # "connect" /\ o.id = 0 /\ o.got = 0 /\ ~o.error
  /\ o.at = position[o.dir] /\ o.at + o.n <= Total

(* A completion whose handler has not run.  One with a datagram has it in  *)
(* the buffer, right behind what the client was given so far.              *)
CompletedOK(o) ==
  /\ o.error => o.got = 0
  /\ o.id # 0 => /\ o.dir = "read"
                 /\ o.at = position["read"] /\ o.at + o.got <= Total
                 /\ \A k \in 1..o.got : memory[o.at + k] = <<o.id, k>>
  /\ o.dir = "read" /\ o.id = 0 => o.got = 0

InProgressOK ==
  /\ Alone
  /\ \A i \in 1..Len(blocked) : BlockedOK(blocked[i])
  /\ \A i \in 1..Len(completions) : CompletedOK(completions[i])

(* The client was given all that its position moved over, and nothing      *)
(* beyond it.                                                              *)
LogEnd == IF log = <<>> THEN 0 ELSE log[Len(log)].start + log[Len(log)].got

Logged ==
  /\ ReadInPlace
  /\ LogEnd = position["read"]
  /\ position["read"] <= Total
  /\ \A i \in 1..Len(log) : log[i].start + log[i].got <= position["read"]

(* What was sent ends where the position is, or where it will be when the  *)
(* handler of a write has run.                                             *)
SentEnd == IF sent = <<>> THEN 0 ELSE sent[Len(sent)].at + sent[Len(sent)].n

Transferred ==
  /\ \A i \in 1..Len(sent) : sent[i].at = IF i = 1 THEN 0 ELSE sent[i - 1].at + sent[i - 1].n
  /\ \A i \in 1..Len(completions) : completions[i].dir = "write" => SentEnd = position["write"] + completions[i].got
  /\ (\A i \in 1..Len(completions) : completions[i].dir # "write") => SentEnd = position["write"]

DatagramInv == Typed /\ InProgressOK /\ Logged /\ Transferred
-----------------------------------------------------------------------------
(* The size of a set, whichever copy of the standard module counts it.     *)
LEMMA SameSize == \A S : Cardinality(S) = Cardinality(S)
BY Zenon DEF Cardinality, Cardinality

(* Nothing of a direction is in progress when the count says so.           *)
LEMMA NoneInProgress ==
  ASSUME blocked \in Seq(DatagramOp), completions \in Seq(DatagramOp), NEW dir, NEW limit \in {0, 1},
         InProgress(dir) < limit
  PROVE  /\ \A i \in 1..Len(blocked) : blocked[i].dir # dir
         /\ \A i \in 1..Len(completions) : completions[i].dir # dir
<1> DEFINE Of(ops) == {i \in 1..Len(ops) : ops[i].dir = dir}
<1>1. Len(blocked) \in Nat /\ Len(completions) \in Nat
  OBVIOUS
<1>2. IsFiniteSet(1..Len(blocked)) /\ IsFiniteSet(1..Len(completions))
  BY <1>1, FS_Interval
<1>3. IsFiniteSet(Of(blocked)) /\ IsFiniteSet(Of(completions))
  BY <1>2, FS_Subset
<1>4. Cardinality(Of(blocked)) \in Nat /\ Cardinality(Of(completions)) \in Nat
  BY <1>3, FS_CardinalityType
<1>5. Cardinality(Of(blocked)) + Cardinality(Of(completions)) < limit
  BY SameSize DEF InProgress
<1>6. Cardinality(Of(blocked)) = 0 /\ Cardinality(Of(completions)) = 0
  BY <1>4, <1>5
<1>7. Of(blocked) = {} /\ Of(completions) = {}
  BY <1>3, <1>6, FS_EmptySet
<1> QED
  BY <1>7

(* The same for a direction that is idle.                                  *)
LEMMA NoneWhenIdle ==
  ASSUME blocked \in Seq(DatagramOp), completions \in Seq(DatagramOp), NEW dir, Idle(dir)
  PROVE  /\ \A i \in 1..Len(blocked) : blocked[i].dir # dir
         /\ \A i \in 1..Len(completions) : completions[i].dir # dir
<1>1. InProgress(dir) < 1
  BY DEF Idle
<1> QED
  BY <1>1, NoneInProgress

(* What is left of a sequence without one of its elements.                 *)
LEMMA WithoutOne ==
  ASSUME NEW S, NEW s \in Seq(S), NEW i \in 1..Len(s)
  PROVE  /\ Without(s, i) \in Seq(S) /\ Len(Without(s, i)) = Len(s) - 1
         /\ \A k \in 1..(Len(s) - 1) : Without(s, i)[k] = IF k < i THEN s[k] ELSE s[k + 1]
<1> DEFINE a == SubSeq(s, 1, i - 1)
           b == SubSeq(s, i + 1, Len(s))
<1>1. Len(s) \in Nat /\ i \in Nat /\ 1 <= i /\ i <= Len(s)
  OBVIOUS
<1>2. /\ a \in Seq(S) /\ Len(a) = i - 1
      /\ \A k \in 1..(i - 1) : a[k] = s[k]
  BY <1>1
<1>3. /\ b \in Seq(S) /\ Len(b) = Len(s) - i
      /\ \A k \in 1..(Len(s) - i) : b[k] = s[i + k]
  BY <1>1
<1>4. /\ a \o b \in Seq(S) /\ Len(a \o b) = Len(a) + Len(b)
      /\ \A k \in 1..(Len(a) + Len(b)) : (a \o b)[k] = IF k <= Len(a) THEN a[k] ELSE b[k - Len(a)]
  BY <1>2, <1>3, ConcatProperties
<1> HIDE DEF a, b
<1>5. Without(s, i) = a \o b
  BY DEF Without, a, b
<1>6. Len(a) + Len(b) = Len(s) - 1
  BY <1>1, <1>2, <1>3
<1>7. ASSUME NEW k \in 1..(Len(s) - 1)
      PROVE  (a \o b)[k] = IF k < i THEN s[k] ELSE s[k + 1]
  <2>1. CASE k < i
    BY <2>1, <1>1, <1>2, <1>4, <1>6
  <2>2. CASE ~(k < i)
    <3>1. k - Len(a) \in 1..(Len(s) - i) /\ i + (k - Len(a)) = k + 1
      BY <2>2, <1>1, <1>2
    <3>2. (a \o b)[k] = b[k - Len(a)]
      BY <2>2, <1>1, <1>2, <1>4, <1>6
    <3> QED
      BY <3>1, <3>2, <1>3, <2>2
  <2> QED
    BY <2>1, <2>2
<1> QED
  BY <1>4, <1>5, <1>6, <1>7
-----------------------------------------------------------------------------
(* What an operation is when its promise is made.                          *)
LEMMA Asked ==
  ASSUME DatagramInv, NEW dir \in Direction, NEW address \in BOOLEAN, NEW n \in Nat,
         position[dir] + n <= Total
  PROVE  /\ asio_buffer(dir, address, n) \in DatagramOp
         /\ asio_buffer(dir, address, n).dir = dir
         /\ BlockedOK(asio_buffer(dir, address, n))
<1>1. position[dir] \in Nat /\ NoAddress \in Addresses
  BY DEF DatagramInv, Typed, Addresses
<1> QED
  BY <1>1 DEF asio_buffer, DatagramOp, BlockedOK, Direction

(* A step that leaves the operations, the buffers and the client's log     *)
(* alone: a datagram arrives, connect, open and shutdown.                  *)
LEMMA LeavesTransfers ==
  ASSUME DatagramInv, UNCHANGED <<impl, sent, blocked, completions, client, pe>>,
         inbox' \in Seq(Datagram),
         peer' \in Addresses, arrived' \in Nat
  PROVE  DatagramInv'
<1>1. UNCHANGED <<impl, sent, blocked, completions, position, memory, log, pe>>
  BY DEF client
<1>2. Typed'
  BY <1>1 DEF DatagramInv, Typed
<1>3. InProgressOK'
  BY <1>1 DEF DatagramInv, InProgressOK, Alone, BlockedOK, CompletedOK
<1>4. Logged'
  BY <1>1 DEF DatagramInv, Logged, ReadInPlace, LogEnd
<1>5. Transferred'
  BY <1>1 DEF DatagramInv, Transferred, SentEnd
<1> QED
  BY <1>2, <1>3, <1>4, <1>5 DEF DatagramInv

(* The completion of an operation that transferred nothing joins the       *)
(* queue, and no other of its direction is in progress.                    *)
LEMMA FailsAtOnce ==
  ASSUME DatagramInv, NEW r \in DatagramOp, r.got = 0, r.id = 0,
         r.dir # "connect" => /\ \A i \in 1..Len(blocked) : blocked[i].dir # r.dir
                              /\ \A i \in 1..Len(completions) : completions[i].dir # r.dir,
         completions' = Append(completions, r), peer' \in Addresses,
         UNCHANGED <<impl, kernel, blocked, client, pe>>
  PROVE  DatagramInv'
<1>1. UNCHANGED <<impl, inbox, arrived, sent, blocked, position, memory, log, pe>>
  BY DEF client, kernel
<1>2. /\ completions \in Seq(DatagramOp) /\ Len(completions) \in Nat
      /\ completions' \in Seq(DatagramOp) /\ Len(completions') = Len(completions) + 1
      /\ completions'[Len(completions) + 1] = r
      /\ \A i \in 1..Len(completions) : completions'[i] = completions[i]
  BY DEF DatagramInv, Typed
<1>3. Typed'
  BY <1>1, <1>2 DEF DatagramInv, Typed
<1>4. \A i \in 1..Len(blocked) : blocked[i].dir # r.dir
  BY DEF DatagramInv, InProgressOK, BlockedOK
<1>5. Alone'
  BY <1>1, <1>2, <1>4 DEF DatagramInv, InProgressOK, Alone
<1>6. \A i \in 1..Len(blocked') : BlockedOK(blocked[i])'
  BY <1>1 DEF DatagramInv, InProgressOK, BlockedOK
<1>7. \A i \in 1..Len(completions') : CompletedOK(completions[i])'
  <2>1. ASSUME NEW i \in 1..Len(completions)
        PROVE  CompletedOK(completions[i])'
    BY <1>1, <1>2, <2>1 DEF DatagramInv, InProgressOK, CompletedOK
  <2>2. CompletedOK(completions[Len(completions)])'
    BY <1>2 DEF CompletedOK
  <2> QED
    BY <1>2, <2>1, <2>2
<1>8. Logged'
  BY <1>1 DEF DatagramInv, Logged, ReadInPlace, LogEnd
<1>9. Transferred'
  <2>1. /\ sent' = sent /\ position' = position
        /\ position["write"] \in Nat /\ r.got = 0
        /\ SentEnd' = SentEnd
    BY <1>1 DEF DatagramInv, Typed, Direction, SentEnd
  <2> QED
    BY <1>2, <2>1 DEF DatagramInv, Transferred
<1> QED
  BY <1>3, <1>5, <1>6, <1>7, <1>8, <1>9 DEF DatagramInv, InProgressOK
-----------------------------------------------------------------------------
(* The operations that still wait once o is completed or was never among   *)
(* them.                                                                   *)
Others(o) ==
  /\ blocked' \in Seq(DatagramOp)
  /\ \A i \in 1..Len(blocked') :
       blocked'[i].dir # o.dir /\ \E j \in 1..Len(blocked) : blocked'[i] = blocked[j]
  /\ \A i, j \in 1..Len(blocked') : blocked'[i].dir = blocked'[j].dir => i = j

(* The only operation of its direction is completed by r: what is in       *)
(* progress stays one of a direction, and waits where its buffer stands.   *)
LEMMA CompletesAlone ==
  ASSUME DatagramInv, NEW o \in DatagramOp, BlockedOK(o), Others(o),
         \A i \in 1..Len(completions) : completions[i].dir # o.dir,
         NEW r \in DatagramOp, r.dir = o.dir, completions' = Append(completions, r),
         UNCHANGED position
  PROVE  /\ Alone'
         /\ \A i \in 1..Len(blocked') : BlockedOK(blocked[i])'
         /\ completions' \in Seq(DatagramOp) /\ Len(completions) \in Nat /\ Len(completions') = Len(completions) + 1
         /\ completions'[Len(completions) + 1] = r
         /\ \A i \in 1..Len(completions) : completions'[i] = completions[i]
<1>2. /\ completions \in Seq(DatagramOp) /\ Len(completions) \in Nat
      /\ completions' \in Seq(DatagramOp) /\ Len(completions') = Len(completions) + 1
      /\ completions'[Len(completions) + 1] = r
      /\ \A i \in 1..Len(completions) : completions'[i] = completions[i]
  BY DEF DatagramInv, Typed
<1>3. ASSUME NEW i \in 1..Len(blocked'), NEW j \in 1..Len(completions')
      PROVE  blocked'[i].dir # completions'[j].dir
  <2>1. PICK k \in 1..Len(blocked) : blocked'[i] = blocked[k] /\ blocked'[i].dir # o.dir
    BY DEF Others
  <2>2. j \in 1..Len(completions) \/ j = Len(completions) + 1
    BY <1>2
  <2>3. CASE j \in 1..Len(completions)
    BY <2>1, <2>3, <1>2 DEF DatagramInv, InProgressOK, Alone
  <2>4. CASE j = Len(completions) + 1
    BY <2>1, <2>4, <1>2
  <2> QED
    BY <2>2, <2>3, <2>4
<1>4. \A i, j \in 1..Len(completions') :
         completions'[i].dir = completions'[j].dir /\ completions'[i].dir # "connect" => i = j
  BY <1>2 DEF DatagramInv, InProgressOK, Alone
<1>5. Alone'
  BY <1>3, <1>4 DEF Others, Alone
<1>6. \A i \in 1..Len(blocked') : BlockedOK(blocked[i])'
  BY DEF Others, DatagramInv, InProgressOK, BlockedOK
<1> QED
  BY <1>2, <1>5, <1>6

(* A send, tried.                                                          *)
LEMMA SendAttempt ==
  ASSUME DatagramInv, NEW o \in DatagramOp, BlockedOK(o), Others(o), o.dir = "write",
         \A i \in 1..Len(completions) : completions[i].dir # o.dir,
         Send(o, completions), UNCHANGED <<inbox, arrived, memory, pe, impl, peer, position, log>>
  PROVE  DatagramInv'
<1>1. PICK r \in DatagramOp :
        /\ r.dir = o.dir /\ r.id = 0 /\ (r.error => r.got = 0)
        /\ completions' = Append(completions, r)
        /\ \/ sent' = Append(sent, [at |-> o.at, n |-> o.n]) /\ r.got = o.n
           \/ sent' = sent /\ r.got = 0
  <2>1. CASE /\ ~shut /\ o.address
             /\ sent' = Append(sent, [at |-> o.at, n |-> o.n])
             /\ completions' = Append(completions, [o EXCEPT !.got = o.n])
    <3> DEFINE r == [o EXCEPT !.got = o.n]
    <3>1. /\ r \in DatagramOp /\ r.dir = o.dir /\ r.id = 0 /\ r.got = o.n
      BY DEF DatagramOp, BlockedOK
    <3>2. r.error = o.error
      BY DEF DatagramOp
    <3>3. ~r.error
      BY <3>2 DEF BlockedOK
    <3> QED
      BY <2>1, <3>1, <3>3
  <2>2. CASE /\ completions' = Append(completions, [o EXCEPT !.error = TRUE])
             /\ UNCHANGED sent
    <3> DEFINE r == [o EXCEPT !.error = TRUE]
    <3>1. /\ r \in DatagramOp /\ r.dir = o.dir /\ r.id = 0 /\ r.got = 0
      BY DEF DatagramOp, BlockedOK
    <3> QED
      BY <2>2, <3>1
  <2> QED
    BY <2>1, <2>2 DEF Send
<1>2. /\ Alone'
      /\ \A i \in 1..Len(blocked') : BlockedOK(blocked[i])'
      /\ completions' \in Seq(DatagramOp) /\ Len(completions) \in Nat /\ Len(completions') = Len(completions) + 1
      /\ completions'[Len(completions) + 1] = r
      /\ \A i \in 1..Len(completions) : completions'[i] = completions[i]
  BY <1>1, CompletesAlone
<1>3. o.at \in Nat /\ o.n \in Nat /\ o.at = position["write"] /\ position["write"] \in Nat
  BY DEF DatagramOp, BlockedOK, DatagramInv, Typed, Direction
<1>4. /\ sent \in Seq([at : Nat, n : Nat]) /\ Len(sent) \in Nat
      /\ sent' \in Seq([at : Nat, n : Nat])
  <2>1. sent \in Seq([at : Nat, n : Nat]) /\ [at |-> o.at, n |-> o.n] \in [at : Nat, n : Nat]
    BY <1>3 DEF DatagramInv, Typed
  <2>2. Append(sent, [at |-> o.at, n |-> o.n]) \in Seq([at : Nat, n : Nat])
    BY <2>1
  <2>3. Len(sent) \in Nat
    BY <2>1
  <2> QED
    BY <2>1, <2>2, <2>3, <1>1
<1>5. Typed'
  BY <1>2, <1>4 DEF DatagramInv, Typed, Others
<1>6. \A i \in 1..Len(completions') : CompletedOK(completions[i])'
  <2>1. ASSUME NEW i \in 1..Len(completions)
        PROVE  CompletedOK(completions[i])'
    BY <1>2, <2>1 DEF DatagramInv, InProgressOK, CompletedOK
  <2>2. CompletedOK(completions[Len(completions)])'
    BY <1>1, <1>2 DEF CompletedOK
  <2> QED
    BY <1>2, <2>1, <2>2
<1>7. Logged'
  BY DEF DatagramInv, Logged, ReadInPlace, LogEnd
<1>8. SentEnd = o.at
  BY <1>3 DEF DatagramInv, Transferred
<1>9. Transferred'
  <2>1. CASE sent' = Append(sent, [at |-> o.at, n |-> o.n]) /\ r.got = o.n
    <3>1. /\ Len(sent') = Len(sent) + 1 /\ sent'[Len(sent) + 1].at = o.at /\ sent'[Len(sent) + 1].n = o.n
          /\ \A i \in 1..Len(sent) : sent'[i] = sent[i]
          /\ sent' # <<>>
      BY <2>1, <1>3, <1>4
    <3>2. SentEnd' = o.at + o.n
      BY <3>1 DEF SentEnd
    <3>3. \A i \in 1..Len(sent') : sent'[i].at = IF i = 1 THEN 0 ELSE sent'[i - 1].at + sent'[i - 1].n
      <4>1. \A i \in 1..Len(sent) : sent'[i].at = IF i = 1 THEN 0 ELSE sent'[i - 1].at + sent'[i - 1].n
        <5> SUFFICES ASSUME NEW i \in 1..Len(sent)
                     PROVE  sent'[i].at = IF i = 1 THEN 0 ELSE sent'[i - 1].at + sent'[i - 1].n
          OBVIOUS
        <5>1. sent[i].at = IF i = 1 THEN 0 ELSE sent[i - 1].at + sent[i - 1].n
          BY DEF DatagramInv, Transferred
        <5>2. i # 1 => i - 1 \in 1..Len(sent)
          BY <1>4
        <5> QED
          BY <5>1, <5>2, <3>1
      <4>2. o.at = IF Len(sent) + 1 = 1 THEN 0 ELSE sent[Len(sent)].at + sent[Len(sent)].n
        BY <1>8, <1>4 DEF SentEnd
      <4>3. o.at = IF Len(sent) + 1 = 1 THEN 0 ELSE sent'[Len(sent)].at + sent'[Len(sent)].n
        BY <4>2, <3>1, <1>4
      <4>4. sent'[Len(sent) + 1].at = IF Len(sent) + 1 = 1 THEN 0
                                      ELSE sent'[(Len(sent) + 1) - 1].at + sent'[(Len(sent) + 1) - 1].n
        BY <4>3, <3>1, <1>4
      <4>5. \A i \in 1..Len(sent') : i \in 1..Len(sent) \/ i = Len(sent) + 1
        BY <3>1, <1>4
      <4> QED
        BY <4>1, <4>4, <4>5
    <3>4. \A i \in 1..Len(completions') : completions'[i].dir = "write" => completions'[i].got = o.n
      BY <1>1, <1>2, <2>1
    <3>5. completions'[Len(completions')].dir = "write" /\ Len(completions') \in 1..Len(completions')
      BY <1>1, <1>2
    <3> QED
      BY <3>2, <3>3, <3>4, <3>5, <1>3 DEF Transferred
  <2>2. CASE sent' = sent /\ r.got = 0
    <3>1. SentEnd' = SentEnd
      BY <2>2 DEF SentEnd
    <3>2. \A i \in 1..Len(completions') : completions'[i].dir = "write" => completions'[i].got = 0
      BY <1>1, <1>2, <2>2
    <3>3. completions'[Len(completions')].dir = "write" /\ Len(completions') \in 1..Len(completions')
      BY <1>1, <1>2
    <3> QED
      BY <2>2, <3>1, <3>2, <3>3, <1>3, <1>8 DEF DatagramInv, Transferred
  <2> QED
    BY <1>1, <2>1, <2>2
<1> QED
  BY <1>2, <1>5, <1>6, <1>7, <1>9 DEF DatagramInv, InProgressOK
-----------------------------------------------------------------------------
(* What a receive takes is the first datagram, and as much of it as there  *)
(* is room for.                                                            *)
LEMMA ReceivedFits ==
  ASSUME DatagramInv, NEW o \in DatagramOp, BlockedOK(o), o.dir = "read", inbox # <<>>
  PROVE  /\ Received(o) \in DatagramOp /\ Received(o).dir = "read"
         /\ Received(o).id # 0 /\ Received(o).at = o.at /\ Received(o).n = o.n
         /\ Received(o).got <= o.n
         /\ Received(o).address = o.address
         /\ ~Received(o).error
         /\ Tail(inbox) \in Seq(Datagram)
<1>1. /\ Head(inbox) \in Datagram
      /\ Tail(inbox) \in Seq(Datagram)
  BY DEF DatagramInv, Typed
<1>2. o.n \in Nat /\ Head(inbox).len \in Nat /\ Head(inbox).from \in Addresses
      /\ Head(inbox).id \in Nat /\ Head(inbox).id # 0
  BY <1>1 DEF DatagramOp, Addresses, Datagram
<1>3. PICK g : g = Smaller(o.n, Head(inbox).len)
  OBVIOUS
<1>4. g \in Nat /\ g <= o.n
  BY <1>2, <1>3 DEF Smaller
<1>5. Received(o) = [o EXCEPT !.id = Head(inbox).id, !.sender = Head(inbox).from, !.got = g]
  BY <1>3 DEF Received
<1>6. /\ Received(o) \in DatagramOp /\ Received(o).dir = "read"
      /\ Received(o).id # 0 /\ Received(o).at = o.at /\ Received(o).n = o.n
      /\ Received(o).got <= o.n
  BY <1>2, <1>4, <1>5 DEF DatagramOp
<1>7. Received(o).address = o.address /\ Received(o).error = o.error
  BY <1>5 DEF DatagramOp
<1>8. ~Received(o).error
  BY <1>7 DEF BlockedOK
<1> QED
  BY <1>1, <1>6, <1>7, <1>8

(* It goes behind the part of the buffer that the client has been given.   *)
LEMMA StoredBehind ==
  ASSUME NEW r \in DatagramOp, r.at + r.got <= Total, Total \in Nat
  PROVE  /\ \A k \in 1..r.got : Stored(r)[r.at + k] = <<r.id, k>>
         /\ \A x \in 1..r.at : Stored(r)[x] = memory[x]
<1>1. r.at \in Nat /\ r.got \in Nat
  BY DEF DatagramOp
<1>2. ASSUME NEW k \in 1..r.got
      PROVE  Stored(r)[r.at + k] = <<r.id, k>>
  <2>1. r.at + k \in 1..Total /\ (r.at + k) - r.at = k
    BY <1>1
  <2> QED
    BY <2>1 DEF Stored
<1>3. ASSUME NEW x \in 1..r.at
      PROVE  Stored(r)[x] = memory[x]
  <2>1. x \in 1..Total /\ x - r.at \notin 1..r.got
    BY <1>1
  <2> QED
    BY <2>1 DEF Stored
<1> QED
  BY <1>2, <1>3

(* So the log stays true of the buffer.                                    *)
LEMMA LogStaysTrue ==
  ASSUME DatagramInv, UNCHANGED <<log, impl, position>>,
         \A x \in 1..position["read"] : memory'[x] = memory[x]
  PROVE  Logged'
<1>1. LogEnd' = position'["read"] /\ position'["read"] <= Total
  BY DEF DatagramInv, Logged, LogEnd
<1>2. \A i \in 1..Len(log') : log'[i].start + log'[i].got <= position'["read"]
  BY DEF DatagramInv, Logged
<1>4. ASSUME NEW i \in 1..Len(log), NEW k \in 1..log[i].got
      PROVE  memory'[log[i].start + k] = <<log[i].datagram, k>>
  <2>1. log[i] \in Entry /\ position["read"] \in Nat
    BY DEF DatagramInv, Typed, Direction
  <2>2. log[i].start \in Nat /\ log[i].got \in Nat
    BY <2>1 DEF Entry
  <2>3. log[i].start + log[i].got <= position["read"]
    BY DEF DatagramInv, Logged
  <2>4. log[i].start + k \in 1..position["read"]
    BY <2>1, <2>2, <2>3
  <2> QED
    BY <2>4 DEF DatagramInv, Logged, ReadInPlace
<1>5. ReadInPlace'
  BY <1>4 DEF DatagramInv, Logged, ReadInPlace
<1> QED
  BY <1>1, <1>2, <1>5 DEF Logged

(* A receive, tried.                                                       *)
LEMMA ReceiveAttempt ==
  ASSUME DatagramInv, Total \in Nat, NEW o \in DatagramOp, BlockedOK(o), Others(o), o.dir = "read",
         \A i \in 1..Len(completions) : completions[i].dir # o.dir,
         Receive(o, completions), UNCHANGED <<arrived, sent, impl, peer, position, log>>
  PROVE  DatagramInv'
<1>1. PICK r \in DatagramOp :
        /\ r.dir = o.dir /\ completions' = Append(completions, r)
        /\ r.error => r.got = 0
        /\ inbox' \in Seq(Datagram)
        /\ pe' \in Addresses
        /\ \/ /\ r.id = 0 /\ r.got = 0 /\ memory' = memory
           \/ /\ r.id # 0 /\ r.at = o.at /\ r.got <= o.n /\ memory' = Stored(r)
  <2>1. CASE inbox # <<>> /\ memory' = Stored(Received(o)) /\ completions' = Append(completions, Received(o))
             /\ StoreSender(Received(o)) /\ inbox' = Tail(inbox)
    <3>1. PICK r : r = Received(o)
      OBVIOUS
    <3>2. /\ r \in DatagramOp /\ r.dir = "read"
          /\ r.id # 0 /\ r.at = o.at /\ r.n = o.n
          /\ r.got <= o.n
          /\ ~r.error
          /\ Tail(inbox) \in Seq(Datagram)
      BY <2>1, <3>1, ReceivedFits
    <3>3. r.sender \in Addresses /\ pe \in Addresses
      BY <3>2 DEF DatagramOp, DatagramInv, Typed
    <3>4. StoreSender(r)
      BY <2>1, <3>1
    <3>5. pe' \in Addresses
      BY <3>3, <3>4 DEF StoreSender
    <3> QED
      BY <2>1, <3>1, <3>2, <3>5
  <2>2. CASE inbox' = inbox /\ memory' = memory /\ pe' = pe /\ completions' = Append(completions, o)
    <3>1. /\ inbox' \in Seq(Datagram) /\ pe' \in Addresses
      BY <2>2 DEF DatagramInv, Typed
    <3> QED
      BY <2>2, <3>1 DEF BlockedOK
  <2>3. CASE inbox' = inbox /\ memory' = memory /\ pe' = pe
             /\ completions' = Append(completions, [o EXCEPT !.error = TRUE])
    <3>1. /\ inbox' \in Seq(Datagram) /\ pe' \in Addresses
      BY <2>3 DEF DatagramInv, Typed
    <3> DEFINE r == [o EXCEPT !.error = TRUE]
    <3>2. /\ r \in DatagramOp /\ r.dir = o.dir /\ r.id = 0 /\ r.got = 0
      BY DEF DatagramOp, BlockedOK
    <3> QED
      BY <2>3, <3>1, <3>2
  <2> QED
    BY <2>1, <2>2, <2>3 DEF Receive
<1>2. /\ Alone'
      /\ \A i \in 1..Len(blocked') : BlockedOK(blocked[i])'
      /\ completions' \in Seq(DatagramOp) /\ Len(completions) \in Nat /\ Len(completions') = Len(completions) + 1
      /\ completions'[Len(completions) + 1] = r
      /\ \A i \in 1..Len(completions) : completions'[i] = completions[i]
  BY <1>1, CompletesAlone
<1>3. /\ o.at \in Nat /\ o.n \in Nat /\ o.at = position["read"] /\ o.at + o.n <= Total
      /\ position["read"] \in Nat /\ r.at \in Nat /\ r.got \in Nat
  BY DEF DatagramOp, BlockedOK, DatagramInv, Typed, Direction
<1>4. Typed'
  BY <1>1, <1>2 DEF DatagramInv, Typed, Others
<1>5. /\ \A x \in 1..position["read"] : memory'[x] = memory[x]
      /\ r.id # 0 => /\ r.at = position["read"] /\ r.at + r.got <= Total
                     /\ \A k \in 1..r.got : memory'[r.at + k] = <<r.id, k>>
      /\ r.id = 0 => r.got = 0
  <2>1. CASE r.id = 0 /\ r.got = 0 /\ memory' = memory
    BY <2>1
  <2>2. CASE r.id # 0 /\ r.at = o.at /\ r.got <= o.n /\ memory' = Stored(r)
    <3>1. r.at + r.got <= Total
      BY <2>2, <1>3
    <3>2. /\ \A k \in 1..r.got : Stored(r)[r.at + k] = <<r.id, k>>
          /\ \A x \in 1..r.at : Stored(r)[x] = memory[x]
      BY <3>1, StoredBehind
    <3> QED
      BY <2>2, <3>1, <3>2, <1>3
  <2> QED
    BY <1>1, <2>1, <2>2
<1>6. Logged'
  BY <1>5, LogStaysTrue
<1>7. \A i \in 1..Len(completions') : CompletedOK(completions[i])'
  <2>1. ASSUME NEW i \in 1..Len(completions)
        PROVE  CompletedOK(completions[i])'
    <3>1. completions[i].id = 0 /\ (completions[i].error => completions[i].got = 0) /\ completions[i].dir # "read"
      BY DEF DatagramInv, InProgressOK, CompletedOK
    <3> QED
      BY <3>1, <1>2 DEF CompletedOK
  <2>2. CompletedOK(completions[Len(completions)])'
    BY <1>1, <1>2, <1>5 DEF CompletedOK
  <2> QED
    BY <1>2, <2>1, <2>2
<1>8. Transferred'
  <2>1. SentEnd' = SentEnd
    BY DEF SentEnd
  <2>2. \A i \in 1..Len(completions') : completions'[i].dir = "write" => i \in 1..Len(completions)
    BY <1>1, <1>2
  <2> QED
    BY <2>1, <2>2, <1>2 DEF DatagramInv, Transferred
<1> QED
  BY <1>2, <1>4, <1>6, <1>7, <1>8 DEF DatagramInv, InProgressOK
-----------------------------------------------------------------------------
(* One try of an operation, at the call or from the reactor.               *)
LEMMA Attempt ==
  ASSUME DatagramInv, Total \in Nat, NEW o \in DatagramOp, BlockedOK(o), Others(o),
         \A i \in 1..Len(completions) : completions[i].dir # o.dir,
         Try(o, completions), UNCHANGED <<socket, position, log>>
  PROVE  DatagramInv'
<1>1. UNCHANGED <<impl, peer, position, log>>
  BY DEF socket
<1>2. CASE o.dir = "read" /\ Receive(o, completions) /\ UNCHANGED <<arrived, sent>>
  BY <1>1, <1>2, ReceiveAttempt
<1>3. CASE o.dir = "write" /\ Send(o, completions) /\ UNCHANGED <<inbox, arrived, memory, pe>>
  BY <1>1, <1>3, SendAttempt
<1> QED
  BY <1>2, <1>3 DEF Try

(* An operation that would block is left to the reactor.                   *)
LEMMA LeftToReactor ==
  ASSUME DatagramInv, NEW o \in DatagramOp, BlockedOK(o),
         \A i \in 1..Len(blocked) : blocked[i].dir # o.dir,
         \A i \in 1..Len(completions) : completions[i].dir # o.dir,
         blocked' = Append(blocked, o),
         UNCHANGED <<socket, kernel, completions, client, pe>>
  PROVE  DatagramInv'
<1>1. UNCHANGED <<impl, peer, inbox, arrived, sent, completions, position, memory, log, pe>>
  BY DEF client, kernel, socket
<1>2. /\ blocked \in Seq(DatagramOp) /\ Len(blocked) \in Nat
      /\ blocked' \in Seq(DatagramOp) /\ Len(blocked') = Len(blocked) + 1
      /\ blocked'[Len(blocked) + 1] = o
      /\ \A i \in 1..Len(blocked) : blocked'[i] = blocked[i]
  BY DEF DatagramInv, Typed
<1>3. Typed'
  BY <1>1, <1>2 DEF DatagramInv, Typed
<1>4. Alone'
  BY <1>1, <1>2 DEF DatagramInv, InProgressOK, Alone
<1>5. \A i \in 1..Len(blocked') : BlockedOK(blocked[i])'
  BY <1>1, <1>2 DEF DatagramInv, InProgressOK, BlockedOK
<1>6. \A i \in 1..Len(completions') : CompletedOK(completions[i])'
  BY <1>1 DEF DatagramInv, InProgressOK, CompletedOK
<1>7. Logged'
  BY <1>1 DEF DatagramInv, Logged, ReadInPlace, LogEnd
<1>8. Transferred'
  BY <1>1 DEF DatagramInv, Transferred, SentEnd
<1> QED
  BY <1>3, <1>4, <1>5, <1>6, <1>7, <1>8 DEF DatagramInv, InProgressOK

(* An operation that starts.                                               *)
LEMMA StartKeeps ==
  ASSUME DatagramInv, Total \in Nat, MaxPending \in {0, 1}, NEW o \in DatagramOp, BlockedOK(o), Start(o)
  PROVE  DatagramInv'
<1>1. blocked \in Seq(DatagramOp) /\ completions \in Seq(DatagramOp)
  BY DEF DatagramInv, Typed
<1>2. /\ \A i \in 1..Len(blocked) : blocked[i].dir # o.dir
      /\ \A i \in 1..Len(completions) : completions[i].dir # o.dir
  <2>1. InProgress(o.dir) < MaxPending
    BY DEF Start
  <2> QED
    BY <1>1, <2>1, NoneInProgress
<1>3. UNCHANGED <<socket, position, log>>
  BY DEF Start
<1>4. CASE Try(o, completions) /\ UNCHANGED blocked
  <2>1. Others(o)
    BY <1>1, <1>2, <1>4 DEF Others, DatagramInv, InProgressOK, Alone
  <2> QED
    BY <1>2, <1>3, <1>4, <2>1, Attempt
<1>5. CASE blocked' = Append(blocked, o) /\ UNCHANGED <<completions, kernel, memory, pe>>
  <2>1. UNCHANGED <<socket, kernel, completions, client, pe>>
    BY <1>3, <1>5 DEF client
  <2> QED
    BY <1>2, <1>5, <2>1, LeftToReactor
<1>6. CASE /\ completions' = Append(completions, [o EXCEPT !.error = TRUE])
           /\ UNCHANGED <<blocked, kernel, memory, pe>>
  <2>1. PICK r : r = [o EXCEPT !.error = TRUE]
    OBVIOUS
  <2>2. r \in DatagramOp /\ r.dir = o.dir /\ r.got = 0 /\ r.id = 0
    BY <2>1 DEF DatagramOp, BlockedOK
  <2>3. /\ completions' = Append(completions, r) /\ peer' \in Addresses
        /\ UNCHANGED <<impl, kernel, blocked, client, pe>>
    BY <1>3, <1>6, <2>1 DEF client, socket, DatagramInv, Typed
  <2> QED
    BY <1>2, <2>2, <2>3, FailsAtOnce
<1> QED
  BY <1>4, <1>5, <1>6 DEF Start

(* The reactor completes one.                                              *)
LEMMA ReactorKeeps ==
  ASSUME DatagramInv, Total \in Nat, ReactorStep
  PROVE  DatagramInv'
<1>1. PICK i \in 1..Len(blocked) :
         Try(blocked[i], completions) /\ blocked' = Without(blocked, i)
  BY DEF ReactorStep
<1>2. UNCHANGED <<socket, position, log>>
  BY DEF ReactorStep
<1>3. blocked \in Seq(DatagramOp) /\ Len(blocked) \in Nat
  BY DEF DatagramInv, Typed
<1>4. PICK o \in DatagramOp : o = blocked[i]
  BY <1>3
<1>5. BlockedOK(o) /\ \A j \in 1..Len(completions) : completions[j].dir # o.dir
  BY <1>4 DEF DatagramInv, InProgressOK, Alone
<1>6. /\ blocked' \in Seq(DatagramOp) /\ Len(blocked') = Len(blocked) - 1
      /\ \A k \in 1..(Len(blocked) - 1) : blocked'[k] = IF k < i THEN blocked[k] ELSE blocked[k + 1]
  BY <1>1, <1>3, WithoutOne
<1>7. \A j, k \in 1..Len(blocked) : blocked[j].dir = blocked[k].dir => j = k
  BY DEF DatagramInv, InProgressOK, Alone
<1>8. Others(o)
  <2>1. ASSUME NEW k \in 1..Len(blocked')
        PROVE  \E j \in 1..Len(blocked) :
                 j # i /\ blocked'[k] = blocked[j] /\ j = IF k < i THEN k ELSE k + 1
    BY <1>3, <1>6
  <2>2. ASSUME NEW k \in 1..Len(blocked'), NEW m \in 1..Len(blocked'),
               blocked'[k].dir = blocked'[m].dir
        PROVE  k = m
    <3>1. PICK j \in 1..Len(blocked) : blocked'[k] = blocked[j] /\ j = IF k < i THEN k ELSE k + 1
      BY <2>1
    <3>2. PICK l \in 1..Len(blocked) : blocked'[m] = blocked[l] /\ l = IF m < i THEN m ELSE m + 1
      BY <2>1
    <3>3. j = l
      BY <2>2, <3>1, <3>2, <1>7
    <3>4. k \in Nat /\ m \in Nat /\ i \in Nat
      BY <1>3, <1>6
    <3> QED
      BY <3>1, <3>2, <3>3, <3>4
  <2>3. ASSUME NEW k \in 1..Len(blocked')
        PROVE  blocked'[k].dir # o.dir /\ \E j \in 1..Len(blocked) : blocked'[k] = blocked[j]
    BY <2>1, <1>4, <1>7
  <2> QED
    BY <1>6, <2>2, <2>3 DEF Others
<1> QED
  BY <1>1, <1>2, <1>4, <1>5, <1>8, Attempt

(* cancel and close abort what waits.                                      *)
LEMMA AbortKeeps ==
  ASSUME DatagramInv, completions' = completions \o Aborted, blocked' = <<>>,
         inbox' \in Seq(Datagram), peer' \in Addresses,
         UNCHANGED <<impl, arrived, sent, client, pe>>
  PROVE  DatagramInv'
<1>1. UNCHANGED <<impl, arrived, sent, position, memory, log, pe>>
  BY DEF client
<1>2. /\ blocked \in Seq(DatagramOp) /\ Len(blocked) \in Nat
      /\ completions \in Seq(DatagramOp) /\ Len(completions) \in Nat
  BY DEF DatagramInv, Typed
<1>3. ASSUME NEW i \in 1..Len(blocked)
      PROVE  /\ [blocked[i] EXCEPT !.error = TRUE] \in DatagramOp
             /\ [blocked[i] EXCEPT !.error = TRUE].dir = blocked[i].dir
             /\ [blocked[i] EXCEPT !.error = TRUE].got = 0
             /\ [blocked[i] EXCEPT !.error = TRUE].id = 0
  <2>1. blocked[i] \in DatagramOp /\ blocked[i].got = 0 /\ blocked[i].id = 0
    BY <1>2 DEF DatagramInv, InProgressOK, BlockedOK
  <2> QED
    BY <2>1 DEF DatagramOp
<1>4. /\ Aborted \in Seq(DatagramOp) /\ Len(Aborted) = Len(blocked)
      /\ \A i \in 1..Len(blocked) :
           Aborted[i].dir = blocked[i].dir /\ Aborted[i].got = 0 /\ Aborted[i].id = 0
  <2>1. Aborted \in [1..Len(blocked) -> DatagramOp]
    BY <1>3 DEF Aborted
  <2>2. Aborted \in Seq(DatagramOp)
    BY <2>1, <1>2, SeqDef
  <2>3. DOMAIN Aborted = 1..Len(Aborted) /\ Len(Aborted) \in Nat
    BY <2>2, LenProperties
  <2>4. Len(Aborted) = Len(blocked)
    BY <1>2, <2>1, <2>3
  <2> QED
    BY <2>2, <2>4, <1>3 DEF Aborted
<1>5. /\ completions' \in Seq(DatagramOp) /\ Len(completions') = Len(completions) + Len(blocked)
      /\ \A i \in 1..Len(completions') :
           completions'[i] = IF i <= Len(completions) THEN completions[i] ELSE Aborted[i - Len(completions)]
  <2>1. /\ completions \o Aborted \in Seq(DatagramOp)
        /\ Len(completions \o Aborted) = Len(completions) + Len(Aborted)
        /\ \A i \in 1..(Len(completions) + Len(Aborted)) :
             (completions \o Aborted)[i] =
               IF i <= Len(completions) THEN completions[i] ELSE Aborted[i - Len(completions)]
    BY <1>2, <1>4, ConcatProperties
  <2> QED
    BY <2>1, <1>4
<1>6. \A i \in 1..Len(completions') :
        \/ i \in 1..Len(completions) /\ completions'[i] = completions[i]
        \/ /\ i - Len(completions) \in 1..Len(blocked)
           /\ completions'[i].dir = blocked[i - Len(completions)].dir /\ completions'[i].got = 0 /\ completions'[i].id = 0
  BY <1>2, <1>4, <1>5
<1>7. Typed'
  BY <1>1, <1>5 DEF DatagramInv, Typed
<1>8. Alone'
  <2>1. ASSUME NEW i \in 1..Len(completions'), NEW j \in 1..Len(completions'),
               completions'[i].dir = completions'[j].dir, completions'[i].dir # "connect"
        PROVE  i = j
    <3>1. CASE /\ i \in 1..Len(completions) /\ completions'[i] = completions[i]
               /\ j \in 1..Len(completions) /\ completions'[j] = completions[j]
      BY <2>1, <3>1 DEF DatagramInv, InProgressOK, Alone
    <3>2. CASE /\ i - Len(completions) \in 1..Len(blocked) /\ completions'[i].dir = blocked[i - Len(completions)].dir
               /\ j - Len(completions) \in 1..Len(blocked) /\ completions'[j].dir = blocked[j - Len(completions)].dir
      <4>1. i - Len(completions) = j - Len(completions)
        BY <2>1, <3>2 DEF DatagramInv, InProgressOK, Alone
      <4> QED
        BY <4>1, <1>2
    <3>3. CASE /\ i - Len(completions) \in 1..Len(blocked) /\ completions'[i].dir = blocked[i - Len(completions)].dir
               /\ j \in 1..Len(completions) /\ completions'[j] = completions[j]
      BY <2>1, <3>3 DEF DatagramInv, InProgressOK, Alone
    <3>4. CASE /\ j - Len(completions) \in 1..Len(blocked) /\ completions'[j].dir = blocked[j - Len(completions)].dir
               /\ i \in 1..Len(completions) /\ completions'[i] = completions[i]
      BY <2>1, <3>4 DEF DatagramInv, InProgressOK, Alone
    <3> QED
      BY <1>6, <3>1, <3>2, <3>3, <3>4
  <2> QED
    BY <2>1 DEF Alone
<1>9. \A i \in 1..Len(completions') : CompletedOK(completions[i])'
  <2> SUFFICES ASSUME NEW i \in 1..Len(completions')
               PROVE  CompletedOK(completions[i])'
    OBVIOUS
  <2>1. CASE i \in 1..Len(completions) /\ completions'[i] = completions[i]
    BY <1>1, <2>1 DEF DatagramInv, InProgressOK, CompletedOK
  <2>2. CASE completions'[i].got = 0 /\ completions'[i].id = 0
    BY <2>2 DEF CompletedOK
  <2> QED
    BY <1>6, <2>1, <2>2
<1>10. Logged'
  BY <1>1 DEF DatagramInv, Logged, ReadInPlace, LogEnd
<1>11. Transferred'
  <2>1. SentEnd' = SentEnd /\ position["write"] \in Nat
    BY <1>1 DEF SentEnd, DatagramInv, Typed, Direction
  <2>2. \A i \in 1..Len(completions) : completions'[i] = completions[i] /\ i \in 1..Len(completions')
    BY <1>2, <1>5
  <2>3. CASE \A i \in 1..Len(completions) : completions[i].dir # "write"
    <3>1. SentEnd = position["write"]
      BY <2>3 DEF DatagramInv, Transferred
    <3>2. \A i \in 1..Len(completions') : completions'[i].dir = "write" => completions'[i].got = 0
      BY <2>3, <1>6
    <3> QED
      BY <1>1, <2>1, <3>1, <3>2 DEF DatagramInv, Transferred
  <2>4. CASE ~(\A i \in 1..Len(completions) : completions[i].dir # "write")
    <3>1. PICK i \in 1..Len(completions) : completions[i].dir = "write"
      BY <2>4
    <3>2. \A j \in 1..Len(completions') :
            completions'[j].dir = "write" => j \in 1..Len(completions) /\ completions'[j] = completions[j]
      BY <3>1, <1>6 DEF DatagramInv, InProgressOK, Alone
    <3> QED
      BY <1>1, <2>1, <2>2, <3>1, <3>2 DEF DatagramInv, Transferred
  <2> QED
    BY <2>3, <2>4
<1>12. \A i \in 1..Len(blocked') : BlockedOK(blocked[i])'
  OBVIOUS
<1> QED
  BY <1>7, <1>8, <1>9, <1>10, <1>11, <1>12 DEF DatagramInv, InProgressOK
-----------------------------------------------------------------------------
(* A datagram is given to the client: the log grows by it, and so does the *)
(* part of the buffer it speaks of.                                        *)
LEMMA LogGrows ==
  ASSUME DatagramInv, NEW e \in Entry, log' = Append(log, e), impl' = impl,
         e.start = position["read"],
         position'["read"] = position["read"] + e.got, position'["read"] <= Total,
         \A x \in 1..position["read"] : memory'[x] = memory[x],
         \A k \in 1..e.got : memory'[e.start + k] = <<e.datagram, k>>
  PROVE  log' \in Seq(Entry) /\ Logged'
<1>1. log \in Seq(Entry) /\ Len(log) \in Nat /\ position["read"] \in Nat
  BY DEF DatagramInv, Typed, Direction
<1>2. /\ log' \in Seq(Entry) /\ Len(log') = Len(log) + 1 /\ log'[Len(log) + 1] = e
      /\ \A i \in 1..Len(log) : log'[i] = log[i]
      /\ log' # <<>>
  BY <1>1
<1>3. e.start \in Nat /\ e.got \in Nat
  BY DEF Entry
<1>4. LogEnd' = position'["read"]
  BY <1>2 DEF LogEnd
<1>5. ASSUME NEW i \in 1..Len(log)
      PROVE  /\ log[i].start \in Nat /\ log[i].got \in Nat
             /\ log[i].start + log[i].got <= position["read"]
  <2>1. log[i] \in Entry
    BY <1>1
  <2> QED
    BY <2>1 DEF Entry, DatagramInv, Logged
<1>6. \A i \in 1..Len(log') : log'[i].start + log'[i].got <= position'["read"]
  BY <1>1, <1>2, <1>3, <1>5
<1>7. ASSUME NEW i \in 1..Len(log), NEW k \in 1..log[i].got
      PROVE  memory'[log[i].start + k] = <<log[i].datagram, k>>
  <2>1. log[i].start + k \in 1..position["read"]
    BY <1>1, <1>5
  <2> QED
    BY <2>1 DEF DatagramInv, Logged, ReadInPlace
<1>8. ASSUME NEW i \in 1..Len(log')
      PROVE  \A k \in 1..log'[i].got : memory'[log'[i].start + k] = <<log'[i].datagram, k>>
  <2>1. CASE i \in 1..Len(log)
    BY <2>1, <1>2, <1>7
  <2>2. CASE i = Len(log) + 1
    BY <2>2, <1>2
  <2>3. i \in 1..Len(log) \/ i = Len(log) + 1
    BY <1>1, <1>2
  <2> QED
    BY <2>1, <2>2, <2>3
<1>9. ASSUME NEW i \in 1..Len(log')
      PROVE  log'[i].start = IF i = 1 THEN 0 ELSE log'[i - 1].start + log'[i - 1].got
  <2>1. CASE i \in 1..Len(log)
    <3>1. log[i].start = IF i = 1 THEN 0 ELSE log[i - 1].start + log[i - 1].got
      BY <2>1 DEF DatagramInv, Logged, ReadInPlace
    <3>2. i # 1 => i - 1 \in 1..Len(log)
      BY <1>1, <2>1
    <3> QED
      BY <2>1, <3>1, <3>2, <1>2
  <2>2. CASE i = Len(log) + 1
    <3>1. e.start = IF Len(log) + 1 = 1 THEN 0 ELSE log[Len(log)].start + log[Len(log)].got
      BY <1>1 DEF DatagramInv, Logged, LogEnd
    <3>2. i - 1 = Len(log) /\ (i # 1 => Len(log) \in 1..Len(log))
      BY <1>1, <2>2
    <3> QED
      BY <2>2, <3>1, <3>2, <1>2
  <2> QED
    BY <1>1, <1>2, <2>1, <2>2
<1>10. ReadInPlace'
  BY <1>8, <1>9 DEF ReadInPlace
<1> QED
  BY <1>2, <1>4, <1>6, <1>10 DEF Logged

(* What is left of the queue when its first completion is handled.         *)
LEMMA QueueMoves ==
  ASSUME DatagramInv, completions # <<>>, completions' = Tail(completions)
  PROVE  /\ completions \in Seq(DatagramOp) /\ Len(completions) \in Nat /\ Len(completions) > 0
         /\ Head(completions) = completions[1] /\ Head(completions) \in DatagramOp
         /\ completions' \in Seq(DatagramOp) /\ Len(completions') = Len(completions) - 1
         /\ \A i \in 1..Len(completions') : i + 1 \in 1..Len(completions) /\ completions'[i] = completions[i + 1]
         /\ Head(completions).dir # "connect" =>
              /\ \A i \in 1..Len(completions') : completions'[i].dir # Head(completions).dir
              /\ \A i \in 1..Len(blocked) : blocked[i].dir # Head(completions).dir
<1>1. /\ completions \in Seq(DatagramOp) /\ Len(completions) \in Nat /\ Len(completions) > 0
      /\ Head(completions) = completions[1] /\ Head(completions) \in DatagramOp
  BY DEF DatagramInv, Typed
<1>2. /\ completions' \in Seq(DatagramOp) /\ Len(completions') = Len(completions) - 1
      /\ \A i \in 1..Len(completions') : i + 1 \in 1..Len(completions) /\ completions'[i] = completions[i + 1]
  BY <1>1
<1>3. ASSUME Head(completions).dir # "connect", NEW i \in 1..Len(completions')
      PROVE  completions'[i].dir # Head(completions).dir
  <2>1. i + 1 \in 1..Len(completions) /\ 1 \in 1..Len(completions) /\ i + 1 # 1
    BY <1>1, <1>2
  <2> QED
    BY <1>1, <1>2, <1>3, <2>1 DEF DatagramInv, InProgressOK, Alone
<1>4. \A i \in 1..Len(blocked) : blocked[i].dir # Head(completions).dir
  <2>1. 1 \in 1..Len(completions)
    BY <1>1
  <2> QED
    BY <1>1, <2>1 DEF DatagramInv, InProgressOK, Alone
<1> QED
  BY <1>1, <1>2, <1>3, <1>4

(* The completion handler.                                                 *)
LEMMA HandlerKeeps ==
  ASSUME DatagramInv, Total \in Nat, CompletionHandler
  PROVE  DatagramInv'
<1>1. PICK o : o = Head(completions)
  OBVIOUS
<1>2. /\ completions # <<>> /\ completions' = Tail(completions)
      /\ position' = IF o.dir = "connect" THEN position ELSE [position EXCEPT ![o.dir] = @ + Advance(o)]
      /\ log' = IF o.id = 0 THEN log
                ELSE Append(log, [datagram |-> o.id, start |-> position["read"], got |-> o.got,
                                  sender |-> IF o.address THEN o.sender ELSE NoAddress,
                                  reported |-> peerEndpoint(o)])
      /\ UNCHANGED <<impl, peer, inbox, arrived, sent, blocked, memory, pe>>
  BY <1>1 DEF CompletionHandler, socket, kernel
<1>3. /\ completions \in Seq(DatagramOp) /\ Len(completions) \in Nat /\ Len(completions) > 0
      /\ o = completions[1] /\ o \in DatagramOp
      /\ completions' \in Seq(DatagramOp) /\ Len(completions') = Len(completions) - 1
      /\ \A i \in 1..Len(completions') : i + 1 \in 1..Len(completions) /\ completions'[i] = completions[i + 1]
      /\ o.dir # "connect" => /\ \A i \in 1..Len(completions') : completions'[i].dir # o.dir
                              /\ \A i \in 1..Len(blocked) : blocked[i].dir # o.dir
  BY <1>1, <1>2, QueueMoves
<1>4. 1 \in 1..Len(completions) /\ CompletedOK(o)
  BY <1>3 DEF DatagramInv, InProgressOK
<1>5. o.got \in Nat /\ o.id \in Nat /\ o.dir \in {"read", "write", "connect"} /\ o.sender \in Addresses
  BY <1>3 DEF DatagramOp
<1>6. Advance(o) = o.got
  BY <1>4 DEF CompletedOK, Advance
<1>7. /\ position \in [Direction -> Nat] /\ position' \in [Direction -> Nat]
      /\ \A d \in Direction : position'[d] = position[d] + (IF d = o.dir THEN o.got ELSE 0)
  <2>1. position \in [Direction -> Nat]
    BY DEF DatagramInv, Typed
  <2>2. CASE o.dir = "connect"
    BY <1>2, <2>1, <2>2 DEF Direction
  <2>3. CASE o.dir \in Direction
    <3>1. position' = [position EXCEPT ![o.dir] = @ + o.got]
      BY <1>2, <1>6, <2>3 DEF Direction
    <3> QED
      BY <2>1, <2>3, <3>1, <1>5
  <2> QED
    BY <1>5, <2>2, <2>3 DEF Direction
<1>8. /\ position["read"] \in Nat /\ position["write"] \in Nat
      /\ o.dir # "read" => position'["read"] = position["read"]
      /\ o.dir = "read" => position'["read"] = position["read"] + o.got
      /\ o.dir # "write" => position'["write"] = position["write"]
      /\ o.dir = "write" => position'["write"] = position["write"] + o.got
  BY <1>5, <1>7 DEF Direction
<1>9. log' \in Seq(Entry) /\ Logged'
  <2>1. CASE o.id = 0
    <3>1. log' = log /\ position'["read"] = position["read"] /\ log \in Seq(Entry)
      BY <2>1, <1>2, <1>4, <1>8 DEF CompletedOK, DatagramInv, Typed
    <3>2. LogEnd' = LogEnd
      BY <3>1 DEF LogEnd
    <3>3. ReadInPlace'
      <4>1. log' = log /\ memory' = memory /\ ReadInPlace
        BY <3>1, <1>2 DEF DatagramInv, Logged
      <4> QED
        BY ONLY <4>1 DEF ReadInPlace
    <3> QED
      BY <3>1, <3>2, <3>3, <1>2 DEF DatagramInv, Logged
  <2>2. CASE o.id # 0
    <3>1. PICK e : e = [datagram |-> o.id, start |-> position["read"], got |-> o.got,
                        sender |-> IF o.address THEN o.sender ELSE NoAddress,
                        reported |-> peerEndpoint(o)]
      OBVIOUS
    <3>2. PICK snd : snd = IF o.address THEN o.sender ELSE NoAddress
      OBVIOUS
    <3>3. PICK rep : rep = peerEndpoint(o)
      OBVIOUS
    <3>4. snd \in Addresses /\ rep \in Addresses
      BY <3>2, <3>3, <1>5 DEF peerEndpoint, Addresses, DatagramInv, Typed
    <3>5. e = [datagram |-> o.id, start |-> position["read"], got |-> o.got,
               sender |-> snd, reported |-> rep]
      BY <3>1, <3>2, <3>3
    <3>6. e \in Entry /\ e.start = position["read"] /\ e.got = o.got /\ e.datagram = o.id
          /\ e.sender = snd /\ e.reported = rep
      BY <3>4, <3>5, <1>5, <1>8 DEF Entry
    <3>8. /\ o.dir = "read" /\ o.at = position["read"] /\ o.at + o.got <= Total
          /\ \A k \in 1..o.got : memory[o.at + k] = <<o.id, k>>
      BY <2>2, <1>4 DEF CompletedOK
    <3>9. /\ log' = Append(log, e) /\ impl' = impl
          /\ position'["read"] = position["read"] + e.got /\ position'["read"] <= Total
          /\ \A x \in 1..position["read"] : memory'[x] = memory[x]
          /\ \A k \in 1..e.got : memory'[e.start + k] = <<e.datagram, k>>
      BY <2>2, <1>2, <1>8, <3>1, <3>6, <3>8
    <3> QED
      BY <3>6, <3>9, LogGrows
  <2> QED
    BY <2>1, <2>2
<1>10. Typed'
  BY <1>2, <1>3, <1>7, <1>9 DEF DatagramInv, Typed
<1>11. Alone'
  <2>1. Alone
    BY DEF DatagramInv, InProgressOK
  <2>2. \A i, j \in 1..Len(completions') :
          completions'[i].dir = completions'[j].dir /\ completions'[i].dir # "connect" => i = j
    BY <2>1, <1>2, <1>3 DEF Alone
  <2>3. \A i \in 1..Len(blocked'), j \in 1..Len(completions') :
          blocked'[i].dir # completions'[j].dir
    BY <2>1, <1>2, <1>3 DEF Alone
  <2>4. \A i, j \in 1..Len(blocked') : blocked'[i].dir = blocked'[j].dir => i = j
    BY <2>1, <1>2 DEF Alone
  <2> QED
    BY <2>2, <2>3, <2>4 DEF Alone
<1>12. ASSUME NEW i \in 1..Len(blocked')
       PROVE  BlockedOK(blocked[i])'
  <2>1. BlockedOK(blocked[i]) /\ blocked[i] \in DatagramOp
    BY <1>2 DEF DatagramInv, InProgressOK, Typed
  <2>2. blocked[i].dir \in Direction /\ blocked[i].dir # o.dir
    <3>1. blocked[i].dir # o.dir
      BY <2>1, <1>2, <1>3 DEF BlockedOK
    <3> QED
      BY <3>1, <2>1 DEF DatagramOp, BlockedOK, Direction
  <2>3. position'[blocked[i].dir] = position[blocked[i].dir]
    BY <2>2, <1>7
  <2> QED
    BY <2>1, <2>3, <1>2 DEF BlockedOK
<1>13. ASSUME NEW i \in 1..Len(completions')
       PROVE  CompletedOK(completions[i])'
  <2>1. CompletedOK(completions'[i])
    BY <1>3 DEF DatagramInv, InProgressOK
  <2>2. completions'[i].dir = "read" => position'["read"] = position["read"]
    BY <1>3, <1>8
  <2> QED
    BY <2>1, <2>2, <1>2 DEF CompletedOK
<1>14. Transferred'
  <2>1. SentEnd' = SentEnd
    BY <1>2 DEF SentEnd
  <2>2. CASE o.dir = "write"
    <3>1. SentEnd = position["write"] + o.got
      BY <2>2, <1>3, <1>4 DEF DatagramInv, Transferred
    <3> QED
      BY <2>1, <2>2, <3>1, <1>2, <1>3, <1>8 DEF DatagramInv, Transferred
  <2>3. CASE o.dir # "write"
    <3>1. (\A i \in 1..Len(completions') : completions'[i].dir # "write")
            => \A i \in 1..Len(completions) : completions[i].dir # "write"
      <4> SUFFICES ASSUME \A i \in 1..Len(completions') : completions'[i].dir # "write",
                          NEW i \in 1..Len(completions)
                   PROVE  completions[i].dir # "write"
        OBVIOUS
      <4>1. CASE i = 1
        BY <4>1, <1>3, <2>3
      <4>2. CASE i # 1
        <5>1. i - 1 \in 1..Len(completions') /\ (i - 1) + 1 = i
          BY <4>2, <1>3
        <5> QED
          BY <5>1, <1>3
      <4> QED
        BY <4>1, <4>2
    <3> QED
      BY <2>1, <2>3, <3>1, <1>2, <1>3, <1>8 DEF DatagramInv, Transferred
  <2> QED
    BY <2>2, <2>3
<1> QED
  BY <1>10, <1>9, <1>11, <1>12, <1>13, <1>14 DEF DatagramInv, InProgressOK
(* The synchronous read.                                                   *)
LEMMA ReadKeeps ==
  ASSUME DatagramInv, Total \in Nat, NEW n \in Nat, read(n)
  PROVE  DatagramInv'
<1>1. UNCHANGED <<impl, peer, arrived, sent, blocked, completions, pe>> /\ position["read"] + n <= Total
  BY DEF read, socket
<1>2. /\ \A i \in 1..Len(blocked) : blocked[i].dir # "read"
      /\ \A i \in 1..Len(completions) : completions[i].dir # "read"
  BY NoneWhenIdle DEF read, DatagramInv, Typed
<1>3. CASE UNCHANGED <<inbox, client>>
  <2>1. /\ inbox' \in Seq(Datagram) /\ peer' \in Addresses /\ arrived' \in Nat
        /\ UNCHANGED <<impl, sent, blocked, completions, client, pe>>
    BY <1>1, <1>3 DEF DatagramInv, Typed
  <2> QED
    BY <2>1, LeavesTransfers
<1>4. ASSUME NEW r, r = Received(asio_buffer("read", FALSE, n)),
             inbox # <<>>, inbox' = Tail(inbox), memory' = Stored(r),
             position' = [position EXCEPT !["read"] = @ + Advance(r)],
             log' = Append(log, [datagram |-> r.id, start |-> position["read"],
                                 got |-> r.got, sender |-> NoAddress, reported |-> NoAddress])
      PROVE  DatagramInv'
  <2>1. PICK o : o = asio_buffer("read", FALSE, n)
    OBVIOUS
  <2>2. o \in DatagramOp /\ o.dir = "read" /\ BlockedOK(o)
    BY <2>1, <1>1, Asked DEF Direction
  <2>3. /\ r \in DatagramOp /\ r.id # 0 /\ r.at = o.at /\ r.got <= o.n /\ ~r.error
        /\ inbox' \in Seq(Datagram)
    BY <2>1, <2>2, <1>4, ReceivedFits
  <2>4. /\ r.got \in Nat /\ r.id \in Nat /\ r.at = position["read"] /\ o.n \in Nat
        /\ position \in [Direction -> Nat] /\ r.at + r.got <= Total /\ "read" \in Direction
    BY <2>2, <2>3 DEF DatagramOp, BlockedOK, DatagramInv, Typed, Direction
  <2>5. Advance(r) = r.got
    BY <2>3 DEF Advance
  <2>6. /\ position' \in [Direction -> Nat]
        /\ position'["read"] = position["read"] + r.got
        /\ \A d \in Direction : d # "read" => position'[d] = position[d]
    <3>1. position' = [position EXCEPT !["read"] = @ + r.got]
      BY <2>5, <1>4
    <3> QED
      BY <3>1, <2>4
  <2>7. PICK e : e = [datagram |-> r.id, start |-> position["read"],
                      got |-> r.got, sender |-> NoAddress, reported |-> NoAddress]
    OBVIOUS
  <2>8. /\ e \in Entry /\ e.start = position["read"] /\ e.got = r.got /\ e.datagram = r.id
    BY <2>4, <2>7 DEF Entry, Addresses
  <2>9. /\ \A k \in 1..r.got : Stored(r)[r.at + k] = <<r.id, k>>
        /\ \A x \in 1..r.at : Stored(r)[x] = memory[x]
    BY <2>3, <2>4, StoredBehind
  <2>10. /\ log' = Append(log, e) /\ impl' = impl
         /\ position'["read"] = position["read"] + e.got /\ position'["read"] <= Total
         /\ \A x \in 1..position["read"] : memory'[x] = memory[x]
         /\ \A k \in 1..e.got : memory'[e.start + k] = <<e.datagram, k>>
    BY <1>1, <1>4, <2>4, <2>6, <2>7, <2>8, <2>9
  <2>11. log' \in Seq(Entry) /\ Logged'
    BY <2>8, <2>10, LogGrows
  <2>12. Typed'
    BY <1>1, <2>3, <2>6, <2>11 DEF DatagramInv, Typed
  <2>13. Alone'
    BY <1>1 DEF DatagramInv, InProgressOK, Alone
  <2>14. ASSUME NEW i \in 1..Len(blocked')
         PROVE  BlockedOK(blocked[i])'
    <3>1. BlockedOK(blocked[i]) /\ blocked[i] \in DatagramOp /\ blocked[i].dir # "read"
      BY <1>1, <1>2 DEF DatagramInv, InProgressOK, Typed
    <3>2. blocked[i].dir \in Direction
      BY <3>1 DEF DatagramOp, BlockedOK, Direction
    <3> QED
      BY <3>1, <3>2, <2>6, <1>1 DEF BlockedOK
  <2>15. ASSUME NEW i \in 1..Len(completions')
         PROVE  CompletedOK(completions[i])'
    <3>1. CompletedOK(completions[i]) /\ completions[i].dir # "read"
      BY <1>1, <1>2 DEF DatagramInv, InProgressOK
    <3> QED
      BY <3>1, <1>1 DEF CompletedOK
  <2>16. Transferred'
    <3>1. SentEnd' = SentEnd /\ position'["write"] = position["write"]
      BY <1>1, <2>6 DEF SentEnd, Direction
    <3> QED
      BY <3>1, <1>1 DEF DatagramInv, Transferred
  <2> QED
    BY <2>11, <2>12, <2>13, <2>14, <2>15, <2>16 DEF DatagramInv, InProgressOK
<1> QED
  BY <1>3, <1>4 DEF read

(* The synchronous write.                                                  *)
LEMMA WriteKeeps ==
  ASSUME DatagramInv, NEW n \in Nat, write(n)
  PROVE  DatagramInv'
<1>1. /\ UNCHANGED <<impl, peer, inbox, arrived, blocked, completions, memory, log, pe>>
      /\ sent' = Append(sent, [at |-> position["write"], n |-> n])
      /\ position' = [position EXCEPT !["write"] = @ + n]
  BY DEF write, socket
<1>2. /\ \A i \in 1..Len(blocked) : blocked[i].dir # "write"
      /\ \A i \in 1..Len(completions) : completions[i].dir # "write"
  BY NoneWhenIdle DEF write, DatagramInv, Typed
<1>3. /\ position["write"] \in Nat /\ position' \in [Direction -> Nat]
      /\ position'["write"] = position["write"] + n
      /\ position'["read"] = position["read"]
      /\ \A d \in Direction : d # "write" => position'[d] = position[d]
  BY <1>1 DEF DatagramInv, Typed, Direction
<1>4. PICK m : m = [at |-> position["write"], n |-> n]
  OBVIOUS
<1>5. m \in [at : Nat, n : Nat] /\ m.at = position["write"] /\ m.n = n
  BY <1>3, <1>4
<1>6. sent \in Seq([at : Nat, n : Nat]) /\ sent' = Append(sent, m)
  BY <1>1, <1>4 DEF DatagramInv, Typed
<1>7. /\ sent' \in Seq([at : Nat, n : Nat])
      /\ Len(sent) \in Nat /\ Len(sent') = Len(sent) + 1 /\ sent'[Len(sent) + 1] = m
      /\ \A i \in 1..Len(sent) : sent'[i] = sent[i]
      /\ sent' # <<>>
  BY <1>5, <1>6
<1>8. Typed'
  BY <1>1, <1>3, <1>7 DEF DatagramInv, Typed
<1>9. Alone'
  BY <1>1 DEF DatagramInv, InProgressOK, Alone
<1>10. ASSUME NEW i \in 1..Len(blocked')
       PROVE  BlockedOK(blocked[i])'
  <2>1. BlockedOK(blocked[i]) /\ blocked[i] \in DatagramOp /\ blocked[i].dir # "write"
    BY <1>1, <1>2 DEF DatagramInv, InProgressOK, Typed
  <2>2. blocked[i].dir \in Direction
    BY <2>1 DEF DatagramOp, BlockedOK, Direction
  <2> QED
    BY <2>1, <2>2, <1>1, <1>3 DEF BlockedOK
<1>11. ASSUME NEW i \in 1..Len(completions')
       PROVE  CompletedOK(completions[i])'
  BY <1>1, <1>3 DEF DatagramInv, InProgressOK, CompletedOK
<1>12. Logged'
  BY <1>1, <1>3 DEF DatagramInv, Logged, ReadInPlace, LogEnd
<1>13. SentEnd = position["write"]
  BY <1>2 DEF DatagramInv, Transferred
<1>14. SentEnd' = position'["write"]
  BY <1>3, <1>5, <1>7 DEF SentEnd
<1>15. ASSUME NEW i \in 1..Len(sent')
       PROVE  sent'[i].at = IF i = 1 THEN 0 ELSE sent'[i - 1].at + sent'[i - 1].n
  <2>1. CASE i \in 1..Len(sent)
    <3>1. sent[i].at = IF i = 1 THEN 0 ELSE sent[i - 1].at + sent[i - 1].n
      BY <2>1 DEF DatagramInv, Transferred
    <3>2. i # 1 => i - 1 \in 1..Len(sent)
      BY <1>7, <2>1
    <3> QED
      BY <2>1, <3>1, <3>2, <1>7
  <2>2. CASE i = Len(sent) + 1
    <3>1. m.at = IF Len(sent) + 1 = 1 THEN 0 ELSE sent[Len(sent)].at + sent[Len(sent)].n
      BY <1>5, <1>7, <1>13, <1>6 DEF SentEnd
    <3>2. i - 1 = Len(sent) /\ (i # 1 => Len(sent) \in 1..Len(sent))
      BY <1>7, <2>2
    <3> QED
      BY <2>2, <3>1, <3>2, <1>7
  <2> QED
    BY <1>7, <2>1, <2>2
<1>16. Transferred'
  BY <1>1, <1>2, <1>14, <1>15 DEF Transferred
<1> QED
  BY <1>8, <1>9, <1>10, <1>11, <1>12, <1>16 DEF DatagramInv, InProgressOK
-----------------------------------------------------------------------------
(* UdpImpl::asyncWriteTo on a closed socket.                               *)
LEMMA WriteToKeeps ==
  ASSUME DatagramInv, Total \in Nat, MaxPending \in {0, 1}, NEW n \in Nat, asyncWriteTo(n)
  PROVE  DatagramInv'
<1>1. PICK o : o = asio_buffer("write", TRUE, n)
  OBVIOUS
<1>2. CASE Start(o)
  <2>1. position["write"] + n <= Total
    BY <1>1, <1>2 DEF Start, asio_buffer
  <2>2. o \in DatagramOp /\ BlockedOK(o)
    BY <1>1, <2>1, Asked DEF Direction
  <2> QED
    BY <1>2, <2>2, StartKeeps
<1>3. CASE /\ InProgress("write") < MaxPending
           /\ completions' = IF open' THEN completions ELSE Append(completions, [o EXCEPT !.error = TRUE])
           /\ UNCHANGED <<impl, peer, kernel, blocked, client, pe>>
  <2>1. /\ \A i \in 1..Len(blocked) : blocked[i].dir # "write"
        /\ \A i \in 1..Len(completions) : completions[i].dir # "write"
    BY <1>3, NoneInProgress DEF DatagramInv, Typed
  <2>2. CASE completions' = completions
    <3>1. /\ inbox' \in Seq(Datagram) /\ peer' \in Addresses /\ arrived' \in Nat
          /\ UNCHANGED <<impl, sent, blocked, completions, client, pe>>
      BY <1>3, <2>2 DEF DatagramInv, Typed, kernel
    <3> QED
      BY <3>1, LeavesTransfers
  <2>3. CASE completions' = Append(completions, [o EXCEPT !.error = TRUE])
    <3>1. PICK r : r = [o EXCEPT !.error = TRUE]
      OBVIOUS
    <3>2. position["write"] \in Nat /\ NoAddress \in Addresses
      BY DEF DatagramInv, Typed, Direction, Addresses
    <3>3. r \in DatagramOp /\ r.got = 0 /\ r.id = 0 /\ r.dir = "write"
      BY <1>1, <3>1, <3>2 DEF asio_buffer, DatagramOp
    <3>4. /\ completions' = Append(completions, r) /\ peer' \in Addresses
          /\ UNCHANGED <<impl, kernel, blocked, client, pe>>
      BY <1>3, <2>3, <3>1 DEF DatagramInv, Typed
    <3> QED
      BY <2>1, <3>3, <3>4, FailsAtOnce
  <2> QED
    BY <1>3, <2>2, <2>3
<1> QED
  BY <1>1, <1>2, <1>3 DEF asyncWriteTo

(* The initial states.                                                     *)
LEMMA DatagramInitially ==
  ASSUME DatagramsInit, Total \in Nat
  PROVE  DatagramInv
<1>1. /\ peer \in Addresses /\ pe \in Addresses
      /\ position \in [Direction -> Nat] /\ position["read"] = 0 /\ position["write"] = 0
  BY DEF DatagramsInit, Addresses, Direction
<1>2. Typed
  BY <1>1 DEF DatagramsInit, Typed
<1>3. InProgressOK
  BY DEF DatagramsInit, InProgressOK, Alone
<1>4. Logged
  BY <1>1 DEF DatagramsInit, Logged, ReadInPlace, LogEnd
<1>5. Transferred
  BY <1>1 DEF DatagramsInit, Transferred, SentEnd
<1> QED
  BY <1>2, <1>3, <1>4, <1>5 DEF DatagramInv

(* Every call of the transfers.                                            *)
LEMMA TransfersKeep ==
  ASSUME DatagramInv, Total \in Nat, MaxPending \in {0, 1}, Transfers
  PROVE  DatagramInv'
<1>1. PICK n \in 1..Total : \/ asyncRead(n) \/ asyncReadFrom(n) \/ read(n)
                            \/ asyncWrite(n) \/ asyncWriteTo(n) \/ write(n)
  BY DEF Transfers
<1>2. n \in Nat
  BY <1>1
<1>3. ASSUME NEW dir \in Direction, NEW address \in BOOLEAN, Start(asio_buffer(dir, address, n))
      PROVE  DatagramInv'
  <2>1. PICK o : o = asio_buffer(dir, address, n)
    OBVIOUS
  <2>2. position[dir] + n <= Total
    BY <1>3 DEF Start, asio_buffer
  <2>3. o \in DatagramOp /\ BlockedOK(o) /\ Start(o)
    BY <1>2, <1>3, <2>1, <2>2, Asked
  <2> QED
    BY <2>3, StartKeeps
<1>4. CASE asyncRead(n)
  BY <1>3, <1>4 DEF asyncRead, Direction
<1>5. CASE asyncReadFrom(n)
  BY <1>3, <1>5 DEF asyncReadFrom, Direction
<1>6. CASE read(n)
  BY <1>2, <1>6, ReadKeeps
<1>7. CASE asyncWrite(n)
  BY <1>3, <1>7 DEF asyncWrite, Direction
<1>8. CASE asyncWriteTo(n)
  BY <1>2, <1>8, WriteToKeeps
<1>9. CASE write(n)
  BY <1>2, <1>9, WriteKeeps
<1> QED
  BY <1>1, <1>4, <1>5, <1>6, <1>7, <1>8, <1>9

(* Every other call.                                                       *)
LEMMA ControlKeeps ==
  ASSUME DatagramInv, Total \in Nat, Control
  PROVE  DatagramInv'
<1>1. inbox \in Seq(Datagram) /\ peer \in Addresses /\ arrived \in Nat
  BY DEF DatagramInv, Typed
<1>2. ASSUME NEW to \in Address, Connected(to)
      PROVE  peer' \in Addresses /\ impl' = impl
  BY <1>1, <1>2 DEF Connected, Addresses
<1>3. ASSUME NEW to \in Address, connect(to)
      PROVE  DatagramInv'
  <2>1. /\ peer' \in Addresses /\ inbox' \in Seq(Datagram) /\ arrived' \in Nat
        /\ UNCHANGED <<impl, sent, blocked, completions, client, pe>>
    BY <1>1, <1>2, <1>3 DEF connect, kernel
  <2> QED
    BY <2>1, LeavesTransfers
<1>4. ASSUME NEW to \in Address, asyncConnect(to)
      PROVE  DatagramInv'
  <2>1. PICK err \in BOOLEAN : err = (peer' # to)
    OBVIOUS
  <2>2. PICK r : r = [asio_buffer("read", FALSE, 0) EXCEPT !.dir = "connect", !.at = 0, !.error = err]
    OBVIOUS
  <2>3. NoAddress \in Addresses
    BY DEF Addresses
  <2>4. r \in DatagramOp /\ r.got = 0 /\ r.id = 0 /\ r.dir = "connect"
    BY <2>2, <2>3 DEF asio_buffer, DatagramOp
  <2>5. completions' = Append(completions, r)
    BY <1>4, <2>1, <2>2 DEF asyncConnect
  <2>6. peer' \in Addresses /\ UNCHANGED <<impl, kernel, blocked, client, pe>>
    BY <1>2, <1>4 DEF asyncConnect
  <2> QED
    BY <2>4, <2>5, <2>6, FailsAtOnce
<1>5. CASE Open
  <2>1. /\ peer' \in Addresses /\ inbox' \in Seq(Datagram) /\ arrived' \in Nat
        /\ UNCHANGED <<impl, sent, blocked, completions, client, pe>>
    BY <1>1, <1>5 DEF Open, kernel
  <2> QED
    BY <2>1, LeavesTransfers
<1>6. CASE shutdown
  <2>1. /\ peer' \in Addresses /\ inbox' \in Seq(Datagram) /\ arrived' \in Nat
        /\ UNCHANGED <<impl, sent, blocked, completions, client, pe>>
    BY <1>1, <1>6 DEF shutdown, kernel
  <2> QED
    BY <2>1, LeavesTransfers
<1>7. CASE cancelSocket
  <2>1. /\ completions' = completions \o Aborted /\ blocked' = <<>>
        /\ inbox' \in Seq(Datagram) /\ peer' \in Addresses
        /\ UNCHANGED <<impl, arrived, sent, client, pe>>
    BY <1>1, <1>7 DEF cancelSocket, kernel, socket
  <2> QED
    BY <2>1, AbortKeeps
<1>8. CASE close
  <2>1. /\ completions' = completions \o Aborted /\ blocked' = <<>>
        /\ inbox' \in Seq(Datagram) /\ peer' \in Addresses
        /\ UNCHANGED <<impl, arrived, sent, client, pe>>
    BY <1>8 DEF close, Addresses
  <2> QED
    BY <2>1, AbortKeeps
<1> QED
  BY <1>3, <1>4, <1>5, <1>6, <1>7, <1>8 DEF Control

(* Every step.                                                             *)
LEMMA DatagramNext ==
  ASSUME MaxPending <= 1, DatagramInv, [DatagramsNext]_(datagramVars)
  PROVE  DatagramInv'
<1>1. Total \in Nat /\ MaxPending \in {0, 1} /\ Lengths \subseteq Nat
  BY DatagramAssumption
<1>2. CASE UNCHANGED datagramVars
  <2>1. /\ UNCHANGED <<impl, sent, blocked, completions, client, pe>>
        /\ inbox' \in Seq(Datagram) /\ peer' \in Addresses /\ arrived' \in Nat
    BY <1>2 DEF datagramVars, socket, kernel, DatagramInv, Typed
  <2> QED
    BY <2>1, LeavesTransfers
<1>3. ASSUME NEW from \in Address, NEW len \in Lengths, Arrive(from, len)
      PROVE  DatagramInv'
  <2>1. inbox \in Seq(Datagram) /\ peer \in Addresses /\ arrived \in Nat
    BY DEF DatagramInv, Typed
  <2>2. PICK d : d = [id |-> arrived + 1, from |-> from, len |-> len]
    OBVIOUS
  <2>3. d \in Datagram
    BY <1>1, <2>1, <2>2 DEF Datagram
  <2>4. inbox' = Append(inbox, d) /\ arrived' = arrived + 1 /\ peer' = peer
        /\ UNCHANGED <<impl, sent, blocked, completions, client, pe>>
    BY <1>3, <2>2 DEF Arrive, socket
  <2>5. inbox' \in Seq(Datagram) /\ arrived' \in Nat /\ peer' \in Addresses
    BY <2>1, <2>3, <2>4
  <2> QED
    BY <2>4, <2>5, LeavesTransfers
<1>4. CASE Transfers
  BY <1>1, <1>4, TransfersKeep
<1>5. CASE Control
  BY <1>1, <1>5, ControlKeeps
<1>6. CASE ReactorStep
  BY <1>1, <1>6, ReactorKeeps
<1>7. CASE CompletionHandler
  BY <1>1, <1>7, HandlerKeeps
<1> QED
  BY <1>2, <1>3, <1>4, <1>5, <1>6, <1>7 DEF DatagramsNext

(* The invariant gives the property of the writes: the end of what was     *)
(* sent is the position when nothing is in progress.                       *)
LEMMA InOrder ==
  ASSUME DatagramInv
  PROVE  SentInOrder
<1> DEFINE EndOf(i) == IF i = 0 THEN 0 ELSE sent[i].at + sent[i].n
<1>1. sent \in Seq([at : Nat, n : Nat]) /\ Len(sent) \in Nat
  BY DEF DatagramInv, Typed
<1>2. EndOf(Len(sent)) = SentEnd
  BY <1>1 DEF SentEnd
<1>3. ASSUME Idle("write")
      PROVE  position["write"] = EndOf(Len(sent))
  <2>1. \A i \in 1..Len(completions) : completions[i].dir # "write"
    BY <1>3, NoneWhenIdle DEF DatagramInv, Typed
  <2> QED
    BY <2>1, <1>2 DEF DatagramInv, Transferred
<1>4. \A i \in 1..Len(sent) : sent[i].at = EndOf(i - 1)
  <2> SUFFICES ASSUME NEW i \in 1..Len(sent)
               PROVE  sent[i].at = EndOf(i - 1)
    OBVIOUS
  <2>1. sent[i].at = IF i = 1 THEN 0 ELSE sent[i - 1].at + sent[i - 1].n
    BY DEF DatagramInv, Transferred
  <2> QED
    BY <2>1, <1>1
<1> QED
  BY <1>3, <1>4 DEF SentInOrder

(* The invariant holds throughout.                                         *)
LEMMA DatagramAlways ==
  ASSUME MaxPending <= 1
  PROVE  DatagramsSpec => []DatagramInv
<1>1. DatagramsInit => DatagramInv
  BY DatagramInitially, DatagramAssumption
<1>2. DatagramInv /\ [DatagramsNext]_(datagramVars) => DatagramInv'
  BY DatagramNext
<1> QED
  BY <1>1, <1>2, PTL DEF DatagramsSpec

(* What the reader of a UdpSocket or a DatagramDomainSocket was given is   *)
(* in its buffer, datagram after datagram, each from its start, whatever   *)
(* failed, was cancelled, closed or came later: for buffers of every size, *)
(* any number of datagrams of any length and any number of peers, when a   *)
(* client has at most one read and one write in progress                   *)
(* (udpsocket.cpp:40-105, datagramdomainsocket.cpp:71-108).                *)
THEOREM DatagramsReadInPlace ==
  ASSUME MaxPending <= 1
  PROVE  DatagramsSpec => []ReadInPlace
<1>1. DatagramInv => ReadInPlace
  BY DEF DatagramInv, Logged
<1> QED
  BY <1>1, DatagramAlways, PTL

(* What it sends are consecutive parts of the source buffer, none twice    *)
(* and none left out, and the writer's position is at their end when no    *)
(* write is in progress (udpsocket.cpp:107-172,                            *)
(* datagramdomainsocket.cpp:110-183), under the same condition.            *)
THEOREM DatagramsSentInOrder ==
  ASSUME MaxPending <= 1
  PROVE  DatagramsSpec => []SentInOrder
<1>1. DatagramInv => SentInOrder
  BY InOrder
<1> QED
  BY <1>1, DatagramAlways, PTL
=============================================================================
