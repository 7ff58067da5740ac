------------------------ MODULE PollSelector_proofs ------------------------
(***************************************************************************)
(* Proofs about PollSelector, for every set of descriptors, every number   *)
(* of registrations and every client.                                      *)
(***************************************************************************)
EXTENDS PollSelector, Vector_proofs

(* findFirstReady (selector_poll.cpp:160) returns its end when nothing is  *)
(* ready, and otherwise the least ready position.                          *)
LEMMA FindFirstReadyFacts ==
  ASSUME NEW fds, NEW offset \in Nat, NEW count \in Nat, offset <= count
  PROVE  /\ findFirstReady(fds, offset, count) \in Nat
         /\ findFirstReady(fds, offset, count) \in offset..count
         /\ findFirstReady(fds, offset, count) < count =>
              fds[findFirstReady(fds, offset, count) + 1].revents # {}
         /\ \A j \in offset..(findFirstReady(fds, offset, count) - 1) :
              fds[j + 1].revents = {}
<1> DEFINE Ready == {i \in offset..(count - 1) : fds[i + 1].revents # {}}
           r == findFirstReady(fds, offset, count)
<1>1. CASE Ready = {}
  <2>1. r = count
    BY <1>1 DEF findFirstReady
  <2>2. \A j \in offset..(count - 1) : fds[j + 1].revents = {}
    BY <1>1
  <2> QED
    BY <2>1, <2>2
<1>2. CASE Ready # {}
  <2>1. \E i \in Ready : \A j \in Ready : i <= j
    <3>1. Ready \in SUBSET Nat
      OBVIOUS
    <3> QED
      BY <3>1, <1>2, LeastElement
  <2>2. r = CHOOSE i \in Ready : \A j \in Ready : i <= j
    BY <1>2 DEF findFirstReady
  <2>3. r \in Ready /\ \A j \in Ready : r <= j
    <3> HIDE DEF Ready, r
    <3> QED BY <2>1, <2>2
  <2>4. r \in offset..(count - 1) /\ fds[r + 1].revents # {}
    BY <2>3
  <2>5. \A j \in offset..(r - 1) : fds[j + 1].revents = {}
    <3> HIDE DEF r
    <3>1. SUFFICES ASSUME NEW j \in offset..(r - 1), fds[j + 1].revents # {}
                   PROVE  FALSE
      OBVIOUS
    <3>2. j \in Ready
      BY <3>1, <2>4
    <3> QED
      BY <3>1, <3>2, <2>3, <2>4
  <2> QED
    <3> HIDE DEF r
    <3>1. r \in Nat /\ r \in offset..count
      BY <2>4
    <3> QED BY <2>4, <2>5, <3>1 DEF r
<1> QED
  BY <1>1, <1>2

-----------------------------------------------------------------------------
Inv == TypeOK /\ Coupled

(* Whatever getEvent returns, past the end of a vector or not, is an Event. *)
LEMMA GetEventType ==
  ASSUME TypeOK, NEW i \in Nat
  PROVE  getEvent(i) \subseteq Event
<1>1. CASE i < Len(pollfds) /\ i < Len(selectables)
  <2>1. i + 1 \in 1..Len(selectables) /\ i + 1 \in 1..Len(pollfds)
    BY <1>1 DEF TypeOK
  <2>2. selectables[i + 1] \in Selectable
    BY <2>1 DEF TypeOK
  <2>3. FromNative(pollfds[i + 1].revents) \in SUBSET Events
    BY DEF FromNative, Events
  <2> QED
    BY <1>1, <2>2, <2>3 DEF getEvent, Selectable, Event
<1>2. CASE ~(i < Len(pollfds) /\ i < Len(selectables))
  BY <1>2 DEF getEvent
<1> QED
  BY <1>1, <1>2

(* poll writes revents and nothing else, so the vectors stay parallel.     *)
LEMMA PolledFacts ==
  ASSUME TypeOK, NEW cond \in [Fd -> Conditions]
  PROVE  /\ Polled(cond) \in Seq(Pollfd)
         /\ Len(Polled(cond)) = Len(pollfds)
         /\ \A i \in 1..Len(pollfds) :
              /\ Polled(cond)[i].fd = pollfds[i].fd
              /\ Polled(cond)[i].events = pollfds[i].events
              /\ Polled(cond)[i].revents = Raised(pollfds[i], cond)
<1>1. Len(pollfds) \in Nat /\ \A i \in 1..Len(pollfds) : pollfds[i] \in Pollfd
  BY DEF TypeOK
<1>2. \A i \in 1..Len(pollfds) : Raised(pollfds[i], cond) \in SUBSET Native
  BY <1>1, PollAssumption DEF Raised, Pollfd, AlwaysReported, Native
<1>3. \A i \in 1..Len(pollfds) :
        [pollfds[i] EXCEPT !.revents = Raised(pollfds[i], cond)] \in Pollfd
  BY <1>1, <1>2 DEF Pollfd
<1> QED
  BY <1>1, <1>3 DEF Polled, Pollfd

(* The coupling invariant holds in a new selector (selector_poll.cpp:50).  *)
LEMMA InitInv == Init => Inv
BY DEF Init, Inv, TypeOK, Coupled, Idle, Phase

(* Every step keeps the coupling invariant: addRaw appends to both         *)
(* vectors, remove erases the same positions from both, poll changes       *)
(* neither length.                                                         *)
LEMMA NextInv == Inv /\ [Next]_vars => Inv'
<1> SUFFICES ASSUME Inv, [Next]_vars PROVE Inv'
  OBVIOUS
<1> USE DEF Inv
<1>0. Len(pollfds) \in Nat /\ Len(selectables) \in Nat
  BY DEF TypeOK
<1>1. ASSUME NEW fd \in Fd, NEW events \in Interests, NEW data \in Data,
             add(fd, events, data)
      PROVE  Inv'
  <2> DEFINE s == [fd |-> fd, data |-> data]
             p == [fd |-> fd, events |-> ToNative(events), revents |-> {}]
  <2>1. s \in Selectable /\ p \in Pollfd
    BY DEF Selectable, Pollfd, ToNative, Native
  <2>2. selectables' = Append(selectables, s) /\ pollfds' = Append(pollfds, p)
    BY <1>1 DEF add, addRaw
  <2>3. s.fd = p.fd
    OBVIOUS
  <2> HIDE DEF s, p
  <2>4. TypeOK'
    BY <1>1, <2>1, <2>2 DEF TypeOK, add
  <2>5. Coupled'
    BY <2>2, <2>3 DEF TypeOK, Coupled
  <2> QED
    BY <2>4, <2>5
<1>2. ASSUME NEW fd \in Fd, remove(fd)
      PROVE  Inv'
  <2>1. selectables' = Erase(selectables, fd) /\ pollfds' = Erase(pollfds, fd)
    BY <1>2 DEF remove
  <2>2. Survivors(selectables, fd) = Survivors(pollfds, fd)
    BY SameSurvivors DEF Coupled
  <2>3. TypeOK'
    BY <1>2, <2>1, EraseFacts DEF remove, TypeOK
  <2>4. Coupled'
    <3> DEFINE S == Survivors(pollfds, fd)
    <3>1. /\ Len(selectables') = Cardinality(S)
          /\ \A k \in 1..Cardinality(S) : selectables'[k] = selectables[Nth(S, k)]
      BY <2>1, <2>2, EraseFacts DEF TypeOK
    <3>2. /\ Len(pollfds') = Cardinality(S)
          /\ \A k \in 1..Cardinality(S) : /\ Nth(S, k) \in S
                                          /\ pollfds'[k] = pollfds[Nth(S, k)]
      BY <2>1, EraseFacts DEF TypeOK
    <3>3. S \subseteq 1..Len(pollfds)
      BY DEF Survivors
    <3> HIDE DEF S
    <3> QED
      BY <3>1, <3>2, <3>3 DEF Coupled
  <2> QED
    BY <2>3, <2>4
<1>3. ASSUME NEW cond \in [Fd -> Conditions], poll(cond)
      PROVE  Inv'
  <2>1. /\ pollfds' \in Seq(Pollfd) /\ Len(pollfds') = Len(pollfds)
        /\ \A i \in 1..Len(pollfds) : pollfds'[i].fd = pollfds[i].fd
    BY <1>3, PolledFacts DEF poll
  <2>2. selectables' = selectables /\ event' = event
    BY <1>3 DEF poll
  <2>3. walk' \in [phase : Phase, index : Nat, size : Nat]
    <3>0. 0 \in Nat /\ 0 <= Len(pollfds)
      BY <1>0
    <3>1. findFirstReady(pollfds', 0, Len(pollfds)) \in Nat
      BY <1>0, <3>0, FindFirstReadyFacts
    <3> QED
      BY <1>0, <1>3, <3>1 DEF poll, Phase
  <2> QED
    BY <2>1, <2>2, <2>3 DEF TypeOK, Coupled
<1>4. CASE pollFailed
  <2> DEFINE q == [i \in 1..Len(pollfds) |-> [pollfds[i] EXCEPT !.revents = {}]]
  <2>0. \A i \in 1..Len(pollfds) : pollfds[i] \in Pollfd
    BY DEF TypeOK
  <2>1. \A i \in 1..Len(pollfds) :
           /\ [pollfds[i] EXCEPT !.revents = {}] \in Pollfd
           /\ [pollfds[i] EXCEPT !.revents = {}].fd = pollfds[i].fd
    BY <2>0 DEF Pollfd
  <2>2. q \in Seq(Pollfd) /\ Len(q) = Len(pollfds)
    BY <1>0, <2>1
  <2>3. \A i \in 1..Len(pollfds) : q[i].fd = pollfds[i].fd
    BY <2>1
  <2>4. pollfds' = q /\ UNCHANGED <<selectables, walk, event>>
    BY <1>4 DEF pollFailed
  <2> HIDE DEF q
  <2> QED
    BY <2>2, <2>3, <2>4 DEF TypeOK, Coupled
<1>5. CASE Dereference
  <2>1. event' \in Event
    BY <1>5, GetEventType DEF Dereference, TypeOK
  <2>2. walk' \in [phase : Phase, index : Nat, size : Nat]
    BY <1>5 DEF Dereference, TypeOK, Phase
  <2>3. UNCHANGED <<selectables, pollfds>>
    BY <1>5 DEF Dereference
  <2> QED
    BY <2>1, <2>2, <2>3 DEF TypeOK, Coupled
<1>6. CASE ReachEnd
  BY <1>6 DEF ReachEnd, TypeOK, Coupled, Idle, Phase
<1>7. CASE Increment
  <2>1. advance(pollfds, walk.index) \in Nat
    <3>1. walk.index \in Nat
      BY DEF TypeOK
    <3>2. CASE walk.index >= Len(pollfds)
      BY <1>0, <3>2 DEF advance
    <3>3. CASE ~(walk.index >= Len(pollfds))
      <4>1. walk.index + 1 \in Nat /\ walk.index + 1 <= Len(pollfds)
        BY <1>0, <3>1, <3>3
      <4>2. findFirstReady(pollfds, walk.index + 1, Len(pollfds)) \in Nat
        BY <1>0, <4>1, FindFirstReadyFacts
      <4> QED BY <3>3, <4>2 DEF advance
    <3> QED BY <3>2, <3>3
  <2>2. walk' \in [phase : Phase, index : Nat, size : Nat]
    BY <1>7, <2>1 DEF Increment, TypeOK, Phase, Idle
  <2> QED
    BY <1>7, <2>2 DEF Increment, TypeOK, Coupled
<1>8. CASE Break
  BY <1>8 DEF Break, TypeOK, Coupled, Idle, Phase
<1>9. CASE UNCHANGED vars
  BY <1>9 DEF vars, TypeOK, Coupled
<1> QED
  BY <1>1, <1>2, <1>3, <1>4, <1>5, <1>6, <1>7, <1>8, <1>9 DEF Next

(* The two vectors of the poll selector are parallel in every reachable    *)
(* state, for any number of registrations, duplicate descriptors, and      *)
(* edits made while a walk is in progress (selector_poll.cpp:97-106).      *)
THEOREM PollCoupled == Spec => []Coupled
<1>1. Inv => Coupled
  BY DEF Inv
<1> QED
  BY InitInv, NextInv, <1>1, PTL DEF Spec

(* Type correctness of the poll selector.                                  *)
THEOREM PollTypeOK == Spec => []TypeOK
<1>1. Inv => TypeOK
  BY DEF Inv
<1> QED
  BY InitInv, NextInv, <1>1, PTL DEF Spec

-----------------------------------------------------------------------------
(* Walks of a client that leaves the selector alone inside the loop.       *)

(* Where an iterator can be: on a ready position below the end, or at the  *)
(* end; the end is the size of the vectors, or 0 after a timeout, when     *)
(* nothing is ready.                                                       *)
Standing ==
  \/ /\ walk.size = 0 /\ walk.index = 0
     /\ \A i \in 1..Len(pollfds) : pollfds[i].revents = {}
  \/ /\ walk.size = Len(pollfds) /\ walk.index <= walk.size
     /\ walk.index < walk.size => pollfds[walk.index + 1].revents # {}

WalkInv ==
  /\ walk.phase \in {"test", "body"} => Standing
  /\ walk.phase = "body" => walk.index < walk.size

(* advance (selector_poll.cpp:146) from a position below the end: the next *)
(* ready position after it, or the end, and nothing ready is skipped.      *)
LEMMA AdvanceFacts ==
  ASSUME NEW fds, Len(fds) \in Nat, NEW i \in Nat, i < Len(fds)
  PROVE  /\ advance(fds, i) \in (i + 1)..Len(fds)
         /\ advance(fds, i) < Len(fds) => fds[advance(fds, i) + 1].revents # {}
         /\ \A j \in (i + 1)..(advance(fds, i) - 1) : fds[j + 1].revents = {}
<1>1. advance(fds, i) = findFirstReady(fds, i + 1, Len(fds))
  BY DEF advance
<1> DEFINE r == findFirstReady(fds, i + 1, Len(fds))
<1>2. i + 1 \in Nat /\ i + 1 <= Len(fds)
  OBVIOUS
<1>3. /\ r \in (i + 1)..Len(fds)
      /\ r < Len(fds) => fds[r + 1].revents # {}
      /\ \A j \in (i + 1)..(r - 1) : fds[j + 1].revents = {}
  BY <1>2, FindFirstReadyFacts
<1> HIDE DEF r
<1>4. advance(fds, i) = r
  BY <1>1 DEF r
<1> QED
  BY <1>3, <1>4

(* What a poll leaves: an iterator at the first ready position, or, after  *)
(* a timeout, one that is at its end with nothing ready.                   *)
LEMMA PollStanding ==
  ASSUME TypeOK, NEW cond \in [Fd -> Conditions], poll(cond)
  PROVE  /\ walk'.phase = "test"
         /\ Standing'
         /\ \A i \in 1..Len(pollfds') : pollfds'[i].revents # {} => i > walk'.index
<1> DEFINE n == Len(pollfds)
           timeout == \A i \in 1..n : pollfds'[i].revents = {}
           first == findFirstReady(pollfds', 0, n)
<1>1. n \in Nat /\ Len(pollfds') = n
  BY PolledFacts DEF poll, TypeOK
<1>2. walk' = [phase |-> "test",
               index |-> IF timeout THEN 0 ELSE first,
               size |-> IF timeout THEN 0 ELSE n]
  BY DEF poll
<1>3. CASE timeout
  <2>1. walk'.phase = "test" /\ walk'.index = 0 /\ walk'.size = 0
    BY <1>2, <1>3
  <2> QED
    BY <1>1, <1>3, <2>1 DEF Standing
<1>4. CASE ~timeout
  <2>1. walk'.phase = "test" /\ walk'.index = first /\ walk'.size = n
    BY <1>2, <1>4
  <2>2. 0 \in Nat /\ 0 <= n
    BY <1>1
  <2>3. /\ first \in 0..n
        /\ first < n => pollfds'[first + 1].revents # {}
        /\ \A j \in 0..(first - 1) : pollfds'[j + 1].revents = {}
    BY <1>1, <2>2, FindFirstReadyFacts
  <2> HIDE DEF first, timeout
  <2>4. \A i \in 1..n : pollfds'[i].revents # {} => i > first
    <3>1. SUFFICES ASSUME NEW i \in 1..n, ~(i > first) PROVE pollfds'[i].revents = {}
      OBVIOUS
    <3>2. i - 1 \in 0..(first - 1) /\ (i - 1) + 1 = i
      BY <1>1, <2>3, <3>1
    <3> QED
      BY <2>3, <3>2
  <2> QED
    BY <1>1, <2>1, <2>3, <2>4 DEF Standing
<1> QED
  BY <1>3, <1>4

(* Every step of a client that does not edit inside the loop keeps the     *)
(* iterator on a ready position or at its end (advance, findFirstReady).   *)
LEMMA NextWalkInv ==
  ASSUME EditDuringWalk = FALSE, Inv, WalkInv, [Next]_vars
  PROVE  WalkInv'
<1>0. Len(pollfds) \in Nat /\ walk.index \in Nat /\ walk.size \in Nat
  BY DEF Inv, TypeOK
<1>1. ASSUME NEW fd \in Fd, NEW events \in Interests, NEW data \in Data,
             add(fd, events, data)
      PROVE  WalkInv'
  BY <1>1 DEF add, MayEdit, WalkInv
<1>2. ASSUME NEW fd \in Fd, remove(fd)
      PROVE  WalkInv'
  BY <1>2 DEF remove, MayEdit, WalkInv
<1>3. ASSUME NEW cond \in [Fd -> Conditions], poll(cond)
      PROVE  WalkInv'
  BY <1>3, PollStanding DEF WalkInv, Inv
<1>4. CASE pollFailed
  BY <1>4 DEF pollFailed, WalkInv
<1>5. CASE Dereference
  <2>1. Standing' /\ walk'.phase = "body" /\ walk'.index = walk.index /\ walk'.size = walk.size
    BY <1>5 DEF Dereference, WalkInv, Standing, Inv, TypeOK
  <2>2. walk.index < walk.size
    BY <1>0, <1>5 DEF Dereference, WalkInv, Standing
  <2> QED
    BY <2>1, <2>2 DEF WalkInv
<1>6. CASE ReachEnd
  BY <1>6 DEF ReachEnd, Idle, WalkInv
<1>7. CASE Increment
  <2>1. walk.index < walk.size /\ walk.size = Len(pollfds)
    BY <1>0, <1>7 DEF Increment, WalkInv, Standing
  <2>2. walk' = [walk EXCEPT !.phase = "test", !.index = advance(pollfds, walk.index)]
    BY <1>7, <2>1 DEF Increment
  <2>3. /\ walk'.phase = "test" /\ walk'.size = walk.size
        /\ walk'.index = advance(pollfds, walk.index)
    BY <2>2 DEF Inv, TypeOK
  <2>4. pollfds' = pollfds
    BY <1>7 DEF Increment
  <2>5. /\ advance(pollfds, walk.index) \in (walk.index + 1)..Len(pollfds)
        /\ advance(pollfds, walk.index) < Len(pollfds) =>
             pollfds[advance(pollfds, walk.index) + 1].revents # {}
    BY <1>0, <2>1, AdvanceFacts
  <2> QED
    BY <1>0, <2>1, <2>3, <2>4, <2>5 DEF WalkInv, Standing
<1>8. CASE Break
  BY <1>8 DEF Break, Idle, WalkInv
<1>9. CASE UNCHANGED vars
  BY <1>9 DEF vars, WalkInv, Standing
<1> QED
  BY <1>1, <1>2, <1>3, <1>4, <1>5, <1>6, <1>7, <1>8, <1>9 DEF Next

(* No walk is in progress in a new selector.                               *)
LEMMA InitWalkInv == Init => WalkInv
BY DEF Init, Idle, WalkInv

(* A client that does not edit the selector inside the loop only ever      *)
(* dereferences ready positions that exist (selector_poll.cpp:160), and    *)
(* never trips the assertion of operator++ (selector.cpp:45).              *)
THEOREM PollWalk ==
  ASSUME EditDuringWalk = FALSE
  PROVE  Spec => [](IteratorOnReady /\ IncrementInRange)
<1>1. Inv /\ WalkInv /\ [Next]_vars => Inv' /\ WalkInv'
  BY NextInv, NextWalkInv
<1>2. Inv /\ WalkInv => IteratorOnReady /\ IncrementInRange
  BY DEF Inv, TypeOK, WalkInv, Standing, IteratorOnReady, IncrementInRange
<1> QED
  BY InitInv, InitWalkInv, <1>1, <1>2, PTL DEF Spec

-----------------------------------------------------------------------------
(* Refinement                                                              *)

(* A position with no event to hand out below the iterator: Owed counts    *)
(* from the iterator, and nothing ready lies between two stops of it.      *)
LEMMA OwedWhileIdle ==
  ASSUME Inv, walk.phase \notin {"test", "body"}
  PROVE  Owed = {}
<1>1. Len(pollfds) \in Nat
  BY DEF Inv, TypeOK
<1> QED
  BY <1>1 DEF Owed

(* A new selector is an abstract selector without registrations.           *)
LEMMA InitRefines == Init => Abstract!Init
<1> SUFFICES ASSUME Init PROVE Abstract!Init
  OBVIOUS
<1>1. Owed = {}
  BY OwedWhileIdle, InitInv DEF Init, Idle
<1>2. Registrations = <<>>
  BY DEF Init, Registrations
<1>3. Found = {} /\ walk.phase = "idle"
  BY DEF Init, Idle, Found
<1> QED
  BY <1>1, <1>2, <1>3 DEF Abstract!Init, Init, Reported

(* add is the abstract Add.                                                *)
LEMMA AddRefines ==
  ASSUME EditDuringWalk = FALSE, Inv, Inv',
         NEW fd \in Fd, NEW events \in Interests, NEW data \in Data,
         add(fd, events, data)
  PROVE  Abstract!Next
<1> DEFINE reg == [fd |-> fd, data |-> data, events |-> ToNative(events)]
<1>1. reg \in Abstract!Registration
  BY DEF Abstract!Registration, Masks
<1>1a. walk.phase = "idle" /\ walk' = walk
  BY DEF add, MayEdit
<1>1b. Found = {} /\ Found' = {}
  BY <1>1a DEF Found
<1>2. Owed = {} /\ Owed' = {}
  <2>1. walk.phase = "idle" /\ walk' = walk
    BY <1>1a
  <2>2. Owed = {}
    BY <2>1, OwedWhileIdle
  <2>3. Len(pollfds') \in Nat
    BY DEF Inv, TypeOK
  <2> QED
    BY <2>1, <2>2, <2>3 DEF Owed
<1>3. Registrations' = Append(Registrations, reg)
  <2> DEFINE n == Len(pollfds)
  <2>1. /\ n \in Nat /\ Len(selectables) = n
        /\ selectables \in Seq(Selectable) /\ pollfds \in Seq(Pollfd)
    BY DEF Inv, TypeOK, Coupled
  <2>2. /\ pollfds' = Append(pollfds, [fd |-> fd, events |-> ToNative(events), revents |-> {}])
        /\ selectables' = Append(selectables, [fd |-> fd, data |-> data])
    BY DEF add, addRaw
  <2>3. /\ Len(pollfds') = n + 1
        /\ \A i \in 1..n : pollfds'[i] = pollfds[i] /\ selectables'[i] = selectables[i]
        /\ pollfds'[n + 1].fd = fd /\ pollfds'[n + 1].events = ToNative(events)
        /\ selectables'[n + 1].data = data
    BY <2>1, <2>2
  <2> HIDE DEF n
  <2>4. Registrations = [i \in 1..n |->
           [fd |-> pollfds[i].fd, data |-> selectables[i].data, events |-> pollfds[i].events]]
    BY DEF Registrations, n
  <2>5. Registrations' = [i \in 1..(n + 1) |->
           [fd |-> pollfds'[i].fd, data |-> selectables'[i].data, events |-> pollfds'[i].events]]
    BY <2>3 DEF Registrations
  <2>6. Append(Registrations, reg) =
          [i \in 1..(n + 1) |-> IF i = n + 1 THEN reg ELSE Registrations[i]]
    BY <2>1, <2>4
  <2>7. \A i \in 1..(n + 1) :
          [fd |-> pollfds'[i].fd, data |-> selectables'[i].data, events |-> pollfds'[i].events]
            = IF i = n + 1 THEN reg ELSE Registrations[i]
    BY <2>1, <2>3, <2>4
  <2> QED
    BY <2>5, <2>6, <2>7
<1>4. Reported' = Reported
  BY DEF add, Reported
<1>5. Abstract!Add(reg)
  BY <1>1a, <1>1b, <1>2, <1>3, <1>4 DEF Abstract!Add
<1> QED
  BY <1>1, <1>5 DEF Abstract!Next

(* remove is the abstract Remove: erasing from both vectors erases from    *)
(* the registrations they make up.                                         *)
LEMMA RemoveRefines ==
  ASSUME EditDuringWalk = FALSE, Inv, Inv', NEW fd \in Fd, remove(fd)
  PROVE  Abstract!Next
<1>1a. walk.phase = "idle" /\ walk' = walk
  BY DEF remove, MayEdit
<1>1b. Found = {} /\ Found' = {}
  BY <1>1a DEF Found
<1>2. Owed = {} /\ Owed' = {}
  <2>1. walk.phase = "idle" /\ walk' = walk
    BY <1>1a
  <2>2. Owed = {}
    BY <2>1, OwedWhileIdle
  <2>3. Len(pollfds') \in Nat
    BY DEF Inv, TypeOK
  <2> QED
    BY <2>1, <2>2, <2>3 DEF Owed
<1>3. Registrations' = Erase(Registrations, fd)
  <2> DEFINE S == Survivors(pollfds, fd)
  <2>1. Len(pollfds) \in Nat /\ selectables \in Seq(Selectable) /\ pollfds \in Seq(Pollfd)
    BY DEF Inv, TypeOK
  <2>2. Survivors(selectables, fd) = S
    BY SameSurvivors DEF Inv, Coupled
  <2>3. Survivors(Registrations, fd) = S
    <3>1. Len(Registrations) = Len(pollfds)
      BY <2>1 DEF Registrations
    <3>2. \A i \in 1..Len(pollfds) : Registrations[i].fd = pollfds[i].fd
      BY DEF Registrations
    <3> QED
      BY <3>1, <3>2, SameSurvivors
  <2>4. /\ Len(pollfds') = Cardinality(S)
        /\ \A k \in 1..Cardinality(S) : Nth(S, k) \in S /\ pollfds'[k] = pollfds[Nth(S, k)]
    BY <2>1, EraseFacts DEF remove
  <2>5. \A k \in 1..Cardinality(S) : selectables'[k] = selectables[Nth(S, k)]
    BY <2>1, <2>2, EraseFacts DEF remove
  <2>6. S \subseteq 1..Len(pollfds)
    BY DEF Survivors
  <2> HIDE DEF S
  <2>7. Erase(Registrations, fd) = [k \in 1..Cardinality(S) |-> Registrations[Nth(S, k)]]
    BY <2>3 DEF Erase, Pack
  <2>8. \A k \in 1..Cardinality(S) : Registrations[Nth(S, k)] =
          [fd |-> pollfds'[k].fd, data |-> selectables'[k].data, events |-> pollfds'[k].events]
    BY <2>4, <2>5, <2>6 DEF Registrations
  <2>9. Registrations' = [k \in 1..Cardinality(S) |->
          [fd |-> pollfds'[k].fd, data |-> selectables'[k].data, events |-> pollfds'[k].events]]
    BY <2>4 DEF Registrations
  <2> QED
    BY <2>7, <2>8, <2>9
<1>4. Reported' = Reported
  BY DEF remove, Reported
<1>5. Abstract!Erase(Registrations, fd) = Erase(Registrations, fd)
  BY DEF Abstract!Erase, Abstract!Pack, Abstract!Nth, Abstract!Survivors,
         Abstract!Cardinality, Abstract!IsFiniteSet,
         Erase, Pack, Nth, Survivors, Cardinality, IsFiniteSet
<1> QED
  BY <1>1a, <1>1b, <1>2, <1>3, <1>4, <1>5 DEF Abstract!Remove, Abstract!Next

(* poll is the abstract Poll, with room for all: the positions from the    *)
(* first ready one on that are ready are all the ready ones.               *)
LEMMA PollRefines ==
  ASSUME Inv, NEW cond \in [Fd -> Conditions], poll(cond)
  PROVE  Abstract!Next
<1>1. Owed = {}
  BY OwedWhileIdle DEF poll
<1>2. /\ Len(pollfds') = Len(pollfds) /\ Len(pollfds) \in Nat
      /\ \A i \in 1..Len(pollfds) : /\ pollfds'[i].fd = pollfds[i].fd
                                    /\ pollfds'[i].events = pollfds[i].events
                                    /\ pollfds'[i].revents = Raised(pollfds[i], cond)
  BY PolledFacts DEF poll, Inv, TypeOK
<1>3. Registrations' = Registrations
  BY <1>2 DEF Registrations, poll
<1>4. Reported' = Reported
  BY DEF poll, Reported
<1>5. \A i \in 1..Len(pollfds) :
        pollfds'[i].revents = Abstract!Raised(Registrations[i], cond)
  BY <1>2 DEF Abstract!Raised, Raised, Registrations
<1>6. Len(Registrations) = Len(pollfds)
  BY <1>2 DEF Registrations
<1>7. Owed' = {i \in 1..Len(pollfds) : pollfds'[i].revents # {}}
  <2>1. /\ walk'.phase = "test"
        /\ \A i \in 1..Len(pollfds') : pollfds'[i].revents # {} => i > walk'.index
    BY PollStanding DEF Inv
  <2>2. Owed' = {i \in (walk'.index + 1)..Len(pollfds) : pollfds'[i].revents # {}}
    BY <1>2, <2>1 DEF Owed
  <2>3. walk'.index \in Nat
    BY NextInv DEF Inv, TypeOK, Next
  <2> QED
    BY <1>2, <2>1, <2>2, <2>3
<1>8. walk.phase = "idle" /\ walk'.phase = "test"
  BY PollStanding DEF Inv, poll
<1>9. Found' = Owed'
  BY <1>2, <1>7, <1>8 DEF Found
<1>10. Found' = {i \in 1..Len(Registrations) : Abstract!Raised(Registrations[i], cond) # {}}
  BY <1>5, <1>6, <1>7, <1>9
<1>11. Owed' \in Abstract!Reportable(Found')
  BY <1>9 DEF Abstract!Reportable
<1>12. Abstract!Poll(cond)
  BY <1>3, <1>4, <1>8, <1>10, <1>11 DEF Abstract!Poll
<1> QED
  BY <1>12 DEF Abstract!Next

(* Dereferencing the iterator is the abstract Deliver of its position.     *)
LEMMA DereferenceRefines ==
  ASSUME Inv, WalkInv, Dereference
  PROVE  Abstract!Next
<1> DEFINE i == walk.index + 1
<1>1. /\ walk.phase = "test" /\ walk.index \in Nat /\ Len(pollfds) \in Nat
      /\ walk.index < Len(pollfds) /\ Len(selectables) = Len(pollfds)
      /\ pollfds[i].revents # {}
  BY DEF Inv, TypeOK, Coupled, WalkInv, Standing, Dereference
<1>2. i \in 1..Len(pollfds)
  BY <1>1
<1>3. event' = [fd |-> selectables[i].fd, data |-> selectables[i].data,
                events |-> FromNative(pollfds[i].revents)]
  BY <1>1 DEF Dereference, getEvent
<1>4. Reported' = [fd |-> Registrations[i].fd, data |-> Registrations[i].data]
  <2>1. event' # <<>>
    BY <1>3
  <2>2. Reported' = [fd |-> selectables[i].fd, data |-> selectables[i].data]
    BY <1>3, <2>1 DEF Reported
  <2> QED
    BY <1>2, <2>2 DEF Registrations, Inv, Coupled
<1>5. Owed = {k \in i..Len(pollfds) : pollfds[k].revents # {}}
  BY <1>1 DEF Owed
<1>6. Owed' = {k \in (i + 1)..Len(pollfds) : pollfds[k].revents # {}}
  <2>1. walk'.phase = "body" /\ walk'.index = walk.index /\ pollfds' = pollfds
    BY DEF Dereference, Inv, TypeOK
  <2>2. walk.index + 2 = i + 1
    BY <1>1
  <2> QED
    BY <2>1, <2>2 DEF Owed
<1>7. i \in Owed /\ Owed' = Owed \ {i}
  BY <1>1, <1>2, <1>5, <1>6
<1>8. Registrations' = Registrations
  BY DEF Registrations, Dereference
<1>9. walk'.phase = "body" /\ Found' = Found
  BY <1>1 DEF Dereference, Found, Inv, TypeOK
<1> QED
  BY <1>1, <1>4, <1>7, <1>8, <1>9 DEF Abstract!Deliver, Abstract!Next

(* Incrementing the iterator is the abstract Continue: what advance skips  *)
(* was not ready, so no event that is due is lost.                         *)
LEMMA IncrementRefines ==
  ASSUME Inv, WalkInv, Increment
  PROVE  Abstract!Next
<1>1. /\ walk.phase = "body" /\ walk.index \in Nat /\ Len(pollfds) \in Nat
      /\ walk.index < Len(pollfds) /\ walk.index < walk.size
  BY DEF Inv, TypeOK, WalkInv, Standing, Increment
<1> DEFINE a == advance(pollfds, walk.index)
<1>2. walk' = [walk EXCEPT !.phase = "test", !.index = a]
  BY <1>1 DEF Increment
<1>3. walk'.phase = "test" /\ walk'.index = a
  BY <1>2 DEF Inv, TypeOK
<1>4. /\ a \in (walk.index + 1)..Len(pollfds)
      /\ \A j \in (walk.index + 1)..(a - 1) : pollfds[j + 1].revents = {}
  BY <1>1, AdvanceFacts
<1> HIDE DEF a
<1>5. UNCHANGED <<selectables, pollfds, event>>
  BY DEF Increment
<1>6. Owed = {k \in (walk.index + 2)..Len(pollfds) : pollfds[k].revents # {}}
  BY <1>1 DEF Owed
<1>7. Owed' = {k \in (a + 1)..Len(pollfds) : pollfds[k].revents # {}}
  BY <1>3, <1>5 DEF Owed
<1>8. \A k \in (walk.index + 2)..a : pollfds[k].revents = {}
  <2> SUFFICES ASSUME NEW k \in (walk.index + 2)..a PROVE pollfds[k].revents = {}
    OBVIOUS
  <2>1. k - 1 \in (walk.index + 1)..(a - 1) /\ (k - 1) + 1 = k
    BY <1>1, <1>4
  <2> QED
    BY <1>4, <2>1
<1>9. Owed' = Owed
  BY <1>1, <1>4, <1>6, <1>7, <1>8
<1>10. Found' = Found
  BY <1>1, <1>3, <1>5 DEF Found
<1> QED
  BY <1>1, <1>3, <1>5, <1>9, <1>10 DEF Abstract!Continue, Abstract!Next, Registrations, Reported

(* Meeting the end of the loop is the abstract End: from an iterator at    *)
(* its end no event is due any more.                                       *)
LEMMA ReachEndRefines ==
  ASSUME Inv, WalkInv, ReachEnd
  PROVE  Abstract!Next
<1>1. /\ UNCHANGED <<selectables, pollfds, event>> /\ walk' = Idle
      /\ walk.phase = "test" /\ walk.index = walk.size
      /\ Len(pollfds) \in Nat /\ walk.index \in Nat
  BY DEF ReachEnd, Inv, TypeOK
<1>2. Owed = {}
  <2>1. Owed = {i \in (walk.index + 1)..Len(pollfds) : pollfds[i].revents # {}}
    BY <1>1 DEF Owed
  <2>2. CASE walk.size = 0 /\ \A i \in 1..Len(pollfds) : pollfds[i].revents = {}
    BY <1>1, <2>1, <2>2
  <2>3. CASE walk.size = Len(pollfds)
    <3>1. (walk.index + 1)..Len(pollfds) = {}
      BY <1>1, <2>3
    <3> QED BY <2>1, <3>1
  <2> QED BY <1>1, <2>2, <2>3 DEF WalkInv, Standing
<1>3. Owed' = {} /\ Found' = {} /\ walk'.phase = "idle"
  <2>1. Len(pollfds') \in Nat
    BY <1>1
  <2> QED
    BY <1>1, <2>1 DEF Owed, Found, Idle
<1> QED
  BY <1>1, <1>2, <1>3 DEF Abstract!End, Abstract!Next, Registrations, Reported

(* A break is the abstract Leave.                                          *)
LEMMA BreakRefines ==
  ASSUME Inv, Break
  PROVE  Abstract!Next
<1>1. UNCHANGED <<selectables, pollfds, event>> /\ walk' = Idle /\ walk.phase = "body"
  BY DEF Break
<1>2. Owed' = {} /\ Found' = {} /\ walk'.phase = "idle"
  <2>1. Len(pollfds') \in Nat
    BY <1>1 DEF Inv, TypeOK
  <2> QED
    BY <1>1, <2>1 DEF Owed, Found, Idle
<1> QED
  BY <1>1, <1>2 DEF Abstract!Leave, Abstract!Next, Registrations, Reported

(* A poll(2) that fails is a stutter.                                      *)
LEMMA PollFailedRefines ==
  ASSUME Inv, pollFailed
  PROVE  UNCHANGED Abstract!selectorVars
<1> DEFINE q == [i \in 1..Len(pollfds) |-> [pollfds[i] EXCEPT !.revents = {}]]
<1>1. pollfds' = q /\ UNCHANGED <<selectables, walk, event>> /\ walk.phase = "idle"
  BY DEF pollFailed
<1>2. Len(pollfds) \in Nat /\ \A i \in 1..Len(pollfds) : pollfds[i] \in Pollfd
  BY DEF Inv, TypeOK
<1>3. Len(q) = Len(pollfds)
  BY <1>2
<1>4. \A i \in 1..Len(pollfds) : q[i].fd = pollfds[i].fd /\ q[i].events = pollfds[i].events
  BY <1>2 DEF Pollfd
<1> HIDE DEF q
<1>5. Registrations' = Registrations
  BY <1>1, <1>3, <1>4 DEF Registrations
<1>6. Owed = {} /\ Owed' = {}
  <2>1. Owed = {}
    BY <1>1, OwedWhileIdle
  <2> QED
    BY <1>1, <1>2, <1>3, <2>1 DEF Owed
<1>7. Found = {} /\ Found' = {}
  BY <1>1 DEF Found
<1> QED
  BY <1>1, <1>5, <1>6, <1>7 DEF Abstract!selectorVars, Reported

(* The poll selector implements the abstract selector for a client that    *)
(* edits it only between walks: every poll hands out exactly one event     *)
(* per ready registration, with that registration's descriptor and data,   *)
(* and its loop does not end before that unless the client leaves it       *)
(* (selector_poll.cpp:109-169, selector.cpp:35-55).                        *)
THEOREM PollImplementsSelector ==
  ASSUME EditDuringWalk = FALSE
  PROVE  Spec => ImplementsSelector
<1>1. Inv /\ WalkInv /\ [Next]_vars => Inv' /\ WalkInv'
  BY NextInv, NextWalkInv
<1>2. Inv /\ WalkInv /\ [Next]_vars => [Abstract!Next]_(Abstract!selectorVars)
  <2> SUFFICES ASSUME Inv, WalkInv, [Next]_vars, Inv'
               PROVE  Abstract!Next \/ UNCHANGED Abstract!selectorVars
    BY <1>1
  <2>1. CASE UNCHANGED vars
    BY <2>1 DEF vars, Abstract!selectorVars, Registrations, Found, Owed, Reported
  <2>2. CASE Next
    BY <2>2, AddRefines, RemoveRefines, PollRefines, PollFailedRefines, DereferenceRefines,
       IncrementRefines, ReachEndRefines, BreakRefines DEF Next
  <2> QED
    BY <2>1, <2>2
<1> QED
  BY InitInv, InitWalkInv, InitRefines, <1>1, <1>2, PTL DEF Spec, ImplementsSelector, Abstract!Spec
=============================================================================
