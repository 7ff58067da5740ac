------------------------ MODULE EPollSelector_proofs ------------------------
(***************************************************************************)
(* Proofs about EPollSelector, for every set of descriptors, every number  *)
(* of registrations and of events per poll.                                *)
(***************************************************************************)
EXTENDS EPollSelector, Vector_proofs, FunctionTheorems

(* What the kernel keeps for a descriptor, and what epoll_wait fills in.   *)
Entry == [at : [buffer : Nat, slot : Nat], reg : Selectable, events : SUBSET Native]

(* Where the loop over the events stands.                                  *)
Phase == {"idle", "test", "interrupted", "body"}

TypeOK ==
  /\ slips \in Habits
  /\ selectables \in Seq(Selectable)
  /\ leftover \in Seq(Selectable)
  /\ capacity \in Nat
  /\ buffer \in Nat
  /\ DOMAIN interest \subseteq Fd
  /\ \A fd \in DOMAIN interest : interest[fd] \in Entry /\ interest[fd].reg.fd = fd
  /\ evlist \in Seq(Entry)
  /\ walk \in [phase : Phase, index : Nat, size : Nat]

(* What holds whatever the client does.                                    *)
Inv == TypeOK /\ WatchedIsListed

(* For a careful client, every element of _selectables is watched, and the *)
(* address in the kernel's entry is of that element's slot; of the present *)
(* buffer it need only be when the client polls.                           *)
Aligned ==
  \A i \in 1..Len(selectables) :
    /\ selectables[i].fd \in DOMAIN interest
    /\ interest[selectables[i].fd].at.slot = i
    /\ interest[selectables[i].fd].reg = selectables[i]
    /\ interest[selectables[i].fd].events \in Masks

(* An entry that epoll_wait has filled in is about the element its address *)
(* leads to, and no two are about the same one.                            *)
Standing ==
  /\ walk.index <= walk.size /\ walk.size <= Len(evlist)
  /\ walk.phase \in {"idle", "interrupted"} => walk.size = 0
  /\ walk.phase = "idle" => ready = {}
  /\ walk.phase = "body" => walk.index < walk.size
  /\ \A k \in 1..walk.size : \E i \in 1..Len(selectables) :
       evlist[k].at = [buffer |-> buffer, slot |-> i] /\ evlist[k].reg = selectables[i]
  /\ \A k, l \in 1..walk.size : evlist[k].reg.fd = evlist[l].reg.fd => k = l

(* What a careful client may rely on.                                      *)
CarefulInv == Careful => Aligned /\ Standing /\ EventAttributed
-----------------------------------------------------------------------------
(* Any client                                                              *)

(* A new selector watches nothing (selector_epoll.cpp:67-76).              *)
LEMMA InitInv == Init => Inv
<1> SUFFICES ASSUME Init PROVE Inv
  OBVIOUS
<1>1. DOMAIN interest = {}
  BY DEF Init
<1>2. capacity \in Nat
  BY EPollAssumption DEF Init
<1> QED
  BY <1>1, <1>2 DEF Init, Inv, TypeOK, WatchedIsListed, Idle, Phase

(* What push_back does to _selectables, whether it has to reallocate or    *)
(* not (selector_epoll.cpp:104).                                           *)
LEMMA PushBackFacts ==
  ASSUME TypeOK, NEW entry \in Selectable, pushBack(entry)
  PROVE  /\ selectables' \in Seq(Selectable)
         /\ leftover' \in Seq(Selectable)
         /\ capacity' \in Nat /\ buffer' \in Nat
         /\ Len(selectables') = Len(selectables) + 1
         /\ \A i \in 1..Len(selectables) : selectables'[i] = selectables[i]
         /\ selectables'[Len(selectables) + 1] = entry
<1>1. selectables' = Append(selectables, entry)
  BY DEF pushBack
<1>2. CASE Len(selectables) < capacity
  <2>1. leftover' \in Seq(Selectable)
    <3>1. leftover \in Seq(Selectable) /\ leftover' = IF leftover = <<>> THEN <<>> ELSE Tail(leftover)
      BY <1>2 DEF pushBack, TypeOK
    <3>2. CASE leftover = <<>>
      BY <3>1, <3>2
    <3>3. CASE leftover # <<>>
      BY <3>1, <3>3, HeadTailProperties
    <3> QED BY <3>2, <3>3
  <2>2. capacity' \in Nat /\ buffer' \in Nat
    BY <1>2 DEF pushBack, TypeOK
  <2> QED BY <1>1, <2>1, <2>2 DEF TypeOK
<1>3. CASE ~(Len(selectables) < capacity)
  <2>1. leftover' \in Seq(Selectable) /\ capacity' \in Nat /\ buffer' \in Nat
    BY <1>3 DEF pushBack, TypeOK
  <2> QED BY <1>1, <2>1 DEF TypeOK
<1> QED BY <1>2, <1>3

(* What the kernel is told by addRaw: one more entry, for the new element, *)
(* or nothing (selector_epoll.cpp:106-112).                                *)
LEMMA AddRawFacts ==
  ASSUME TypeOK, NEW fd \in Fd, NEW native \in SUBSET Native, NEW data \in Data,
         addRaw(fd, native, data)
  PROVE  \/ interest' = interest
         \/ /\ fd \notin DOMAIN interest
            /\ DOMAIN interest' = DOMAIN interest \cup {fd}
            /\ \A f \in DOMAIN interest : interest'[f] = interest[f]
            /\ interest'[fd] = [at |-> [buffer |-> buffer', slot |-> Len(selectables')],
                                reg |-> [fd |-> fd, data |-> data],
                                events |-> native]
BY DEF addRaw

(* The masks a client asks for are sets of native bits.                    *)
LEMMA ToNativeType == \A events : ToNative(events) \in SUBSET Native
BY DEF ToNative, Native

(* Erasing the elements of one descriptor keeps the rest of the vector,    *)
(* and so an element for every other descriptor the kernel watches         *)
(* (selector_epoll.cpp:121-136).                                           *)
LEMMA RemoveKeepsInv ==
  ASSUME Inv, NEW fd \in Fd, remove(fd)
  PROVE  Inv'
<1>1. /\ selectables' = Erase(selectables, fd)
      /\ selectables \in Seq(Selectable) /\ leftover \in Seq(Selectable)
      /\ leftover' = SubSeq(selectables, Len(selectables') + 1, Len(selectables)) \o leftover
  BY DEF remove, Inv, TypeOK
<1>2. /\ selectables' \in Seq(Selectable)
      /\ Len(selectables) \in Nat /\ Len(selectables') \in Nat
  BY <1>1, EraseFacts
<1>3. leftover' \in Seq(Selectable)
  <2>1. \A i \in (Len(selectables') + 1)..Len(selectables) : i \in 1..Len(selectables)
    BY <1>2
  <2>2. \A i \in (Len(selectables') + 1)..Len(selectables) : selectables[i] \in Selectable
    BY <1>1, <2>1
  <2>3. SubSeq(selectables, Len(selectables') + 1, Len(selectables)) \in Seq(Selectable)
    BY <1>1, <1>2, <2>1, <2>2
  <2> QED BY <1>1, <2>3
<1>4. DOMAIN interest' = DOMAIN interest \ {fd} /\ \A f \in DOMAIN interest' : interest'[f] = interest[f]
  BY DEF remove
<1>5. TypeOK'
  BY <1>2, <1>3, <1>4 DEF remove, Inv, TypeOK
<1>6. WatchedIsListed'
  <2> SUFFICES ASSUME NEW f \in DOMAIN interest'
               PROVE  \E k \in 1..Len(selectables') : selectables'[k] = interest'[f].reg
    BY DEF WatchedIsListed
  <2>1. f \in DOMAIN interest /\ f # fd /\ interest'[f] = interest[f] /\ interest[f].reg.fd = f
    BY <1>4 DEF Inv, TypeOK
  <2>2. PICK i \in 1..Len(selectables) : selectables[i] = interest[f].reg
    BY <2>1 DEF Inv, WatchedIsListed
  <2>3. selectables[i].fd # fd
    BY <2>1, <2>2
  <2>4. \E k \in 1..Len(Erase(selectables, fd)) : Erase(selectables, fd)[k] = selectables[i]
    BY <1>1, <2>3, EraseKeeps
  <2> QED BY <1>1, <2>1, <2>2, <2>4
<1> QED BY <1>5, <1>6 DEF Inv

(* No more descriptors are watched than the vector has elements.           *)
LEMMA WatchedFinite ==
  ASSUME Inv
  PROVE  IsFiniteSet(DOMAIN interest) /\ Cardinality(DOMAIN interest) <= Len(selectables)
<1> DEFINE n == Len(selectables)
           Listed == {selectables[i].fd : i \in 1..n}
           f == [i \in 1..n |-> selectables[i].fd]
<1>0. n \in Nat
  BY DEF Inv, TypeOK
<1>1. n \in Nat /\ IsFiniteSet(1..n) /\ Cardinality(1..n) = n
  BY <1>0, FS_Interval
<1>2. f \in [1..n -> Listed] /\ \A t \in Listed : \E i \in 1..n : f[i] = t
  OBVIOUS
<1>3. DOMAIN interest \subseteq Listed
  BY DEF Inv, TypeOK, WatchedIsListed
<1> HIDE DEF n, Listed, f
<1>4. f \in Surjection(1..n, Listed)
  BY <1>2, Fun_IsSurj
<1>5. IsFiniteSet(Listed) /\ Cardinality(Listed) <= n
  BY <1>1, <1>4, FS_Surjection
<1>6. IsFiniteSet(DOMAIN interest) /\ Cardinality(DOMAIN interest) <= Cardinality(Listed)
  BY <1>3, <1>5, FS_Subset
<1>7. Cardinality(Listed) \in Nat /\ Cardinality(DOMAIN interest) \in Nat
  BY <1>5, <1>6, FS_CardinalityType
<1> QED BY <1>1, <1>5, <1>6, <1>7 DEF n

(* What epoll_wait fills in: for the k-th descriptor reported, the kernel's *)
(* entry with the bits that are raised (selector_epoll.cpp:139-154).       *)
LEMMA PollFacts ==
  ASSUME Inv, NEW cond \in [Fd -> Conditions], NEW fds \in Answers(cond), poll(cond, fds)
  PROVE  /\ Len(fds) \in Nat
         /\ evlist' \in Seq(Entry) /\ Len(evlist') = Len(fds)
         /\ \A k \in 1..Len(fds) :
              /\ fds[k] \in ReadyFds(cond) /\ fds[k] \in DOMAIN interest
              /\ evlist'[k].at = interest[fds[k]].at
              /\ evlist'[k].reg = interest[fds[k]].reg
              /\ evlist'[k].reg.fd = fds[k]
         /\ \A k, l \in 1..Len(fds) : fds[k] = fds[l] => k = l
         /\ \/ Len(fds) = MaxEvents
            \/ \A fd \in ReadyFds(cond) : \E k \in 1..Len(fds) : fds[k] = fd
<1> DEFINE Ready == ReadyFds(cond)
           c == Cardinality(Ready)
           n == IF c < MaxEvents THEN c ELSE MaxEvents
           filled(k) == [interest[fds[k]] EXCEPT !.events = cond[fds[k]] \cap (@ \cup AlwaysReported)]
<1>1. fds \in [1..n -> Ready] /\ \A k, l \in 1..n : fds[k] = fds[l] => k = l
  BY DEF Answers
<1>2. Ready \subseteq DOMAIN interest
  BY DEF ReadyFds
<1>3. IsFiniteSet(Ready) /\ c \in Nat /\ c <= Len(selectables)
  <2>1. IsFiniteSet(Ready) /\ c <= Cardinality(DOMAIN interest)
    BY <1>2, WatchedFinite, FS_Subset
  <2>2. c \in Nat /\ Cardinality(DOMAIN interest) \in Nat /\ Len(selectables) \in Nat
    BY <2>1, WatchedFinite, FS_CardinalityType DEF Inv, TypeOK
  <2> QED BY <2>1, <2>2, WatchedFinite
<1>4. MaxEvents \in Nat /\ n \in Nat
  BY <1>3, EPollAssumption
<1> HIDE DEF Ready, c, n
<1>5. Len(fds) = n
  BY <1>1, <1>4
<1>6. evlist' = [k \in 1..n |-> filled(k)]
  BY <1>5 DEF poll
<1>7. ASSUME NEW k \in 1..n
      PROVE  /\ fds[k] \in Ready /\ fds[k] \in DOMAIN interest
             /\ filled(k) \in Entry
             /\ filled(k).at = interest[fds[k]].at
             /\ filled(k).reg = interest[fds[k]].reg
             /\ filled(k).reg.fd = fds[k]
  <2>1. fds[k] \in Ready /\ fds[k] \in DOMAIN interest
    BY <1>1, <1>2, <1>4
  <2>2. interest[fds[k]] \in Entry /\ interest[fds[k]].reg.fd = fds[k] /\ fds[k] \in Fd
    BY <2>1 DEF Inv, TypeOK
  <2>3. cond[fds[k]] \in SUBSET Native
    BY <2>2, EPollAssumption
  <2>4. filled(k) \in Entry
    BY <2>2, <2>3 DEF Entry
  <2>5. filled(k).at = interest[fds[k]].at /\ filled(k).reg = interest[fds[k]].reg
    BY <2>2 DEF Entry
  <2> QED BY <2>1, <2>2, <2>4, <2>5
<1> HIDE DEF filled
<1>8. evlist' \in Seq(Entry) /\ Len(evlist') = n /\ \A k \in 1..n : evlist'[k] = filled(k)
  BY <1>4, <1>6, <1>7
<1>9. ASSUME n # MaxEvents
      PROVE  \A fd \in Ready : \E k \in 1..n : fds[k] = fd
  <2>1. n = c
    BY <1>9 DEF n
  <2>2. Cardinality(1..n) = Cardinality(Ready)
    BY <1>4, <2>1, FS_Interval DEF c
  <2>3. fds \in Injection(1..n, Ready)
    BY <1>1, Fun_IsInj
  <2>4. fds \in Surjection(1..n, Ready)
    BY <1>3, <2>2, <2>3, FS_Injection
  <2> QED BY <2>4 DEF Surjection
<1> QED BY <1>1, <1>4, <1>5, <1>7, <1>8, <1>9 DEF Ready

(* addRaw writes the vector before the kernel, so what is watched stays    *)
(* listed even when epoll_ctl refuses (selector_epoll.cpp:99-113).         *)
LEMMA AddKeepsInv ==
  ASSUME Inv, NEW fd \in Fd, NEW events \in Interests, NEW data \in Data, add(fd, events, data)
  PROVE  Inv'
<1> DEFINE s == [fd |-> fd, data |-> data]
           native == ToNative(events)
           entry == [at |-> [buffer |-> buffer', slot |-> Len(selectables')], reg |-> s, events |-> native]
           n == Len(selectables)
<1>1. s \in Selectable /\ native \in SUBSET Native /\ TypeOK /\ n \in Nat
  BY ToNativeType DEF Selectable, Inv, TypeOK
<1>2. addRaw(fd, native, data) /\ pushBack(s)
  BY DEF add, addRaw
<1>3. s.fd = fd
  OBVIOUS
<1> HIDE DEF s, native
<1>4. /\ selectables' \in Seq(Selectable) /\ leftover' \in Seq(Selectable)
      /\ capacity' \in Nat /\ buffer' \in Nat
      /\ Len(selectables') = n + 1
      /\ \A i \in 1..n : selectables'[i] = selectables[i]
      /\ selectables'[n + 1] = s
  BY <1>1, <1>2, PushBackFacts
<1>5. \/ interest' = interest
      \/ /\ DOMAIN interest' = DOMAIN interest \cup {fd}
         /\ \A f \in DOMAIN interest : interest'[f] = interest[f]
         /\ interest'[fd] = entry
  BY <1>1, <1>2, AddRawFacts DEF s
<1>6. entry \in Entry /\ entry.reg = s /\ entry.reg.fd = fd
  BY <1>1, <1>3, <1>4 DEF Entry
<1> HIDE DEF entry
<1>7. TypeOK'
  BY <1>4, <1>5, <1>6 DEF add, Inv, TypeOK
<1>8. WatchedIsListed'
  <2> SUFFICES ASSUME NEW f \in DOMAIN interest'
               PROVE  \E i \in 1..Len(selectables') : selectables'[i] = interest'[f].reg
    BY DEF WatchedIsListed
  <2>1. CASE f \in DOMAIN interest /\ interest'[f] = interest[f]
    <3>1. PICK i \in 1..n : selectables[i] = interest[f].reg
      BY <2>1 DEF Inv, WatchedIsListed
    <3>2. i \in 1..(n + 1) /\ selectables'[i] = interest'[f].reg
      BY <1>1, <1>4, <2>1, <3>1
    <3> QED BY <1>4, <3>2
  <2>2. CASE f = fd /\ interest'[f] = entry
    BY <1>1, <1>4, <1>6, <2>2
  <2> QED BY <1>5, <2>1, <2>2
<1> QED BY <1>7, <1>8 DEF Inv

(* Every step of any client keeps an element of the vector for every       *)
(* descriptor the kernel watches.                                          *)
LEMMA NextInv == Inv /\ [Next]_vars => Inv'
<1> SUFFICES ASSUME Inv, [Next]_vars PROVE Inv'
  OBVIOUS
<1> USE DEF Inv
<1>1. ASSUME NEW cond \in [Fd -> Conditions], NEW fds \in Answers(cond), poll(cond, fds)
      PROVE  Inv'
  <2>1. evlist' \in Seq(Entry) /\ Len(fds) \in Nat
    BY <1>1, PollFacts
  <2>2. UNCHANGED registry /\ walk' = [phase |-> "test", index |-> 0, size |-> Len(fds)]
    BY <1>1 DEF poll
  <2> QED BY <2>1, <2>2 DEF registry, TypeOK, WatchedIsListed, Phase
<1>2. CASE pollInterrupted
  BY <1>2 DEF pollInterrupted, registry, TypeOK, WatchedIsListed, Phase
<1>3. CASE Dereference
  BY <1>3 DEF Dereference, registry, TypeOK, WatchedIsListed, Phase
<1>4. CASE ReachEnd \/ Break
  <2>1. walk' \in [phase : Phase, index : Nat, size : Nat]
    BY <1>4 DEF ReachEnd, Break, Idle, Phase
  <2>2. UNCHANGED <<registry, evlist>>
    BY <1>4 DEF ReachEnd, Break
  <2> QED BY <2>1, <2>2 DEF registry, TypeOK, WatchedIsListed
<1>5. CASE Increment
  <2>1. walk' \in [phase : Phase, index : Nat, size : Nat]
    <3>1. walk \in [phase : Phase, index : Nat, size : Nat] /\ walk.index + 1 \in Nat
      BY DEF TypeOK
    <3> QED BY <1>5, <3>1 DEF Increment, Phase
  <2>2. UNCHANGED <<registry, evlist>>
    BY <1>5 DEF Increment
  <2> QED BY <2>1, <2>2 DEF registry, TypeOK, WatchedIsListed
<1>6. ASSUME NEW fd \in Fd, Close(fd) PROVE Inv'
  BY <1>6 DEF Close, TypeOK, WatchedIsListed
<1>7. ASSUME NEW fd \in Fd, Open(fd) PROVE Inv'
  BY <1>7 DEF Open, TypeOK, WatchedIsListed
<1>8. CASE UNCHANGED vars
  BY <1>8 DEF vars, registry, TypeOK, WatchedIsListed
<1> QED
  BY <1>1, <1>2, <1>3, <1>4, <1>5, <1>6, <1>7, <1>8, AddKeepsInv, RemoveKeepsInv DEF Next

(* Whatever the client does - removing in any order, growing past the      *)
(* reserved capacity, adding what epoll_ctl refuses, editing inside the    *)
(* loop - what the kernel watches for the selector is in _selectables      *)
(* (selector_epoll.cpp:99-136).                                            *)
THEOREM EPollWatchedIsListed == Spec => []WatchedIsListed
<1>1. Inv => WatchedIsListed
  BY DEF Inv
<1> QED BY <1>1, InitInv, NextInv, PTL DEF Spec

-----------------------------------------------------------------------------
(* A careful client                                                        *)

(* The addresses tell the elements apart, so no descriptor is listed twice. *)
LEMMA DistinctFds ==
  ASSUME TypeOK, Aligned, NEW i \in 1..Len(selectables), NEW j \in 1..Len(selectables),
         selectables[i].fd = selectables[j].fd
  PROVE  i = j
BY DEF Aligned

(* add: the new element is the last one, no element changes its slot, and  *)
(* the kernel is given the address (selector_epoll.cpp:104-108).           *)
LEMMA AddAligned ==
  ASSUME Inv, Careful, Aligned,
         NEW fd \in Fd, NEW events \in Interests, NEW data \in Data, add(fd, events, data)
  PROVE  /\ Aligned'
         /\ Len(selectables') = Len(selectables) + 1
         /\ selectables'[Len(selectables) + 1] = [fd |-> fd, data |-> data]
         /\ \A i \in 1..Len(selectables) :
              /\ selectables'[i] = selectables[i]
              /\ interest'[selectables[i].fd] = interest[selectables[i].fd]
         /\ interest'[fd].events = ToNative(events)
<1> DEFINE s == [fd |-> fd, data |-> data]
           native == ToNative(events)
           n == Len(selectables)
<1>1. s \in Selectable /\ native \in Masks /\ TypeOK /\ n \in Nat /\ s.fd = fd
  BY DEF Selectable, Inv, TypeOK, Masks
<1>2. addRaw(fd, native, data) /\ pushBack(s) /\ fd \in opened \ DOMAIN interest
  BY DEF add, addRaw, MayAdd, Keeps, Careful
<1>4. /\ Len(selectables') = n + 1
      /\ \A i \in 1..n : selectables'[i] = selectables[i]
      /\ selectables'[n + 1] = s
  BY <1>1, <1>2, PushBackFacts
<1>5. /\ DOMAIN interest' = DOMAIN interest \cup {fd}
      /\ \A f \in DOMAIN interest : interest'[f] = interest[f]
      /\ interest'[fd] = [at |-> [buffer |-> buffer', slot |-> n + 1], reg |-> s, events |-> native]
  BY <1>2, <1>4 DEF addRaw
<1> HIDE DEF s, native
<1>6. interest'[fd].at = [buffer |-> buffer', slot |-> n + 1] /\ interest'[fd].reg = s
      /\ interest'[fd].events = native
  BY <1>5
<1>7. \A i \in 1..n : /\ selectables[i].fd \in DOMAIN interest /\ selectables[i].fd \in DOMAIN interest'
                      /\ interest'[selectables[i].fd] = interest[selectables[i].fd]
  BY <1>5 DEF Aligned
<1>9. ASSUME NEW i \in 1..(n + 1)
      PROVE  /\ selectables'[i].fd \in DOMAIN interest'
             /\ interest'[selectables'[i].fd].at.slot = i
             /\ interest'[selectables'[i].fd].reg = selectables'[i]
             /\ interest'[selectables'[i].fd].events \in Masks
  <2>1. CASE i = n + 1
    BY <1>1, <1>4, <1>5, <1>6, <2>1
  <2>2. CASE i \in 1..n
    BY <1>4, <1>7, <2>2 DEF Aligned
  <2> QED BY <1>1, <2>1, <2>2
<1>10. Aligned'
  BY <1>4, <1>9 DEF Aligned
<1> QED BY <1>4, <1>6, <1>7, <1>10 DEF s, native

(* remove of the newest registration: no other element moves               *)
(* (selector_epoll.cpp:133).                                               *)
LEMMA RemoveAligned ==
  ASSUME Inv, Careful, Aligned, NEW fd \in Fd, remove(fd)
  PROVE  /\ Aligned'
         /\ Len(selectables) \in Nat \ {0}
         /\ Len(selectables') = Len(selectables) - 1
         /\ \A i \in 1..Len(selectables) : selectables[i].fd = fd <=> i = Len(selectables)
         /\ \A i \in 1..(Len(selectables) - 1) :
              /\ selectables'[i] = selectables[i]
              /\ interest'[selectables[i].fd] = interest[selectables[i].fd]
<1> DEFINE n == Len(selectables)
<1>1. TypeOK /\ n \in Nat /\ selectables \in Seq(Selectable)
  BY DEF Inv, TypeOK
<1>2. selectables # <<>> /\ selectables[n].fd = fd
  BY DEF remove, MayRemove, Keeps, Careful
<1>3. n \in Nat \ {0} /\ n \in 1..n
  BY <1>1, <1>2, EmptySeq
<1>4. \A i \in 1..n : selectables[i].fd = fd <=> i = n
  BY <1>1, <1>2, <1>3, DistinctFds
<1>5. /\ Len(selectables') = n - 1
      /\ \A i \in 1..(n - 1) : selectables'[i] = selectables[i]
  BY <1>1, <1>2, <1>4, EraseLast DEF remove
<1>6. \A i \in 1..(n - 1) : i \in 1..n /\ selectables[i].fd # fd
  BY <1>3, <1>4
<1>7. \A i \in 1..(n - 1) : /\ selectables[i].fd \in DOMAIN interest'
                            /\ interest'[selectables[i].fd] = interest[selectables[i].fd]
  BY <1>6 DEF remove, Aligned
<1>10. Aligned'
  BY <1>5, <1>6, <1>7 DEF Aligned
<1> QED BY <1>3, <1>4, <1>5, <1>7, <1>10

(* The address in an entry that epoll_wait filled in leads to the element  *)
(* the entry was made for, which is what getEvent reads                    *)
(* (selector_epoll.cpp:157-163).                                           *)
LEMMA GetEventFacts ==
  ASSUME TypeOK, Aligned, Standing, NEW k \in 1..walk.size
  PROVE  \E i \in 1..Len(selectables) :
           /\ evlist[k].reg = selectables[i]
           /\ getEvent(k - 1) = {[fd |-> selectables[i].fd, data |-> selectables[i].data,
                                  events |-> FromNative(evlist[k].events)]}
<1>1. PICK i \in 1..Len(selectables) :
        evlist[k].at = [buffer |-> buffer, slot |-> i] /\ evlist[k].reg = selectables[i]
  BY DEF Standing
<1>2. evlist[k].at.buffer = buffer /\ evlist[k].at.slot = i
  BY <1>1
<1>3. (selectables \o leftover)[i] = selectables[i]
  BY DEF TypeOK
<1>4. Target(evlist[k].at) = {selectables[i]}
  BY <1>2, <1>3 DEF Target
<1>5. (k - 1) + 1 = k
  BY DEF TypeOK
<1> QED BY <1>1, <1>4, <1>5 DEF getEvent

(* What a poll leaves in _evlist is right for a careful client.            *)
LEMMA PollStanding ==
  ASSUME Inv, Careful, Aligned, NEW cond \in [Fd -> Conditions], NEW fds \in Answers(cond), poll(cond, fds)
  PROVE  Aligned' /\ Standing' /\ EventAttributed'
<1>1. /\ UNCHANGED registry
      /\ walk'.phase = "test" /\ walk'.index = 0 /\ walk'.size = Len(fds)
  BY DEF poll
<1>2. Aligned'
  BY <1>1 DEF registry, Aligned
<1>3. /\ Len(fds) \in Nat
      /\ evlist' \in Seq(Entry) /\ Len(evlist') = Len(fds)
      /\ \A k \in 1..Len(fds) :
           /\ fds[k] \in ReadyFds(cond) /\ fds[k] \in DOMAIN interest
           /\ evlist'[k].at = interest[fds[k]].at
           /\ evlist'[k].reg = interest[fds[k]].reg
           /\ evlist'[k].reg.fd = fds[k]
      /\ \A k, l \in 1..Len(fds) : fds[k] = fds[l] => k = l
  BY PollFacts, Zenon
<1>4. ASSUME NEW k \in 1..Len(fds)
      PROVE  \E i \in 1..Len(selectables) :
               evlist'[k].at = [buffer |-> buffer, slot |-> i] /\ evlist'[k].reg = selectables[i]
  <2>1. PICK i \in 1..Len(selectables) : selectables[i] = interest[fds[k]].reg
    BY <1>3 DEF Inv, WatchedIsListed
  <2>2. selectables[i].fd = fds[k]
    BY <1>3, <2>1
  <2>3. interest[fds[k]].at.buffer = buffer /\ interest[fds[k]].at.slot = i
    BY <1>3, <2>2 DEF Aligned, poll, MayPoll, Keeps, Careful
  <2>4. interest[fds[k]].at \in [buffer : Nat, slot : Nat]
    BY <1>3 DEF Inv, TypeOK, Entry
  <2> QED BY <1>3, <2>1, <2>3, <2>4
<1>5. Standing'
  <2>1. /\ walk'.index <= walk'.size /\ walk'.size <= Len(evlist')
        /\ walk'.phase \notin {"idle", "interrupted", "body"}
    BY <1>1, <1>3
  <2>2. \A k \in 1..walk'.size : \E i \in 1..Len(selectables') :
          evlist'[k].at = [buffer |-> buffer', slot |-> i] /\ evlist'[k].reg = selectables'[i]
    BY <1>1, <1>4 DEF registry
  <2>3. \A k, l \in 1..walk'.size : evlist'[k].reg.fd = evlist'[l].reg.fd => k = l
    BY <1>1, <1>3
  <2> QED BY <2>1, <2>2, <2>3 DEF Standing
<1> QED BY <1>1, <1>2, <1>5 DEF EventAttributed

(* A client does not change its habits.                                    *)
LEMMA SameClient == [Next]_vars => slips' = slips
<1> SUFFICES ASSUME [Next]_vars PROVE slips' = slips
  OBVIOUS
<1>1. ASSUME NEW fd \in Fd, NEW events, NEW data, add(fd, events, data) PROVE slips' = slips
  BY <1>1 DEF add
<1>2. ASSUME NEW fd \in Fd, remove(fd) \/ Close(fd) \/ Open(fd) PROVE slips' = slips
  BY <1>2 DEF remove, Close, Open
<1>3. ASSUME NEW cond, NEW fds, poll(cond, fds) PROVE slips' = slips
  BY <1>3 DEF poll, registry
<1>4. CASE pollInterrupted \/ Dereference \/ ReachEnd \/ Increment \/ Break \/ UNCHANGED vars
  BY <1>4 DEF pollInterrupted, Dereference, ReachEnd, Increment, Break, vars, registry
<1> QED BY <1>1, <1>2, <1>3, <1>4 DEF Next

(* Every step of a careful client keeps the addresses in the kernel right. *)
LEMMA NextCareful == Inv /\ CarefulInv /\ [Next]_vars => CarefulInv'
<1> SUFFICES ASSUME Inv, CarefulInv, [Next]_vars, Careful
             PROVE  Aligned' /\ Standing' /\ EventAttributed'
  BY SameClient DEF CarefulInv, Careful
<1>0. Aligned /\ Standing /\ EventAttributed /\ TypeOK /\ TypeOK'
  BY NextInv DEF CarefulInv, Inv
<1>a. MayEdit => walk.phase = "idle"
  BY DEF MayEdit, Keeps, Careful
<1>1. ASSUME NEW fd \in Fd, NEW events \in Interests, NEW data \in Data, add(fd, events, data)
      PROVE  Aligned' /\ Standing' /\ EventAttributed'
  <2>1. walk.phase = "idle" /\ walk' = walk
    BY <1>1, <1>a DEF add
  <2>2. Aligned'
    BY <1>0, <1>1, AddAligned
  <2>3. walk.index <= walk.size /\ walk.size = 0 /\ Len(evlist') \in Nat /\ ready' = {}
    BY <1>0, <1>1, <2>1 DEF Standing, TypeOK, add
  <2> QED BY <2>1, <2>2, <2>3 DEF Standing, EventAttributed
<1>2. ASSUME NEW fd \in Fd, remove(fd)
      PROVE  Aligned' /\ Standing' /\ EventAttributed'
  <2>1. walk.phase = "idle" /\ walk' = walk
    BY <1>2, <1>a DEF remove
  <2>2. Aligned'
    BY <1>0, <1>2, RemoveAligned
  <2>3. walk.index <= walk.size /\ walk.size = 0 /\ Len(evlist') \in Nat /\ ready' = {}
    BY <1>0, <1>2, <2>1 DEF Standing, TypeOK, remove
  <2> QED BY <2>1, <2>2, <2>3 DEF Standing, EventAttributed
<1>3. ASSUME NEW cond \in [Fd -> Conditions], NEW fds \in Answers(cond), poll(cond, fds)
      PROVE  Aligned' /\ Standing' /\ EventAttributed'
  BY <1>0, <1>3, PollStanding
<1>4. CASE pollInterrupted
  <2>1. /\ UNCHANGED <<registry, evlist>>
        /\ walk'.phase = "interrupted" /\ walk'.index = 0 /\ walk'.size = 0
    BY <1>4 DEF pollInterrupted
  <2>2. Len(evlist) \in Nat
    BY <1>0 DEF TypeOK
  <2> QED BY <1>0, <2>1, <2>2 DEF registry, Aligned, Standing, EventAttributed
<1>5. CASE Dereference
  <2>1. /\ UNCHANGED <<registry, evlist>>
        /\ walk'.phase = "body" /\ walk'.index = walk.index /\ walk'.size = walk.size
    BY <1>0, <1>5 DEF Dereference, TypeOK
  <2>2. walk.index < walk.size
    BY <1>0, <1>5 DEF Dereference, Standing, TypeOK
  <2>3. walk.index + 1 \in 1..walk.size /\ (walk.index + 1) - 1 = walk.index
    BY <1>0, <2>2 DEF TypeOK
  <2>4. PICK i \in 1..Len(selectables) :
          /\ evlist[walk.index + 1].reg = selectables[i]
          /\ getEvent(walk.index) = {[fd |-> selectables[i].fd, data |-> selectables[i].data,
                                      events |-> FromNative(evlist[walk.index + 1].events)]}
    BY <1>0, <2>3, GetEventFacts
  <2>5. event'.fd = selectables[i].fd /\ event'.data = selectables[i].data /\ origin' = selectables[i]
    BY <1>5, <2>4 DEF Dereference
  <2> QED BY <1>0, <2>1, <2>2, <2>5 DEF registry, Aligned, Standing, EventAttributed
<1>6. CASE ReachEnd \/ Break
  <2>1. UNCHANGED registry /\ walk'.phase = "idle" /\ walk'.index = 0 /\ walk'.size = 0 /\ ready' = {}
    BY <1>6 DEF ReachEnd, Break, Idle
  <2>2. Aligned'
    BY <1>0, <2>1 DEF registry, Aligned
  <2>3. Len(evlist') \in Nat
    BY <1>0 DEF TypeOK
  <2> QED BY <2>1, <2>2, <2>3 DEF Standing, EventAttributed
<1>7. CASE Increment
  <2>1. /\ UNCHANGED <<registry, evlist>>
        /\ walk'.phase = "test" /\ walk'.index = walk.index + 1 /\ walk'.size = walk.size
    BY <1>0, <1>7 DEF Increment, TypeOK
  <2>2. walk.index + 1 <= walk.size
    BY <1>0, <1>7 DEF Increment, Standing, TypeOK
  <2>3. Aligned'
    BY <1>0, <2>1 DEF registry, Aligned
  <2>4. Standing'
    BY <1>0, <2>1, <2>2 DEF registry, Standing
  <2> QED BY <2>1, <2>3, <2>4 DEF EventAttributed
<1>8. ASSUME NEW fd \in Fd, Close(fd)
      PROVE  Aligned' /\ Standing' /\ EventAttributed'
  <2>1. /\ fd \notin DOMAIN interest
        /\ UNCHANGED <<selectables, capacity, buffer, evlist, walk, event, origin, ready>>
        /\ DOMAIN interest' = DOMAIN interest
        /\ \A f \in DOMAIN interest : interest'[f] = interest[f]
    BY <1>8 DEF Close, MayClose, Keeps, Careful
  <2> QED BY <1>0, <2>1 DEF Aligned, Standing, EventAttributed
<1>9. ASSUME NEW fd \in Fd, Open(fd)
      PROVE  Aligned' /\ Standing' /\ EventAttributed'
  BY <1>0, <1>9 DEF Open, Aligned, Standing, EventAttributed
<1>10. CASE UNCHANGED vars
  BY <1>0, <1>10 DEF vars, registry, Aligned, Standing, EventAttributed
<1> QED
  BY <1>1, <1>2, <1>3, <1>4, <1>5, <1>6, <1>7, <1>8, <1>9, <1>10 DEF Next

(* In a new selector nothing is registered (selector_epoll.cpp:67-76).     *)
LEMMA InitCareful == Init => CarefulInv
<1> SUFFICES ASSUME Init PROVE Aligned /\ Standing /\ EventAttributed
  BY DEF CarefulInv
<1>1. Len(selectables) = 0 /\ Len(evlist) = 0
  BY DEF Init
<1>2. walk.phase = "idle" /\ walk.index = 0 /\ walk.size = 0 /\ ready = {}
  BY DEF Init, Idle
<1> QED BY <1>1, <1>2 DEF Aligned, Standing, EventAttributed

(* Every event a careful client is handed is that of the registration it   *)
(* was raised for: its address in the kernel still leads to it             *)
(* (selector_epoll.cpp:157-163).                                           *)
THEOREM EPollAttributes == Spec => [](Careful => EventAttributed)
<1>1. Inv /\ CarefulInv /\ [Next]_vars => Inv' /\ CarefulInv'
  BY NextInv, NextCareful
<1>2. CarefulInv => (Careful => EventAttributed)
  BY DEF CarefulInv
<1> QED BY <1>1, <1>2, InitInv, InitCareful, PTL DEF Spec
-----------------------------------------------------------------------------
(* Refinement                                                              *)

(* Between walks nothing is owed.                                          *)
LEMMA OwedWhileIdle ==
  ASSUME TypeOK, walk.phase = "idle", walk.size = 0
  PROVE  Owed = {}
<1>1. Len(evlist) \in Nat
  BY DEF TypeOK
<1>2. (Len(evlist) + 1)..walk.size = {}
  BY <1>1
<1> QED BY <1>2 DEF Owed

(* A client that is not careful is promised nothing.                       *)
LEMMA CarelessStutters ==
  ASSUME ~Careful, slips' = slips
  PROVE  UNCHANGED Abstract!selectorVars
<1>1. ~Careful'
  BY DEF Careful
<1>2. Registrations = <<>> /\ Registrations' = <<>> /\ Reported = <<>> /\ Reported' = <<>>
  BY <1>1 DEF Registrations, Reported
<1>3. Owed = {} /\ Owed' = {} /\ Found = {} /\ Found' = {}
  BY <1>2 DEF Owed, Found
<1>4. Stage' = Stage
  BY <1>1 DEF Stage
<1> QED BY <1>2, <1>3, <1>4 DEF Abstract!selectorVars

(* A new selector is an abstract selector without registrations.           *)
LEMMA InitRefines == Init => Abstract!Init
<1> SUFFICES ASSUME Init PROVE Abstract!Init
  OBVIOUS
<1>1. TypeOK /\ walk.phase = "idle" /\ walk.size = 0
  BY InitInv DEF Inv, Init, Idle
<1>2. Owed = {}
  BY <1>1, OwedWhileIdle
<1>3. Registrations = <<>> /\ Reported = <<>>
  BY DEF Init, Registrations, Reported
<1>4. Found = {} /\ Stage = "idle"
  BY <1>1, <1>3 DEF Init, Found, Stage
<1> QED BY <1>2, <1>3, <1>4 DEF Abstract!Init

(* add is the abstract Add.                                                *)
LEMMA AddRefines ==
  ASSUME Inv, Inv', CarefulInv, CarefulInv', Careful, Careful',
         NEW fd \in Fd, NEW events \in Interests, NEW data \in Data, add(fd, events, data)
  PROVE  Abstract!Next
<1> DEFINE n == Len(selectables)
           reg == [fd |-> fd, data |-> data, events |-> ToNative(events)]
           view(i) == [fd |-> selectables[i].fd, data |-> selectables[i].data,
                       events |-> interest[selectables[i].fd].events]
           view2(i) == [fd |-> selectables'[i].fd, data |-> selectables'[i].data,
                        events |-> interest'[selectables'[i].fd].events]
<1>0. TypeOK /\ TypeOK' /\ Aligned /\ Standing /\ n \in Nat
  BY DEF Inv, TypeOK, CarefulInv
<1>1. reg \in Abstract!Registration
  BY DEF Abstract!Registration, Masks
<1>2. walk.phase = "idle" /\ walk' = walk /\ walk.size = 0 /\ event' = event /\ ready = {} /\ ready' = {}
  BY <1>0 DEF add, MayEdit, Keeps, Careful, Standing
<1>2a. Found = {} /\ Found' = {} /\ Stage = "idle" /\ Stage' = "idle"
  BY <1>2 DEF Found, Stage
<1>3. Owed = {} /\ Owed' = {}
  <2>1. Owed = {}
    BY <1>0, <1>2, OwedWhileIdle
  <2>2. Len(evlist') \in Nat /\ (Len(evlist') + 1)..walk'.size = {}
    BY <1>0, <1>2 DEF TypeOK
  <2> QED BY <1>2, <2>1, <2>2 DEF Owed
<1>4. /\ Len(selectables') = n + 1
      /\ selectables'[n + 1] = [fd |-> fd, data |-> data]
      /\ \A i \in 1..n : /\ selectables'[i] = selectables[i]
                         /\ interest'[selectables[i].fd] = interest[selectables[i].fd]
      /\ interest'[fd].events = ToNative(events)
  BY <1>0, AddAligned
<1>5. view2(n + 1) = reg /\ \A i \in 1..n : view2(i) = view(i)
  BY <1>4
<1>6. Registrations = [i \in 1..n |-> view(i)]
  BY DEF Registrations
<1>7. Registrations' = [i \in 1..(n + 1) |-> view2(i)]
  BY <1>4 DEF Registrations
<1> HIDE DEF view, view2, n, reg
<1>8. Append(Registrations, reg) = [i \in 1..(n + 1) |-> IF i = n + 1 THEN reg ELSE view(i)]
  BY <1>0, <1>6
<1>9. \A i \in 1..(n + 1) : view2(i) = IF i = n + 1 THEN reg ELSE view(i)
  BY <1>0, <1>5
<1>10. Registrations' = Append(Registrations, reg)
  BY <1>7, <1>8, <1>9
<1>11. Reported' = Reported
  BY <1>2 DEF Reported
<1> QED
  BY <1>1, <1>2a, <1>3, <1>10, <1>11 DEF Abstract!Add, Abstract!Next

(* remove is the abstract Remove.                                          *)
LEMMA RemoveRefines ==
  ASSUME Inv, Inv', CarefulInv, CarefulInv', Careful, Careful', NEW fd \in Fd, remove(fd)
  PROVE  Abstract!Next
<1> DEFINE n == Len(selectables)
           view(i) == [fd |-> selectables[i].fd, data |-> selectables[i].data,
                       events |-> interest[selectables[i].fd].events]
           view2(i) == [fd |-> selectables'[i].fd, data |-> selectables'[i].data,
                        events |-> interest'[selectables'[i].fd].events]
           X == {view(i) : i \in 1..n}
           S == Survivors(Registrations, fd)
<1>0. TypeOK /\ TypeOK' /\ Aligned /\ Standing /\ n \in Nat
  BY DEF Inv, TypeOK, CarefulInv
<1>2. walk.phase = "idle" /\ walk' = walk /\ walk.size = 0 /\ event' = event /\ ready = {} /\ ready' = {}
  BY <1>0 DEF remove, MayEdit, Keeps, Careful, Standing
<1>2a. Found = {} /\ Found' = {} /\ Stage = "idle" /\ Stage' = "idle"
  BY <1>2 DEF Found, Stage
<1>3. Owed = {} /\ Owed' = {}
  <2>1. Owed = {}
    BY <1>0, <1>2, OwedWhileIdle
  <2>2. Len(evlist') \in Nat /\ (Len(evlist') + 1)..walk'.size = {}
    BY <1>0, <1>2 DEF TypeOK
  <2> QED BY <1>2, <2>1, <2>2 DEF Owed
<1>4. /\ n \in Nat \ {0} /\ Len(selectables') = n - 1
      /\ \A i \in 1..n : selectables[i].fd = fd <=> i = n
      /\ \A i \in 1..(n - 1) : /\ selectables'[i] = selectables[i]
                               /\ interest'[selectables[i].fd] = interest[selectables[i].fd]
  BY <1>0, RemoveAligned
<1>5. \A i \in 1..(n - 1) : view2(i) = view(i)
  BY <1>4
<1>6. Registrations = [i \in 1..n |-> view(i)] /\ \A i \in 1..n : view(i).fd = selectables[i].fd
  BY DEF Registrations
<1>7. Registrations' = [i \in 1..(n - 1) |-> view2(i)]
  BY <1>4 DEF Registrations
<1> HIDE DEF view, view2, n
<1>8. Registrations \in Seq(X) /\ Len(Registrations) = n /\ Registrations # <<>>
  BY <1>4, <1>6
<1>9. \A i \in 1..n : Registrations[i].fd = fd <=> i = n
  BY <1>4, <1>6
<1> HIDE DEF X
<1>10. S = 1..(n - 1) /\ \A i \in 1..(n - 1) : Nth(S, i) = i
  BY <1>8, <1>9, EraseLast
<1>11. Cardinality(S) = n - 1
  BY <1>4, <1>10, FS_Interval
<1>12. Erase(Registrations, fd) = [k \in 1..Cardinality(S) |-> Registrations[Nth(S, k)]]
  BY DEF Erase, Pack
<1>13. \A i \in 1..(n - 1) : Registrations[Nth(S, i)] = view2(i)
  BY <1>4, <1>5, <1>6, <1>10
<1>14. Registrations' = Erase(Registrations, fd)
  <2> HIDE DEF S
  <2> QED BY <1>7, <1>11, <1>12, <1>13
<1>15. Reported' = Reported
  BY <1>2 DEF Reported
<1>16. Abstract!Erase(Registrations, fd) = Erase(Registrations, fd)
  BY DEF Abstract!Erase, Abstract!Pack, Abstract!Nth, Abstract!Survivors,
         Abstract!Cardinality, Abstract!IsFiniteSet,
         Erase, Pack, Nth, Survivors, Cardinality, IsFiniteSet
<1> QED
  BY <1>2a, <1>3, <1>14, <1>15, <1>16 DEF Abstract!Remove, Abstract!Next

(* The abstract selector counts as this module does.                       *)
LEMMA SameCardinality == \A S : Abstract!Cardinality(S) = Cardinality(S)
BY DEF Abstract!Cardinality, Abstract!IsFiniteSet, Cardinality, IsFiniteSet

(* poll is the abstract Poll: every ready registration is reported, or as  *)
(* many as _evlist has room for (selector_epoll.cpp:139-154).              *)
LEMMA PollRefines ==
  ASSUME Inv, CarefulInv, Careful, Careful',
         NEW cond \in [Fd -> Conditions], NEW fds \in Answers(cond), poll(cond, fds)
  PROVE  Abstract!Next
<1> DEFINE n == Len(selectables)
<1>0. TypeOK /\ Aligned /\ Standing /\ n \in Nat
  BY DEF Inv, TypeOK, CarefulInv
<1>1. /\ UNCHANGED registry /\ event' = event /\ walk.phase = "idle" /\ walk.size = 0
      /\ walk'.phase = "test" /\ walk'.index = 0 /\ walk'.size = Len(fds)
  BY <1>0 DEF poll, Standing
<1>2. Registrations' = Registrations /\ Reported' = Reported
  BY <1>1 DEF registry, Registrations, Reported, Careful
<1>3. Owed = {}
  BY <1>0, <1>1, OwedWhileIdle
<1>4. Len(Registrations) = n /\ \A i \in 1..n :
        /\ Registrations[i].fd = selectables[i].fd
        /\ Registrations[i].events = interest[selectables[i].fd].events
  BY <1>0 DEF Registrations
<1>5. /\ \A k \in 1..Len(fds) : fds[k] \in ReadyFds(cond) /\ evlist'[k].reg.fd = fds[k]
      /\ Len(fds) \in Nat /\ \A k, l \in 1..Len(fds) : fds[k] = fds[l] => k = l
      /\ \/ Len(fds) = MaxEvents
         \/ \A fd \in ReadyFds(cond) : \E k \in 1..Len(fds) : fds[k] = fd
  BY PollFacts
<1>7. \A i \in 1..n : selectables[i].fd \in ReadyFds(cond)
                        <=> Abstract!Raised(Registrations[i], cond) # {}
  BY <1>0, <1>4 DEF Aligned, ReadyFds, Abstract!Raised
<1>8. Owed' = {i \in 1..n : \E k \in 1..Len(fds) : evlist'[k].reg.fd = selectables[i].fd}
  <2>1. selectables' = selectables /\ Len(Registrations') = n
    BY <1>1, <1>2, <1>4 DEF registry
  <2> HIDE DEF n
  <2> QED BY <1>1, <2>1 DEF Owed
<1>9. Found' = {i \in 1..n : selectables[i].fd \in ReadyFds(cond)}
  <2>1. ready' = ReadyFds(cond) /\ selectables' = selectables /\ Len(Registrations') = n
    BY <1>1, <1>2, <1>4 DEF poll, registry
  <2> HIDE DEF n
  <2> QED BY <2>1 DEF Found
<1>10. Found' = {i \in 1..Len(Registrations) : Abstract!Raised(Registrations[i], cond) # {}}
  <2> HIDE DEF n
  <2> QED BY <1>4, <1>7, <1>9
<1>11. Owed' \subseteq Found'
  BY <1>5, <1>8, <1>9
<1>12. ASSUME \A fd \in ReadyFds(cond) : \E k \in 1..Len(fds) : fds[k] = fd
       PROVE  Owed' = Found'
  <2> HIDE DEF n
  <2> QED BY <1>5, <1>8, <1>9, <1>11, <1>12
<1>13. ASSUME Len(fds) = MaxEvents
       PROVE  Abstract!Cardinality(Owed') = MaxEvents
  <2> DEFINE where == [k \in 1..Len(fds) |-> CHOOSE i \in 1..n : selectables[i] = interest[fds[k]].reg]
  <2>1. \A k \in 1..Len(fds) : /\ where[k] \in 1..n
                               /\ selectables[where[k]].fd = fds[k]
    <3> SUFFICES ASSUME NEW k \in 1..Len(fds)
                 PROVE  where[k] \in 1..n /\ selectables[where[k]].fd = fds[k]
      OBVIOUS
    <3>1. fds[k] \in DOMAIN interest
      BY <1>5 DEF ReadyFds
    <3>2. \E i \in 1..n : selectables[i] = interest[fds[k]].reg
      BY <3>1 DEF Inv, WatchedIsListed
    <3>3. where[k] \in 1..n /\ selectables[where[k]] = interest[fds[k]].reg
      BY <3>2
    <3>4. interest[fds[k]].reg.fd = fds[k]
      BY <3>1 DEF Inv, TypeOK
    <3> QED BY <3>3, <3>4
  <2> HIDE DEF where, n
  <2>2. where \in [1..Len(fds) -> Owed']
    <3>1. DOMAIN where = 1..Len(fds) /\ where = [k \in 1..Len(fds) |-> where[k]]
      BY DEF where
    <3>2. \A k \in 1..Len(fds) : where[k] \in Owed'
      BY <1>5, <1>8, <2>1
    <3> QED BY <3>1, <3>2
  <2>3. \A k, l \in 1..Len(fds) : where[k] = where[l] => k = l
    BY <1>5, <2>1
  <2>4. \A i \in Owed' : \E k \in 1..Len(fds) : where[k] = i
    <3> SUFFICES ASSUME NEW i \in Owed' PROVE \E k \in 1..Len(fds) : where[k] = i
      OBVIOUS
    <3>1. PICK k \in 1..Len(fds) : i \in 1..n /\ fds[k] = selectables[i].fd
      BY <1>5, <1>8
    <3>2. where[k] = i
      BY <1>0, <2>1, <3>1, DistinctFds DEF n
    <3> QED BY <3>2
  <2>5. where \in Bijection(1..Len(fds), Owed')
    BY <2>2, <2>3, <2>4, Fun_IsBij
  <2>6. Cardinality(Owed') = Len(fds)
    BY <1>5, <2>5, FS_CountingElements DEF ExistsBijection
  <2> QED BY <1>13, <2>6, SameCardinality
<1>14. Owed' \in Abstract!Reportable(Found')
  BY <1>5, <1>11, <1>12, <1>13 DEF Abstract!Reportable
<1>15. Stage = "idle" /\ Stage' = "test"
  BY <1>1 DEF Stage
<1> HIDE DEF n
<1> QED
  BY <1>2, <1>10, <1>14, <1>15 DEF Abstract!Poll, Abstract!Next

(* Three interruptions in a row are the abstract Interrupted.              *)
LEMMA InterruptedRefines ==
  ASSUME Inv, CarefulInv, Careful, Careful', pollInterrupted
  PROVE  Abstract!Next
<1>0. TypeOK /\ Standing
  BY DEF Inv, CarefulInv
<1>1. /\ UNCHANGED <<registry, evlist, event, ready>> /\ walk.phase = "idle" /\ walk.size = 0
      /\ walk'.phase = "interrupted" /\ walk'.index = 0 /\ walk'.size = 0
  BY <1>0 DEF pollInterrupted, Standing
<1>2. Owed = {}
  BY <1>0, <1>1, OwedWhileIdle
<1>3. Owed' = {}
  <2>1. Len(evlist') \in Nat
    BY <1>0, <1>1 DEF TypeOK
  <2>2. (Len(evlist') + 1)..walk'.size = {}
    BY <1>1, <2>1
  <2> QED BY <1>1, <2>2 DEF Owed
<1>4. Registrations' = Registrations /\ Reported' = Reported
  BY <1>1 DEF registry, Registrations, Reported, Careful
<1>5. Found' = Found /\ Stage = "idle" /\ Stage' = "interrupted"
  BY <1>1, <1>4 DEF registry, Found, Stage
<1> QED
  BY <1>2, <1>3, <1>4, <1>5 DEF Abstract!Interrupted, Abstract!Next

(* Dereferencing the iterator is the abstract Deliver of the registration  *)
(* the entry is about (selector_epoll.cpp:157-163, selector.cpp:35-42).    *)
LEMMA DereferenceRefines ==
  ASSUME Inv, CarefulInv, Careful, Careful', Dereference
  PROVE  Abstract!Next
<1> DEFINE n == Len(selectables)
           k == walk.index + 1
<1>0. /\ TypeOK /\ Aligned /\ Standing /\ n \in Nat
      /\ walk.index \in Nat /\ walk.size \in Nat /\ walk.phase = "test"
  BY DEF Inv, TypeOK, CarefulInv, Dereference
<1>1. /\ UNCHANGED <<registry, evlist>>
      /\ walk'.phase = "body" /\ walk'.index = walk.index /\ walk'.size = walk.size
  BY <1>0 DEF Dereference, TypeOK
<1>2. k \in 1..walk.size /\ k - 1 = walk.index /\ walk.index + 2 = k + 1
  BY <1>0 DEF Dereference, Standing
<1>3. PICK i \in 1..n :
        /\ evlist[k].reg = selectables[i]
        /\ getEvent(walk.index) = {[fd |-> selectables[i].fd, data |-> selectables[i].data,
                                    events |-> FromNative(evlist[k].events)]}
  <2>1. \E i \in 1..n :
          /\ evlist[k].reg = selectables[i]
          /\ getEvent(k - 1) = {[fd |-> selectables[i].fd, data |-> selectables[i].data,
                                 events |-> FromNative(evlist[k].events)]}
    BY <1>0, <1>2, GetEventFacts
  <2> QED BY <1>2, <2>1
<1>4. event' = [fd |-> selectables[i].fd, data |-> selectables[i].data,
                events |-> FromNative(evlist[k].events)]
  BY <1>3 DEF Dereference
<1>5. Registrations' = Registrations
  BY <1>1 DEF registry, Registrations, Careful
<1>6. Len(Registrations) = n /\ Registrations[i].fd = selectables[i].fd
      /\ Registrations[i].data = selectables[i].data
  BY <1>0 DEF Registrations
<1>7. Reported' = [fd |-> Registrations[i].fd, data |-> Registrations[i].data]
  BY <1>4, <1>6 DEF Reported
<1>8. Owed = {j \in 1..n : \E l \in k..walk.size : evlist[l].reg.fd = selectables[j].fd}
  <2> HIDE DEF n
  <2> QED BY <1>0, <1>6 DEF Owed
<1>9. Owed' = {j \in 1..n : \E l \in (k + 1)..walk.size : evlist[l].reg.fd = selectables[j].fd}
  <2>1. Len(Registrations') = n /\ selectables' = selectables /\ evlist' = evlist
    BY <1>1, <1>5, <1>6 DEF registry
  <2> HIDE DEF n
  <2> QED BY <1>1, <1>2, <2>1 DEF Owed
<1>10. evlist[k].reg.fd = selectables[i].fd
  BY <1>3
<1>11. \A l \in (k + 1)..walk.size : evlist[l].reg.fd # selectables[i].fd
  <2> SUFFICES ASSUME NEW l \in (k + 1)..walk.size, evlist[l].reg.fd = selectables[i].fd PROVE FALSE
    OBVIOUS
  <2>1. l \in 1..walk.size /\ l # k
    BY <1>0, <1>2
  <2> QED BY <1>0, <1>2, <1>10, <2>1 DEF Standing
<1>12. \A j \in 1..n : evlist[k].reg.fd = selectables[j].fd => j = i
  BY <1>0, <1>10, DistinctFds
<1>13. \A l : l \in k..walk.size <=> l = k \/ l \in (k + 1)..walk.size
  BY <1>0, <1>2
<1>14. i \in Owed /\ Owed' = Owed \ {i}
  <2> HIDE DEF n, k
  <2>1. i \in Owed
    BY <1>8, <1>10, <1>13
  <2>2. \A j \in 1..n : j # i =>
          ((\E l \in k..walk.size : evlist[l].reg.fd = selectables[j].fd)
             <=> (\E l \in (k + 1)..walk.size : evlist[l].reg.fd = selectables[j].fd))
    BY <1>12, <1>13
  <2>3. i \notin Owed'
    BY <1>9, <1>11
  <2> QED BY <1>8, <1>9, <2>1, <2>2, <2>3
<1>15. Stage = "test" /\ Stage' = "body" /\ Found' = Found
  BY <1>0, <1>1, <1>5 DEF Dereference, registry, Found, Stage
<1> QED
  BY <1>5, <1>7, <1>14, <1>15 DEF Abstract!Deliver, Abstract!Next

(* Incrementing the iterator is the abstract Continue: the next entry is   *)
(* the next one owed (selector_epoll.cpp:178).                             *)
LEMMA IncrementRefines ==
  ASSUME Inv, CarefulInv, Careful, Careful', Increment
  PROVE  Abstract!Next
<1>1. /\ UNCHANGED <<registry, evlist, event, ready>>
      /\ walk.phase = "body" /\ walk.index \in Nat
      /\ walk'.phase = "test" /\ walk'.index = walk.index + 1 /\ walk'.size = walk.size
  BY DEF Inv, TypeOK, Increment
<1>2. Registrations' = Registrations /\ Reported' = Reported
  BY <1>1 DEF registry, Registrations, Reported, Careful
<1>3. (walk.index + 1) + 1 = walk.index + 2
  BY <1>1
<1>4. selectables' = selectables /\ evlist' = evlist
  BY <1>1 DEF registry
<1>5. Owed' = Owed
  BY <1>1, <1>2, <1>3, <1>4 DEF Owed
<1>6. Stage = "body" /\ Stage' = "test" /\ Found' = Found
  BY <1>1, <1>2, <1>4 DEF Found, Stage
<1> QED BY <1>2, <1>5, <1>6 DEF Abstract!Continue, Abstract!Next

(* Meeting the end of the loop is the abstract End: from an iterator at    *)
(* the end of what epoll_wait filled in, no event is due any more; a break *)
(* is the abstract Leave.                                                  *)
LEMMA LeaveRefines ==
  ASSUME Inv, Inv', CarefulInv, Careful, Careful', ReachEnd \/ Break
  PROVE  Abstract!Next
<1>1. UNCHANGED <<registry, event>> /\ walk'.phase = "idle" /\ walk'.size = 0 /\ ready' = {}
  BY DEF ReachEnd, Break, Idle
<1>2. Owed' = {}
  <2>1. Len(evlist') \in Nat
    BY DEF Inv, TypeOK
  <2>2. (Len(evlist') + 1)..walk'.size = {}
    BY <1>1, <2>1
  <2> QED BY <1>1, <2>2 DEF Owed
<1>3. Registrations' = Registrations /\ Reported' = Reported
  BY <1>1 DEF registry, Registrations, Reported, Careful
<1>4. Found' = {} /\ Stage' = "idle"
  BY <1>1 DEF Found, Stage
<1>5. CASE Break
  <2>1. Stage = "body"
    BY <1>5 DEF Break, Stage
  <2> QED BY <1>2, <1>3, <1>4, <2>1 DEF Abstract!Leave, Abstract!Next
<1>6. CASE ReachEnd
  <2>1. /\ walk.index = walk.size /\ walk.index \in Nat /\ walk.size \in Nat
        /\ walk.phase \in {"test", "interrupted"} /\ Len(evlist) \in Nat
        /\ walk.phase = "interrupted" => walk.size = 0
    BY <1>6 DEF ReachEnd, Inv, TypeOK, CarefulInv, Standing
  <2>2. Stage \in {"test", "interrupted"}
    BY <2>1 DEF Stage
  <2>3. Owed = {}
    <3>1. CASE walk.phase = "test"
      <4>1. (walk.index + 1)..walk.size = {}
        BY <2>1
      <4> QED BY <3>1, <4>1 DEF Owed
    <3>2. CASE walk.phase = "interrupted"
      <4>1. (Len(evlist) + 1)..walk.size = {}
        BY <2>1, <3>2
      <4> QED BY <3>2, <4>1 DEF Owed
    <3> QED BY <2>1, <3>1, <3>2
  <2> QED BY <1>2, <1>3, <1>4, <2>2, <2>3 DEF Abstract!End, Abstract!Next
<1> QED BY <1>5, <1>6

(* What the rest of the process opens and closes is no business of a       *)
(* selector that does not watch it.                                        *)
LEMMA OpenCloseRefines ==
  ASSUME Inv, CarefulInv, Careful, Careful', NEW fd \in Fd, Close(fd) \/ Open(fd)
  PROVE  UNCHANGED Abstract!selectorVars
<1>0. Aligned
  BY DEF CarefulInv
<1>1. /\ UNCHANGED <<selectables, evlist, walk, event, ready>>
      /\ \A f \in DOMAIN interest : interest'[f] = interest[f]
  BY DEF Close, Open, MayClose, Keeps, Careful
<1>2. \A i \in 1..Len(selectables) : interest'[selectables[i].fd] = interest[selectables[i].fd]
  BY <1>0, <1>1 DEF Aligned
<1>3. Registrations' = Registrations
  BY <1>1, <1>2 DEF Registrations
<1>4. Owed' = Owed /\ Reported' = Reported /\ Found' = Found /\ Stage' = Stage
  BY <1>1, <1>3 DEF Owed, Reported, Found, Stage, Careful
<1> QED BY <1>3, <1>4 DEF Abstract!selectorVars

(* For a careful client - one that removes the newest registration first,  *)
(* registers everything again after it has grown past the reserved         *)
(* capacity, adds and closes only what epoll_ctl accepts, and leaves the   *)
(* selector alone inside the loop - the selector over epoll(7) implements  *)
(* the same abstract selector as the one over poll(2): one event for every *)
(* ready registration, or for as many of them as _evlist has room for,     *)
(* with its descriptor and data (selector_epoll.cpp).                      *)
THEOREM EPollImplementsSelector == Spec => ImplementsSelector
<1>1. Inv /\ CarefulInv /\ [Next]_vars => Inv' /\ CarefulInv'
  BY NextInv, NextCareful
<1>2. Inv /\ CarefulInv /\ [Next]_vars => [Abstract!Next]_(Abstract!selectorVars)
  <2> SUFFICES ASSUME Inv, CarefulInv, [Next]_vars, Inv', CarefulInv', slips' = slips
               PROVE  Abstract!Next \/ UNCHANGED Abstract!selectorVars
    BY <1>1, SameClient
  <2>1. CASE ~Careful
    BY <2>1, CarelessStutters
  <2>2. CASE Careful /\ UNCHANGED vars
    BY <2>2 DEF vars, registry, Abstract!selectorVars, Registrations, Found, Owed, Reported, Stage, Careful
  <2>3. CASE Careful /\ Next
    <3>1. Careful'
      BY <2>3 DEF Careful
    <3> QED
      BY <2>3, <3>1, AddRefines, RemoveRefines, PollRefines, InterruptedRefines,
         DereferenceRefines, IncrementRefines, LeaveRefines, OpenCloseRefines DEF Next
  <2> QED
    BY <2>1, <2>2, <2>3
<1> QED
  BY InitInv, InitCareful, InitRefines, <1>1, <1>2, PTL DEF Spec, ImplementsSelector, Abstract!Spec
=============================================================================
