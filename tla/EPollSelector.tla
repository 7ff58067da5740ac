---------------------------- MODULE EPollSelector ----------------------------
(***************************************************************************)
(* The selector over epoll(7): class EPollSelectorImpl                     *)
(* (src/src/io/selector_epoll.cpp) with the Selector::Iterator over it.    *)
(*                                                                         *)
(* The kernel keeps, for each registered descriptor, the address of an     *)
(* element of the vector _selectables, and getEvent follows that address   *)
(* when the client dereferences the iterator.  An address is modelled as a *)
(* buffer (a new one with every reallocation) and a slot in it: erasing an *)
(* element moves the ones after it to other slots, and growing past the    *)
(* capacity moves all of them to another buffer, but the addresses in the  *)
(* kernel stay.                                                            *)
(***************************************************************************)
EXTENDS Vector

CONSTANTS
  Fd,           \* descriptor numbers
  Data,         \* values of the client's void* data
  Conditions,   \* sets of native bits the kernel may find raised on a descriptor
  Interests,    \* sets of Selector::Events a client asks for
  MaxEvents,    \* maxReportedEvents: the capacity reserved, and the length of _evlist
  MaxEntries,   \* bound: entries of _selectables
  MaxBuffers,   \* bound: reallocations of _selectables
  Habits        \* what a client may be like: sets of the rules below that it breaks

Native == {"EPOLLIN", "EPOLLOUT", "EPOLLERR", "EPOLLHUP"}

(* epoll reports these bits whether asked for or not.                      *)
AlwaysReported == {"EPOLLERR", "EPOLLHUP"}

Events == {"Read", "Write", "Error", "Hup"}

ASSUME EPollAssumption ==
  /\ Conditions \subseteq SUBSET Native
  /\ Interests \subseteq SUBSET Events
  /\ MaxEvents \in Nat \ {0}
  /\ MaxEntries \in Nat
  /\ MaxBuffers \in Nat
  /\ Habits \subseteq SUBSET {"order", "capacity", "failure", "edit"}

VARIABLES
  slips,        \* the rules this client breaks
  opened,       \* descriptors the process has open
  interest,     \* the kernel's interest list: descriptor -> [at, reg, events]
  selectables,  \* _selectables, [fd, data]
  leftover,     \* what the slots past its end still hold
  capacity,     \* its capacity
  buffer,       \* which allocation its elements live in
  evlist,       \* _evlist as epoll_wait filled it: [at, reg, events]
  walk,         \* the client's Iterator: [phase, index, size]
  event,        \* the Event the loop body was last given, <<>> before the first
  origin,       \* the registration that event really belongs to
  ready         \* descriptors the epoll_wait of this walk found ready, room or not

registry == <<slips, opened, interest, selectables, leftover, capacity, buffer>>
vars == <<registry, evlist, walk, event, origin, ready>>

Selectable == [fd : Fd, data : Data]
(* In interest and evlist, reg is the registration that the kernel's entry *)
(* was made for; the code has no such field, it only has the address.      *)
Idle == [phase |-> "idle", index |-> 0, size |-> 0]

Init ==
  /\ slips \in Habits
  /\ opened = Fd
  /\ interest = <<>>
  /\ selectables = <<>>
  /\ leftover = <<>>
  /\ capacity = MaxEvents
  /\ buffer = 0
  /\ evlist = <<>>
  /\ walk = Idle
  /\ event = <<>>
  /\ origin = <<>>
  /\ ready = {}
-----------------------------------------------------------------------------
(* EPollSelectorImpl                                                       *)

ToNative(events) ==
  (IF "Read" \in events THEN {"EPOLLIN"} ELSE {})
    \cup (IF "Write" \in events THEN {"EPOLLOUT"} ELSE {})
    \cup (IF "Error" \in events THEN {"EPOLLERR"} ELSE {})
    \cup (IF "Hup" \in events THEN {"EPOLLHUP"} ELSE {})

FromNative(native) ==
  (IF "EPOLLIN" \in native THEN {"Read"} ELSE {})
    \cup (IF "EPOLLOUT" \in native THEN {"Write"} ELSE {})
    \cup (IF "EPOLLERR" \in native THEN {"Error"} ELSE {})
    \cup (IF "EPOLLHUP" \in native THEN {"Hup"} ELSE {})

(* The rules a careful client keeps: it removes the newest registration    *)
(* first (order); once _selectables has grown past its capacity, it        *)
(* removes all that was registered before and adds it again before it      *)
(* polls (capacity); it adds only descriptors that are open and not        *)
(* registered, and closes only ones that are not registered, so that       *)
(* epoll_ctl never fails (failure); and it leaves the selector alone       *)
(* inside a loop over its events (edit).                                   *)
Keeps(rule) == rule \notin slips
MayEdit == walk.phase = "idle" \/ (~Keeps("edit") /\ walk.phase = "body")
MayAdd(fd) == Keeps("failure") => fd \in opened \ DOMAIN interest
MayRemove(fd) ==
  /\ Keeps("failure") => fd \in DOMAIN interest
  /\ Keeps("order") => selectables # <<>> /\ selectables[Len(selectables)].fd = fd
MayPoll == Keeps("capacity") => \A fd \in DOMAIN interest : interest[fd].at.buffer = buffer
MayClose(fd) == Keeps("failure") => fd \notin DOMAIN interest

(* push_back: past the capacity the elements move to a new buffer.         *)
pushBack(entry) ==
  /\ selectables' = Append(selectables, entry)
  /\ IF Len(selectables) < capacity
     THEN /\ leftover' = IF leftover = <<>> THEN <<>> ELSE Tail(leftover)
          /\ UNCHANGED <<capacity, buffer>>
     ELSE /\ buffer < MaxBuffers
          /\ leftover' = <<>>
          /\ capacity' = 2 * capacity
          /\ buffer' = buffer + 1

(* addRaw: the vector first, then the kernel.  When epoll_ctl refuses (a   *)
(* descriptor already registered, or not open) IOException is raised and   *)
(* the new element stays.                                                  *)
addRaw(fd, nativeEvents, data) ==
  /\ pushBack([fd |-> fd, data |-> data])
  /\ interest' =
       IF fd \in opened \ DOMAIN interest
       THEN [f \in DOMAIN interest \cup {fd} |->
               IF f = fd
               THEN [at |-> [buffer |-> buffer', slot |-> Len(selectables')],
                     reg |-> [fd |-> fd, data |-> data],
                     events |-> nativeEvents]
               ELSE interest[f]]
       ELSE interest

add(fd, events, data) ==
  /\ MayEdit /\ MayAdd(fd)
  /\ Len(selectables) < MaxEntries
  /\ addRaw(fd, ToNative(events), data)
  /\ UNCHANGED <<slips, opened, evlist, walk, event, origin, ready>>

(* Variants of the code, here and below, are mistakes that the properties  *)
(* must notice: here the kernel is not told.                               *)
removeKeepsWatching(fd) ==
  /\ MayEdit /\ MayRemove(fd)
  /\ fd \in opened
  /\ selectables' = Erase(selectables, fd)
  /\ leftover' = SubSeq(selectables, Len(selectables') + 1, Len(selectables)) \o leftover
  /\ UNCHANGED <<slips, opened, interest, capacity, buffer, evlist, walk, event, origin, ready>>

(* remove: epoll_ctl fails with ENOENT for a descriptor that is not        *)
(* registered, which is ignored; with EBADF for one that is not open,      *)
(* which raises IOException before anything is erased.                     *)
remove(fd) ==
  /\ MayEdit /\ MayRemove(fd)
  /\ fd \in opened
  /\ interest' = [f \in DOMAIN interest \ {fd} |-> interest[f]]
  /\ selectables' = Erase(selectables, fd)
  /\ leftover' = SubSeq(selectables, Len(selectables') + 1, Len(selectables)) \o leftover
  /\ UNCHANGED <<slips, opened, capacity, buffer, evlist, walk, event, origin, ready>>

(* What epoll_wait fills in: up to MaxEvents of the ready descriptors, in  *)
(* the order they became ready.                                            *)
ReadyFds(cond) ==
  {fd \in DOMAIN interest : cond[fd] \cap (interest[fd].events \cup AlwaysReported) # {}}

(* poll: epoll_wait returned the descriptors fds[1], fds[2], ...           *)
poll(cond, fds) ==
  /\ walk.phase = "idle" /\ MayPoll
  /\ evlist' = [k \in 1..Len(fds) |->
       [interest[fds[k]] EXCEPT !.events = cond[fds[k]] \cap (@ \cup AlwaysReported)]]
  /\ walk' = [phase |-> "test", index |-> 0, size |-> Len(fds)]
  /\ ready' = ReadyFds(cond)
  /\ UNCHANGED <<registry, event, origin>>

(* Variant: room for one event less.                                       *)
AnswersShort(cond) ==
  LET Ready == ReadyFds(cond)
      n == IF Cardinality(Ready) < MaxEvents THEN Cardinality(Ready) ELSE MaxEvents - 1
  IN  {s \in [1..n -> Ready] : \A i, j \in 1..n : s[i] = s[j] => i = j}

Answers(cond) ==
  LET Ready == ReadyFds(cond)
      n == IF Cardinality(Ready) < MaxEvents THEN Cardinality(Ready) ELSE MaxEvents
  IN  {s \in [1..n -> Ready] : \A i, j \in 1..n : s[i] = s[j] => i = j}

(* poll: three interruptions in a row give the range that a timeout gives. *)
(* The phase keeps the two apart for the properties; the code does not.    *)
pollInterrupted ==
  /\ walk.phase = "idle" /\ MayPoll
  /\ walk' = [phase |-> "interrupted", index |-> 0, size |-> 0]
  /\ UNCHANGED <<registry, evlist, event, origin, ready>>

(* What following an address finds: what the slot holds, in use or not;    *)
(* and anything at all in a buffer that has been freed.                    *)
Target(at) ==
  IF at.buffer = buffer THEN {(selectables \o leftover)[at.slot]} ELSE Selectable

getEvent(i) ==
  {[fd |-> s.fd, data |-> s.data, events |-> FromNative(evlist[i + 1].events)] :
     s \in Target(evlist[i + 1].at)}
-----------------------------------------------------------------------------
(* Selector::Iterator and the loop over it                                 *)

Dereference ==
  /\ walk.phase = "test"
  /\ walk.index # walk.size
  /\ event' \in getEvent(walk.index)
  /\ origin' = evlist[walk.index + 1].reg
  /\ walk' = [walk EXCEPT !.phase = "body"]
  /\ UNCHANGED <<registry, evlist, ready>>

ReachEnd ==
  /\ walk.phase \in {"test", "interrupted"}
  /\ walk.index = walk.size
  /\ walk' = Idle
  /\ ready' = {}
  /\ UNCHANGED <<registry, evlist, event, origin>>

Increment ==
  /\ walk.phase = "body"
  /\ walk' = [walk EXCEPT !.phase = "test", !.index = walk.index + 1]
  /\ UNCHANGED <<registry, evlist, event, origin, ready>>

Break ==
  /\ walk.phase = "body"
  /\ walk' = Idle
  /\ ready' = {}
  /\ UNCHANGED <<registry, evlist, event, origin>>
-----------------------------------------------------------------------------
(* The rest of the process: closing a descriptor takes it off the          *)
(* interest list, and its number can be given to a new file.               *)

Close(fd) ==
  /\ MayEdit /\ MayClose(fd)
  /\ fd \in opened
  /\ opened' = opened \ {fd}
  /\ interest' = [f \in DOMAIN interest \ {fd} |-> interest[f]]
  /\ UNCHANGED <<slips, selectables, leftover, capacity, buffer, evlist, walk, event, origin, ready>>

Open(fd) ==
  /\ MayEdit
  /\ fd \notin opened
  /\ opened' = opened \cup {fd}
  /\ UNCHANGED <<slips, interest, selectables, leftover, capacity, buffer, evlist, walk, event, origin, ready>>

Next ==
  \/ \E fd \in Fd, events \in Interests, data \in Data : add(fd, events, data)
  \/ \E fd \in Fd : remove(fd)
  \/ \E cond \in [Fd -> Conditions] : \E fds \in Answers(cond) : poll(cond, fds)
  \/ pollInterrupted
  \/ Dereference
  \/ ReachEnd
  \/ Increment
  \/ Break
  \/ \E fd \in Fd : Close(fd) \/ Open(fd)

Spec == Init /\ [][Next]_vars
-----------------------------------------------------------------------------
(* Properties                                                              *)

(* "Native fd that event occured on" and "User provided data associated    *)
(* with this event" (selector.hpp:78,84): an event handed to the client    *)
(* names the registration it belongs to.                                   *)
EventAttributed ==
  walk.phase = "body" => event.fd = origin.fd /\ event.data = origin.data

(* Whatever the client does, a descriptor the kernel watches for this      *)
(* selector has an element of _selectables, so that remove can find it:    *)
(* the vector is written before the kernel in addRaw and after it in       *)
(* remove, and a failure in between leaves too many elements, never too few. *)
WatchedIsListed ==
  \A fd \in DOMAIN interest : \E i \in 1..Len(selectables) : selectables[i] = interest[fd].reg

(* A careful client's view of the registrations, of the ones found ready,  *)
(* of the events still due and of the last one.                            *)
Careful == slips = {}

Registrations ==
  IF ~Careful THEN <<>>
  ELSE [i \in 1..Len(selectables) |->
          [fd |-> selectables[i].fd, data |-> selectables[i].data,
           events |-> interest[selectables[i].fd].events]]

Found == {i \in 1..Len(Registrations) : selectables[i].fd \in ready}

Owed ==
  LET from == CASE walk.phase = "test" -> walk.index + 1
                [] walk.phase = "body" -> walk.index + 2
                [] OTHER -> Len(evlist) + 1
  IN  {i \in 1..Len(Registrations) :
         \E k \in from..walk.size : evlist[k].reg.fd = selectables[i].fd}

Reported ==
  IF ~Careful \/ event = <<>> THEN <<>> ELSE [fd |-> event.fd, data |-> event.data]

Masks == {ToNative(events) : events \in Interests}

Stage == IF Careful THEN walk.phase ELSE "idle"

Abstract == INSTANCE Selector
  WITH regs <- Registrations, ready <- Found, due <- Owed, report <- Reported,
       stage <- Stage, Room <- MaxEvents

(* For a careful client, one that breaks none of the rules, the addresses  *)
(* in the kernel stay right: the selector implements what module Selector  *)
(* promises.  Of the ready registrations, all or as many as _evlist has    *)
(* room for are reported, each once, with the descriptor and the data it   *)
(* belongs to, before the loop ends.                                       *)
ImplementsSelector == Abstract!Spec
=============================================================================
