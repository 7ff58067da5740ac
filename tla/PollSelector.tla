---------------------------- MODULE PollSelector ----------------------------
(***************************************************************************)
(* The selector over poll(2): class PollSelectorImpl                       *)
(* (src/src/io/selector_poll.cpp) and the Selector::Iterator that walks    *)
(* its events (src/src/io/selector.cpp, src/include/cadence/io/selector.hpp) *)
(*                                                                         *)
(* The implementation keeps two parallel vectors, selectables (what to     *)
(* report) and pollfds (what the kernel sees), and an event is put         *)
(* together from position i of both.  Nothing but the order of its updates *)
(* keeps the two in step.                                                  *)
(*                                                                         *)
(* Indices are the C++ ones, from 0: element i of a vector is v[i + 1].    *)
(***************************************************************************)
EXTENDS Vector

CONSTANTS
  Fd,             \* descriptors a client registers
  Data,           \* values of the client's void* data
  Conditions,     \* sets of native bits the kernel may find raised on a descriptor
  Interests,      \* sets of Selector::Events a client asks for
  MaxRegs,        \* bound: registrations held at a time
  EditDuringWalk  \* may the client add or remove inside the loop over the events?

Native == {"POLLIN", "POLLPRI", "POLLOUT", "POLLERR", "POLLHUP", "POLLRDHUP", "POLLNVAL"}

(* poll(2) reports these bits whether asked for or not.                    *)
AlwaysReported == {"POLLERR", "POLLHUP", "POLLNVAL"}

(* enum Events of selector.hpp.                                            *)
Events == {"Read", "Write", "Error", "Hup"}

ASSUME PollAssumption ==
  /\ Conditions \subseteq SUBSET Native
  /\ Interests \subseteq SUBSET Events
  /\ MaxRegs \in Nat
  /\ EditDuringWalk \in BOOLEAN

VARIABLES
  selectables,  \* _selectables: what to report, [fd, data]
  pollfds,      \* _pollfds: what poll(2) is given, [fd, events, revents]
  walk,         \* the client's Iterator: [phase, index, size]
  event         \* the Event the loop body was last given, <<>> before the first

vars == <<selectables, pollfds, walk, event>>

Selectable == [fd : Fd, data : Data]
Pollfd == [fd : Fd, events : SUBSET Native, revents : SUBSET Native]
Event == [fd : Fd, data : Data, events : SUBSET Events]

(* Where the client's `for (auto event : selector.poll())` stands: no      *)
(* iterator, about to compare with end(), or in the loop body.             *)
Phase == {"idle", "test", "body"}

TypeOK ==
  /\ selectables \in Seq(Selectable)
  /\ pollfds \in Seq(Pollfd)
  /\ walk \in [phase : Phase, index : Nat, size : Nat]
  /\ event \in Event \cup {<<>>}

Idle == [phase |-> "idle", index |-> 0, size |-> 0]

Init ==
  /\ selectables = <<>>
  /\ pollfds = <<>>
  /\ walk = Idle
  /\ event = <<>>
-----------------------------------------------------------------------------
(* PollSelectorImpl                                                        *)

(* The translation of the events asked for; Error is not selectable.       *)
ToNative(events) ==
  (IF "Read" \in events THEN {"POLLIN", "POLLPRI"} ELSE {})
    \cup (IF "Write" \in events THEN {"POLLOUT"} ELSE {})
    \cup (IF "Hup" \in events THEN {"POLLRDHUP"} ELSE {})

(* The translation of the events raised.                                   *)
FromNative(revents) ==
  (IF revents \cap {"POLLIN", "POLLPRI"} # {} THEN {"Read"} ELSE {})
    \cup (IF "POLLOUT" \in revents THEN {"Write"} ELSE {})
    \cup (IF "POLLERR" \in revents THEN {"Error"} ELSE {})
    \cup (IF "POLLRDHUP" \in revents THEN {"Hup"} ELSE {})

(* Variants of the code, here and below, are mistakes that the properties  *)
(* must notice: this one does not look at revents.                         *)
findFirstAny(fds, offset, count) == IF offset < count THEN offset ELSE count

(* findFirstReady: the first ready position at or after offset, or count.  *)
findFirstReady(fds, offset, count) ==
  LET Ready == {i \in offset..(count - 1) : fds[i + 1].revents # {}}
  IN  IF Ready = {} THEN count ELSE CHOOSE i \in Ready : \A j \in Ready : i <= j

(* Variants: the walk ends after one event, and it does not move.          *)
advanceEnds(fds, offset) == Len(fds)

advanceStays(fds, offset) ==
  IF offset >= Len(fds) THEN Len(fds) ELSE findFirstReady(fds, offset, Len(fds))

advance(fds, offset) ==
  IF offset >= Len(fds) THEN Len(fds) ELSE findFirstReady(fds, offset + 1, Len(fds))

(* getEvent: put together from both vectors.  operator[] does not check    *)
(* its index, so past the end of a vector the outcome is any Event.        *)
getEvent(i) ==
  IF i < Len(pollfds) /\ i < Len(selectables)
  THEN {[fd |-> selectables[i + 1].fd,
         data |-> selectables[i + 1].data,
         events |-> FromNative(pollfds[i + 1].revents)]}
  ELSE Event

(* Calls a client may make now: between polls, or also in the loop body.   *)
MayEdit == walk.phase = "idle" \/ (EditDuringWalk /\ walk.phase = "body")

(* addRaw, add: no check for a descriptor that is already registered.      *)
addRaw(fd, nativeEvents, data) ==
  /\ selectables' = Append(selectables, [fd |-> fd, data |-> data])
  /\ pollfds' = Append(pollfds, [fd |-> fd, events |-> nativeEvents, revents |-> {}])

add(fd, events, data) ==
  /\ MayEdit
  /\ Len(pollfds) < MaxRegs
  /\ addRaw(fd, ToNative(events), data)
  /\ UNCHANGED <<walk, event>>

(* Variant: one vector is forgotten.                                       *)
removeFromOne(fd) ==
  /\ MayEdit
  /\ pollfds' = Erase(pollfds, fd)
  /\ UNCHANGED <<selectables, walk, event>>

(* remove: every registration of fd, from one vector and then the other.   *)
remove(fd) ==
  /\ MayEdit
  /\ selectables' = Erase(selectables, fd)
  /\ pollfds' = Erase(pollfds, fd)
  /\ UNCHANGED <<walk, event>>

(* What poll(2) stores in revents when it finds cond[fd] raised on fd.     *)
Raised(p, cond) == cond[p.fd] \cap (p.events \cup AlwaysReported)
Polled(cond) == [i \in 1..Len(pollfds) |-> [pollfds[i] EXCEPT !.revents = Raised(pollfds[i], cond)]]

(* poll: the system call returned r >= 0; r = 0 is a timeout and gives an  *)
(* iterator that is at its end.                                            *)
poll(cond) ==
  /\ walk.phase = "idle"
  /\ pollfds' = Polled(cond)
  /\ LET n == Len(pollfds)
         timeout == \A i \in 1..n : pollfds'[i].revents = {}
     IN  walk' = [phase |-> "test",
                  index |-> IF timeout THEN 0 ELSE findFirstReady(pollfds', 0, n),
                  size |-> IF timeout THEN 0 ELSE n]
  /\ UNCHANGED <<selectables, event>>

(* poll: the system call failed, EINTR included, and IOException is raised. *)
pollFailed ==
  /\ walk.phase = "idle"
  /\ pollfds' = [i \in 1..Len(pollfds) |-> [pollfds[i] EXCEPT !.revents = {}]]
  /\ UNCHANGED <<selectables, walk, event>>
-----------------------------------------------------------------------------
(* Selector::Iterator and the loop over it                                 *)

(* operator!= against end(), then operator*.                               *)
Dereference ==
  /\ walk.phase = "test"
  /\ walk.index # walk.size
  /\ event' \in getEvent(walk.index)
  /\ walk' = [walk EXCEPT !.phase = "body"]
  /\ UNCHANGED <<selectables, pollfds>>

ReachEnd ==
  /\ walk.phase = "test"
  /\ walk.index = walk.size
  /\ walk' = Idle
  /\ UNCHANGED <<selectables, pollfds, event>>

(* operator++.  It raises when the iterator is not inside its range, and   *)
(* the exception leaves the loop.                                          *)
Increment ==
  /\ walk.phase = "body"
  /\ walk' = IF walk.index < walk.size
             THEN [walk EXCEPT !.phase = "test", !.index = advance(pollfds, walk.index)]
             ELSE Idle
  /\ UNCHANGED <<selectables, pollfds, event>>

(* The client leaves the loop by break.                                    *)
Break ==
  /\ walk.phase = "body"
  /\ walk' = Idle
  /\ UNCHANGED <<selectables, pollfds, event>>

Next ==
  \/ \E fd \in Fd, events \in Interests, data \in Data : add(fd, events, data)
  \/ \E fd \in Fd : remove(fd)
  \/ \E cond \in [Fd -> Conditions] : poll(cond)
  \/ pollFailed
  \/ Dereference
  \/ ReachEnd
  \/ Increment
  \/ Break

Spec == Init /\ [][Next]_vars

(* The thread that walks the events keeps walking: the loop is sequential  *)
(* code and its body returns.                                              *)
Fairness == WF_vars(Dereference) /\ WF_vars(ReachEnd) /\ WF_vars(Increment)

FairSpec == Spec /\ Fairness
-----------------------------------------------------------------------------
(* Properties                                                              *)

(* The two vectors stay in step through every add, remove and poll, a      *)
(* descriptor registered twice included: what remove (selector_poll.cpp:97) *)
(* asks for with "Make sure thouse are in order" and getEvent relies on    *)
(* when it reads position i of both.                                       *)
Coupled ==
  /\ Len(selectables) = Len(pollfds)
  /\ \A i \in 1..Len(pollfds) : selectables[i].fd = pollfds[i].fd

(* An iterator that is not at its end stands on a position that exists and *)
(* was found ready: findFirstReady and advance skip the others, and the    *)
(* end they return is the size poll captured.                              *)
IteratorOnReady ==
  walk.phase = "test" /\ walk.index # walk.size =>
    /\ walk.index < Len(pollfds)
    /\ pollfds[walk.index + 1].revents # {}

(* operator++ asserts that the iterator is inside the range poll returned  *)
(* (selector.cpp:45): the loop over the events never trips the assertion.  *)
IncrementInRange == walk.phase = "body" => walk.index < walk.size

(* Every loop over the events of a poll ends: advance moves strictly       *)
(* forward and meets the end poll captured.                                *)
WalkEnds == walk.phase # "idle" ~> walk.phase = "idle"

(* Registrations as a client thinks of them: one descriptor, its interest  *)
(* and its data, put together by position.                                 *)
Registrations ==
  [i \in 1..Len(pollfds) |->
     [fd |-> pollfds[i].fd, data |-> selectables[i].data, events |-> pollfds[i].events]]

(* Positions that the poll of the walk in progress found ready.            *)
Found == {i \in 1..Len(pollfds) : walk.phase # "idle" /\ pollfds[i].revents # {}}

(* Positions whose event the walk has not handed out yet.                  *)
Owed ==
  LET from == CASE walk.phase = "test" -> walk.index + 1
                [] walk.phase = "body" -> walk.index + 2
                [] OTHER -> Len(pollfds) + 1
  IN  {i \in from..Len(pollfds) : pollfds[i].revents # {}}

Reported == IF event = <<>> THEN <<>> ELSE [fd |-> event.fd, data |-> event.data]

Masks == {ToNative(events) : events \in Interests}

(* The client is where the loop over the events is; poll(2) reports every  *)
(* ready registration there can be.                                        *)
Abstract == INSTANCE Selector
  WITH regs <- Registrations, ready <- Found, due <- Owed, report <- Reported,
       stage <- walk.phase, Room <- MaxRegs

(* A client that does not edit the selector inside the loop sees what      *)
(* module Selector promises: exactly one event per ready registration,     *)
(* with that registration's descriptor and data, and no loop that ends     *)
(* before all of them have been handed out.                                *)
ImplementsSelector == Abstract!Spec
=============================================================================
