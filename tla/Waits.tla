-------------------------------- MODULE Waits --------------------------------
(***************************************************************************)
(* The three objects of async:: that a client waits for: Event             *)
(* (src/src/async/event.cpp), Timer (timer.cpp) and SignalSet              *)
(* (signalSet.cpp).  asyncWait of each gives asio an operation with a      *)
(* completion handler that resolves the future; they differ in what        *)
(* completes the operations:                                               *)
(*                                                                         *)
(*   an Event reads an eventfd, whose counter one read takes to zero;      *)
(*   a Timer completes all its waits when its deadline passes;             *)
(*   a SignalSet completes all its waits with one signal, and keeps        *)
(*   signals that found nobody waiting.                                    *)
(*                                                                         *)
(* A thread runs the handlers in an EventLoop (module EventLoop), which    *)
(* others may stop.  Waits are numbered in the order they are started.     *)
(***************************************************************************)
EXTENDS Naturals, Sequences, FiniteSets

CONSTANTS
  Sources,    \* the classes under study
  Signals,    \* signal numbers of the SignalSet
  MaxWaits,   \* bound: waits started
  MaxCalls,   \* bound: notifications, deadlines set, signals raised
  ResetsFirst,\* does the client call reset() before each run, poll or runFor?
  MaxRuns     \* bound: calls of run, poll and runFor

ASSUME WaitsAssumption ==
  /\ Sources \subseteq {"Event", "Timer", "SignalSet"}
  /\ Signals \subseteq Nat \ {0}
  /\ MaxWaits \in Nat
  /\ MaxCalls \in Nat
  /\ ResetsFirst \in BOOLEAN /\ MaxRuns \in Nat

Wait == 1..MaxWaits

VARIABLES
  source,       \* the class of the object
  alive,        \* it has not been destroyed
  started,      \* waits started
  waiting,      \* those in asio's hands, oldest first
  queued,       \* completions in the event loop
  future,       \* wait -> what its future holds
  counter,      \* Event: the eventfd's counter
  notified,     \* Event: notifications so far
  deadline,     \* Timer: how many deadlines have been set; the last is in force
  passed,       \* Timer: the deadlines that passed while in force
  under,        \* Timer: wait -> the deadline in force when it was started
  pipe,         \* SignalSet: signals caught and not yet read by asio
  undelivered,  \* SignalSet: signal -> deliveries that found nobody waiting
  raised,       \* SignalSet: signal -> how often it was raised
  stopped, inside, owed, asked, fresh, early, runs  \* of the EventLoop

waits == <<source, alive, started, waiting, queued, future>>
eventVars == <<counter, notified>>
timerVars == <<deadline, passed, under>>
signalVars == <<pipe, undelivered, raised>>
objects == <<waits, eventVars, timerVars, signalVars>>
loop == <<stopped, inside, owed, asked, fresh, early, runs>>
vars == <<objects, loop>>

EventLoop == INSTANCE EventLoop WITH
  Job <- Wait,
  pending <- {waiting[i] : i \in 1..Len(waiting)},
  ready <- {queued[i].wait : i \in 1..Len(queued)},
  done <- {w \in Wait : future[w].is \in {"error", "value"}}

(* The constructors.  A Timer made without a duration has a deadline that  *)
(* passed long ago.                                                        *)
Init ==
  /\ source \in Sources
  /\ alive = TRUE
  /\ started = 0
  /\ waiting = <<>>
  /\ queued = <<>>
  /\ future = [w \in Wait |-> [is |-> "none", what |-> 0]]
  /\ counter = 0 /\ notified = 0
  /\ deadline = 0 /\ passed \in (IF source = "Timer" THEN {{}, {0}} ELSE {{}})
  /\ under = [w \in Wait |-> 0]
  /\ pipe = <<>>
  /\ undelivered = [s \in Signals |-> 0] /\ raised = [s \in Signals |-> 0]
  /\ EventLoop!LoopInit
-----------------------------------------------------------------------------
(* Common parts                                                            *)

(* The completions of the waits ws, in their order.  The error is asio's   *)
(* error_code: none, or operation_aborted.                                 *)
Completed(ws, error, what) ==
  [i \in 1..Len(ws) |-> [wait |-> ws[i], error |-> error, what |-> what]]

(* asyncWait makes the promise, and asio completes it at once or keeps it. *)
StartWait ==
  /\ alive
  /\ started < MaxWaits
  /\ started' = started + 1
  /\ future' = [future EXCEPT ![started + 1] = [is |-> "pending", what |-> 0]]
  /\ UNCHANGED <<source, alive>>

CompleteNow(what) ==
  /\ queued' = queued \o Completed(<<started + 1>>, "none", what)
  /\ UNCHANGED waiting

KeepWaiting ==
  /\ waiting' = Append(waiting, started + 1)
  /\ UNCHANGED queued

(* The waits in asio's hands complete: all of them, or the first n.        *)
CompleteFirst(n, error, what) ==
  /\ queued' = queued \o Completed(SubSeq(waiting, 1, n), error, what)
  /\ waiting' = SubSeq(waiting, n + 1, Len(waiting))
  /\ UNCHANGED <<source, started, future>>

CompleteAll(error, what) == CompleteFirst(Len(waiting), error, what)

(* Variants of the code, here and below, are mistakes that the properties  *)
(* must notice: the test of the error the wrong way round, and waits       *)
(* forgotten with their object.                                            *)
Resolve(error, what) ==
  /\ queued # <<>>
  /\ future' = [future EXCEPT ![Head(queued).wait] =
                  [is |-> IF error THEN "error" ELSE "value", what |-> what]]
  /\ queued' = Tail(queued)
  /\ UNCHANGED <<source, alive, started, waiting, eventVars, timerVars, signalVars>>

HandlerInverted == queued # <<>> /\ Resolve(Head(queued).error = "none", Head(queued).what)

(* The completion handler, the same in the three classes.                  *)
Handler == queued # <<>> /\ Resolve(Head(queued).error # "none", Head(queued).what)

DestroyOnly ==
  /\ alive
  /\ alive' = FALSE
  /\ UNCHANGED <<source, started, waiting, queued, future, eventVars, timerVars, signalVars>>

(* The destructors: asio aborts the waits of an object that goes away.     *)
Destroy ==
  /\ alive
  /\ alive' = FALSE
  /\ CompleteAll("aborted", 0)
  /\ UNCHANGED <<eventVars, timerVars, signalVars>>
-----------------------------------------------------------------------------
(* Event                                                                   *)

(* Variant: waiting for the descriptor to be readable, without reading it. *)
CounterAfterPoll == counter

(* What async_read_some of the eight bytes leaves in the eventfd.          *)
CounterAfterRead == 0

(* An operation that is the only one is tried at once.                     *)
EventWait ==
  /\ source = "Event"
  /\ StartWait
  /\ IF counter > 0 /\ waiting = <<>>
     THEN CompleteNow(0) /\ counter' = CounterAfterRead
     ELSE KeepWaiting /\ UNCHANGED counter
  /\ UNCHANGED <<notified, timerVars, signalVars>>

notify ==
  /\ source = "Event"
  /\ alive
  /\ notified < MaxCalls
  /\ notified' = notified + 1
  /\ counter' = counter + 1
  /\ UNCHANGED <<waits, timerVars, signalVars>>

(* The reactor reads for the oldest wait; the next finds nothing to read.  *)
EventReady ==
  /\ source = "Event"
  /\ counter > 0 /\ waiting # <<>>
  /\ CompleteFirst(1, "none", 0)
  /\ counter' = CounterAfterRead
  /\ UNCHANGED <<alive, notified, timerVars, signalVars>>
-----------------------------------------------------------------------------
(* Timer                                                                   *)

TimerWait ==
  /\ source = "Timer"
  /\ StartWait
  /\ KeepWaiting
  /\ under' = [under EXCEPT ![started + 1] = deadline]
  /\ UNCHANGED <<eventVars, deadline, passed, signalVars>>

(* Variant: the deadline moves and the waits stay.                         *)
setTimeoutKeepsWaits ==
  /\ source = "Timer"
  /\ alive
  /\ deadline < MaxCalls
  /\ deadline' = deadline + 1
  /\ UNCHANGED <<waits, eventVars, passed, under, signalVars>>

(* setTimeout: expires_after also aborts the waits for the old deadline,   *)
(* but none whose completion is queued.                                    *)
setTimeout ==
  /\ source = "Timer"
  /\ alive
  /\ deadline < MaxCalls
  /\ deadline' = deadline + 1
  /\ CompleteAll("aborted", 0)
  /\ UNCHANGED <<alive, eventVars, passed, under, signalVars>>

(* Variant: the waits are told and not taken out.                          *)
cancelKeepsWaits ==
  /\ source = "Timer"
  /\ alive
  /\ queued' = queued \o Completed(waiting, "aborted", 0)
  /\ UNCHANGED <<source, alive, started, waiting, future, eventVars, timerVars, signalVars>>

cancel ==
  /\ source = "Timer"
  /\ alive
  /\ CompleteAll("aborted", 0)
  /\ UNCHANGED <<alive, eventVars, timerVars, signalVars>>

(* Time goes by.                                                           *)
Elapse ==
  /\ source = "Timer"
  /\ deadline \notin passed
  /\ passed' = passed \cup {deadline}
  /\ UNCHANGED <<waits, eventVars, deadline, under, signalVars>>

(* The reactor notices: every wait is given one expiration.                *)
TimerReady ==
  /\ source = "Timer"
  /\ deadline \in passed /\ waiting # <<>>
  /\ CompleteAll("none", 1)
  /\ UNCHANGED <<alive, eventVars, timerVars, signalVars>>
-----------------------------------------------------------------------------
(* SignalSet                                                               *)

Kept == {s \in Signals : undelivered[s] > 0}

(* A wait takes a signal kept for it, the lowest number first.             *)
SignalWait ==
  /\ source = "SignalSet"
  /\ StartWait
  /\ IF Kept # {}
     THEN LET s == CHOOSE t \in Kept : \A u \in Kept : t <= u
          IN  CompleteNow(s) /\ undelivered' = [undelivered EXCEPT ![s] = @ - 1]
     ELSE KeepWaiting /\ UNCHANGED undelivered
  /\ UNCHANGED <<eventVars, timerVars, pipe, raised>>

(* A signal of the set: asio's signal handler writes it to a pipe.         *)
Raise(s) ==
  /\ source = "SignalSet"
  /\ alive
  /\ raised[s] < MaxCalls
  /\ raised' = [raised EXCEPT ![s] = @ + 1]
  /\ pipe' = Append(pipe, s)
  /\ UNCHANGED <<waits, eventVars, timerVars, undelivered>>

(* The reactor reads it: it goes to everyone waiting, or is kept.          *)
SignalReady ==
  /\ source = "SignalSet"
  /\ alive
  /\ pipe # <<>>
  /\ pipe' = Tail(pipe)
  /\ IF waiting = <<>>
     THEN undelivered' = [undelivered EXCEPT ![Head(pipe)] = @ + 1] /\ UNCHANGED waits
     ELSE CompleteAll("none", Head(pipe)) /\ UNCHANGED <<alive, undelivered>>
  /\ UNCHANGED <<eventVars, timerVars, raised>>
-----------------------------------------------------------------------------
asyncWait == EventWait \/ TimerWait \/ SignalWait

(* The loop's thread completes operations and runs their handlers.         *)
Reactor ==
  /\ inside # "none" /\ ~stopped
  /\ EventReady \/ TimerReady \/ SignalReady
  /\ UNCHANGED loop

Dispatch == queued # <<>> /\ Handler /\ EventLoop!Dispatch(Head(queued).wait)

Next ==
  \/ (asyncWait \/ notify \/ setTimeout \/ cancel \/ Elapse \/ Destroy) /\ UNCHANGED loop
  \/ (\E s \in Signals : Raise(s)) /\ UNCHANGED loop
  \/ Reactor \/ Dispatch
  \/ UNCHANGED objects /\ EventLoop!LoopNext

Spec == Init /\ [][Next]_vars

(* A thread inside run, poll or runFor goes on; whether there is one is up *)
(* to the client.                                                          *)
FairSpec == Spec /\ WF_vars(Reactor) /\ WF_vars(Dispatch)
-----------------------------------------------------------------------------
(* Properties                                                              *)

(* The waits on their way, the completed ones first.                       *)
Places == [i \in 1..Len(queued) |-> queued[i].wait] \o waiting

(* A pending future is in one place, in asio's hands or in the event loop, *)
(* and no other is: none is forgotten and no promise is resolved twice,    *)
(* whatever cancel, setTimeout and destruction race with.                  *)
PendingInOnePlace ==
  /\ \A i, j \in 1..Len(Places) : Places[i] = Places[j] => i = j
  /\ {Places[i] : i \in 1..Len(Places)} = {w \in Wait : future[w].is = "pending"}

(* The wait was completed without an error, its handler run or not; and    *)
(* what it was given.                                                      *)
SucceededWith(w, what) ==
  \/ future[w].is = "value" /\ future[w].what = what
  \/ \E i \in 1..Len(queued) : queued[i].wait = w /\ queued[i].error = "none" /\ queued[i].what = what

Succeeded(w) ==
  \/ future[w].is = "value"
  \/ \E i \in 1..Len(queued) : queued[i].wait = w /\ queued[i].error = "none"

(* No spurious wake-up: however many wait, and however notifications and   *)
(* waits interleave, no more waits of an Event succeed than there were     *)
(* notifications, since each takes the counter to zero (event.cpp:43).     *)
NoSpuriousWakeup ==
  source = "Event" => counter + Cardinality({w \in Wait : Succeeded(w)}) <= notified

(* A wait of a Timer is given a value only if the deadline it was started  *)
(* under passed, never for a later one that setTimeout put in its place,   *)
(* and never because the wait was cancelled (timer.cpp:34-59).             *)
ValueMeansExpired ==
  source = "Timer" => \A w \in Wait : future[w].is = "value" => under[w] \in passed

(* No signal is lost while handlers run late or nobody waits: each one     *)
(* raised is in the pipe, kept, on its way to a future or in one; one      *)
(* signal may have resolved several waits (signalSet.cpp:34).              *)
NoSignalLost ==
  source = "SignalSet" => \A s \in Signals :
    raised[s] <= Cardinality({i \in 1..Len(pipe) : pipe[i] = s}) + undelivered[s]
                   + Cardinality({w \in Wait : SucceededWith(w, s)})

(* What must complete the wait w has happened.                             *)
Due(w) ==
  \/ ~alive
  \/ source = "Event" /\ counter > 0 /\ waiting # <<>> /\ w = Head(waiting)
  \/ source = "Timer" /\ deadline \in passed
  \/ source = "SignalSet" /\ pipe # <<>>

(* Every wait whose event has happened is resolved: the oldest one of a    *)
(* notified Event, each one of a Timer whose deadline passed or of a       *)
(* SignalSet with a signal caught, and each one of an object destroyed;    *)
(* as long as a thread stays in the loop and nobody stops it.              *)
WaitsResolve ==
  \A w \in Wait :
    future[w].is = "pending" /\ Due(w) /\ inside # "none" /\ ~stopped
      ~> future[w].is # "pending" \/ inside = "none" \/ stopped

(* The EventLoop's own property, of the loop these waits go through: run   *)
(* returns only when asked to stop or when its jobs are done.              *)
RunsUntilDone == EventLoop!RunsUntilDone
=============================================================================
