------------------------------ MODULE EventLoop ------------------------------
(***************************************************************************)
(* async::EventLoop (src/src/async/eventLoop.cpp): a thread that runs the  *)
(* completion handlers of asynchronous operations, and other threads that  *)
(* start operations and stop the loop.                                     *)
(*                                                                         *)
(* Every method of EventLoop is one call of asio::io_context, so the       *)
(* states and steps below are those of io_context.  Two of its rules       *)
(* matter to a client: the stopped flag stays up until reset(), and the    *)
(* loop raises it itself whenever it finds that it has no work left.       *)
(*                                                                         *)
(* pending, ready and done belong to the objects whose operations these    *)
(* are; they start operations and complete them.                           *)
(***************************************************************************)
EXTENDS Naturals

CONSTANTS
  Job,          \* asynchronous operations
  ResetsFirst,  \* does the client call reset() before each run, poll or runFor?
  MaxRuns       \* bound: calls of run, poll and runFor

VARIABLES
  pending,   \* operations started and not completed
  ready,     \* operations completed, whose handler has not run
  done,      \* operations whose handler has run
  stopped,   \* io_context::stopped()
  inside,    \* the call the loop's thread is in, "none" outside
  owed,      \* operations outstanding when that call was made, {} outside
  asked,     \* was stop() called since that thread last called reset()?
  fresh,     \* was reset() called since the last call returned?
  early,     \* did a run return with some of them left, and no stop()?
  runs       \* calls made

operations == <<pending, ready, done>>
loopVars == <<stopped, inside, owed, asked, fresh, early, runs>>

Calls == {"run", "poll", "runFor"}

LoopInit ==
  /\ stopped = FALSE
  /\ inside = "none"
  /\ owed = {}
  /\ asked = FALSE
  /\ fresh = TRUE
  /\ early = FALSE
  /\ runs = 0

Outstanding == pending \cup ready
-----------------------------------------------------------------------------
(* The loop's thread                                                       *)

(* run, poll and runFor stop the loop at once if there is no work.         *)
Enter(call) ==
  /\ inside = "none"
  /\ runs < MaxRuns
  /\ ResetsFirst => fresh
  /\ inside' = call
  /\ owed' = Outstanding
  /\ stopped' = (stopped \/ Outstanding = {})
  /\ runs' = runs + 1
  /\ UNCHANGED <<operations, asked, fresh, early>>

run == Enter("run")
poll == Enter("poll")
runFor == Enter("runFor")

(* One handler; the last one to finish stops the loop.                     *)
Dispatch(j) ==
  /\ inside # "none"
  /\ ~stopped
  /\ j \in ready
  /\ ready' = ready \ {j}
  /\ done' = done \cup {j}
  /\ stopped' = (Outstanding = {j})
  /\ UNCHANGED <<pending, inside, owed, asked, fresh, early, runs>>

(* The call returns: the loop is stopped, poll finds nothing ready, or the *)
(* time of runFor is over.                                                 *)
Return ==
  /\ inside # "none"
  /\ stopped \/ (inside = "poll" /\ ready = {}) \/ inside = "runFor"
  /\ inside' = "none"
  /\ fresh' = FALSE
  /\ early' = (early \/ (inside = "run" /\ ~asked /\ owed \cap Outstanding # {}))
  /\ owed' = {}
  /\ UNCHANGED <<operations, stopped, asked, runs>>

(* Variant, a mistake that the properties must notice: the flag stays up.  *)
resetKeepsFlag ==
  /\ inside = "none"
  /\ asked' = FALSE
  /\ fresh' = TRUE
  /\ UNCHANGED <<operations, stopped, inside, owed, early, runs>>

(* reset: not to be called while the loop runs.                            *)
reset ==
  /\ inside = "none"
  /\ stopped' = FALSE
  /\ asked' = FALSE
  /\ fresh' = TRUE
  /\ UNCHANGED <<operations, inside, owed, early, runs>>

(* stop: by any thread, or in a handler.                                   *)
stop ==
  /\ stopped' = TRUE
  /\ asked' = TRUE
  /\ UNCHANGED <<operations, inside, owed, fresh, early, runs>>

LoopNext == run \/ poll \/ runFor \/ Return \/ reset \/ stop
-----------------------------------------------------------------------------
(* Properties                                                              *)

(* "Run event processing loop until `stop()` is called or there is no more *)
(* jobs queued" (eventloop.hpp:63): an operation that was outstanding when *)
(* run was called has had its handler when run returns, unless somebody    *)
(* called stop().                                                          *)
RunsUntilDone == ~early
=============================================================================
