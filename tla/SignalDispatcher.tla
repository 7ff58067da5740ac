--------------------------- MODULE SignalDispatcher ---------------------------
(***************************************************************************)
(* SignalDispatcher (src/src/io/signalDispatcher.cpp): attachHandler makes *)
(* signalHandler the process's action for a signal, and adds the client's  *)
(* handler, behind whatever function was the action before, to a multimap  *)
(* that signalHandler walks.                                               *)
(*                                                                         *)
(* A signal may be delivered between any two steps of attachHandler, and   *)
(* while std::multimap is inserting, when walking it is undefined.         *)
(***************************************************************************)
EXTENDS Naturals, Sequences

CONSTANTS
  Signal,        \* signal numbers
  Function,      \* handlers the client attaches
  Dispositions,  \* what the action of a signal may be at the start
  MaxAttached,   \* bound: handlers attached to one signal
  MaxRaised      \* bound: signals delivered

ASSUME DispatcherAssumption ==
  /\ Dispositions \subseteq {"SIG_DFL", "SIG_IGN", "previous"}
  /\ Function \cap {"SIG_IGN", "previous", "signalHandler"} = {}
  /\ MaxAttached \in Nat /\ MaxRaised \in Nat

VARIABLES
  before,     \* signal -> its action at the start
  action,     \* signal -> its action now
  mapping,    \* signal -> equal_range of the multimap, in the order of insertion
  attaching,  \* attachHandler in progress: [at, signal, handler]
  attached,   \* signal -> handlers whose attachHandler returned
  raised,     \* signals delivered
  last,       \* the last delivery: [signal, quiet, due, called], <<>> before
  broken      \* was the multimap walked while it was changed, or SIG_IGN called?

signalVars == <<before, action, mapping, attaching, attached, raised, last, broken>>

NotAttaching == [at |-> "none"]

SignalInit ==
  /\ before \in [Signal -> Dispositions]
  /\ action = before
  /\ mapping = [s \in Signal |-> <<>>]
  /\ attaching = NotAttaching
  /\ attached = [s \in Signal |-> <<>>]
  /\ raised = 0
  /\ last = <<>>
  /\ broken = FALSE
-----------------------------------------------------------------------------
(* attachHandler                                                           *)

(* Variants of the code, here and below, are mistakes that the properties  *)
(* must notice: signalHandler put behind itself.                           *)
ChainsAnything(old) == old # "SIG_DFL"

(* Is the old action put in the multimap?  SIG_DFL is the null pointer;    *)
(* SIG_IGN is not.                                                         *)
Chains(old) == old # "SIG_DFL" /\ old # "signalHandler"

(* sigaction: from here on signalHandler is called.  If it refuses the     *)
(* signal, IOException is raised and nothing has changed.                  *)
attachHandler(s, h) ==
  /\ attaching = NotAttaching
  /\ Len(attached[s]) < MaxAttached
  /\ attaching' = [at |-> IF Chains(action[s]) THEN "chain" ELSE "add",
                   signal |-> s, handler |-> h, old |-> action[s]]
  /\ action' = [action EXCEPT ![s] = "signalHandler"]
  /\ UNCHANGED <<before, mapping, attached, raised, last, broken>>

(* emplace begins: of the old action, then of the handler.                 *)
Inserting == {"chaining", "adding"}

BeginEmplace ==
  /\ attaching.at \in {"chain", "add"}
  /\ attaching' = [attaching EXCEPT !.at = IF @ = "chain" THEN "chaining" ELSE "adding"]
  /\ UNCHANGED <<before, action, mapping, attached, raised, last, broken>>

EndEmplace ==
  LET s == attaching.signal
  IN  /\ attaching.at \in Inserting
      /\ IF attaching.at = "chaining"
         THEN /\ mapping' = [mapping EXCEPT ![s] = Append(@, attaching.old)]
              /\ attaching' = [attaching EXCEPT !.at = "add"]
              /\ UNCHANGED attached
         ELSE /\ mapping' = [mapping EXCEPT ![s] = Append(@, attaching.handler)]
              /\ attaching' = NotAttaching
              /\ attached' = [attached EXCEPT ![s] = Append(@, attaching.handler)]
      /\ UNCHANGED <<before, action, raised, last, broken>>
-----------------------------------------------------------------------------
(* What a signal calls.  The action at the start may be a function of the  *)
(* program's own.                                                          *)
signalHandler(s) == IF action[s] = "signalHandler" THEN mapping[s] ELSE <<"previous">>

(* A client does not raise a signal whose action is SIG_DFL, which would   *)
(* end the process; a signal that is ignored does nothing.                 *)
Handled(s) == action[s] \in {"signalHandler", "previous"}

Deliver(s) ==
  /\ raised < MaxRaised
  /\ Handled(s)
  /\ raised' = raised + 1
  /\ last' = [signal |-> s,
              quiet |-> attaching = NotAttaching,
              due |-> attached[s],
              called |-> signalHandler(s)]
  /\ broken' = (broken \/ attaching.at \in Inserting
                  \/ \E i \in 1..Len(signalHandler(s)) : signalHandler(s)[i] = "SIG_IGN")
  /\ UNCHANGED <<before, action, mapping, attaching, attached>>

SignalNext ==
  \/ \E s \in Signal, h \in Function : attachHandler(s, h)
  \/ BeginEmplace
  \/ EndEmplace
  \/ \E s \in Signal : Deliver(s)
-----------------------------------------------------------------------------
(* Properties                                                              *)

(* "Attach given handler to the give posix signal" (signalDispatcher.hpp:44): *)
(* a signal calls every handler attached to it before, each once and in    *)
(* the order of attachment, with the function that was its action at the   *)
(* start ahead of them.  While attachHandler is under way that function    *)
(* may be missed and the new handler may be called or not, but the others  *)
(* are called all the same.  Not so when the signal was ignored at the     *)
(* start (SIG_IGN is called as a function) or comes inside an insertion.   *)
HandlersCalled ==
  LET previous == IF before[last.signal] = "previous" THEN <<"previous">> ELSE <<>>
  IN  last # <<>> /\ ~broken =>
        \/ last.called = previous \o last.due
        \/ ~last.quiet /\ last.called = last.due

(* "signalHandler Function to be called when the signal received"          *)
(* (signalDispatcher.hpp:47): a signal reaches every handler attached to   *)
(* it.  It does not when SIG_IGN, which is no function, is called first.   *)
HandlersReached ==
  last # <<>> /\ last.quiet =>
    \A k \in 1..Len(last.due) : \E i \in 1..Len(last.called) :
      /\ last.called[i] = last.due[k]
      /\ \A j \in 1..(i - 1) : last.called[j] # "SIG_IGN"
=============================================================================
