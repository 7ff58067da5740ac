------------------------------- MODULE MCAsync -------------------------------
(* TLC instance of Waits and DatagramSocket: a client of the event loop      *)
(* that waits for an Event, a Timer or a SignalSet, or that has a datagram   *)
(* socket.  The handlers of one do not touch the other.                      *)
EXTENDS Waits, DatagramSocket

VARIABLE uses   \* the class that this client uses

asyncVars == <<uses, vars, datagramVars>>

AsyncInit ==
  /\ Init /\ DatagramsInit
  /\ \/ uses = source /\ impl = "UdpImpl"
     \/ uses = impl /\ source = "Event"

AsyncNext ==
  \/ uses \in Sources /\ Next /\ UNCHANGED <<uses, datagramVars>>
  \/ uses \in Impls /\ DatagramsNext /\ UNCHANGED <<uses, vars>>

(* The fairness of the two modules.                                          *)
AsyncSpec ==
  /\ AsyncInit /\ [][AsyncNext]_asyncVars
  /\ WF_vars(Reactor) /\ WF_vars(Dispatch)
  /\ WF_datagramVars(ReactorStep) /\ WF_datagramVars(CompletionHandler)
=============================================================================
