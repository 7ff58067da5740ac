---------------------------- MODULE StreamClients ----------------------------
(***************************************************************************)
(* StreamSockets that connect (src/src/async/tcpsocket.cpp,                *)
(* streamdomainsocket.cpp) to a listener of module AsyncServer: connect    *)
(* and asyncConnect, cancelled, closed and tried again, against open, stop *)
(* and the accepts of the other side.  The kernel goes on connecting a     *)
(* socket whose operation was cancelled.                                   *)
(***************************************************************************)
EXTENDS AsyncServer

CONSTANT Socket   \* the StreamSockets of the program

VARIABLES
  impl,       \* socket -> the family of its implementation
  state,      \* socket -> "closed", "open", "connecting" or "connected"
  op,         \* socket -> where its operation is: "none", "reactor" or "blocked",
              \*           or "ok" or "error" when its completion is queued
  result,     \* socket -> the last result or future: "none", "pending", "value", "error"
  conn,       \* socket -> the connection it made, 0 if none
  disturbed   \* socket -> was the last attempt cancelled, closed, or one too many?

socketVars == <<impl, state, op, result, conn, disturbed>>
everything == <<allVars, socketVars>>

SocketInit ==
  /\ impl \in [Socket -> {"tcp", "unix"}]
  /\ state = [s \in Socket |-> "closed"]
  /\ op = [s \in Socket |-> "none"]
  /\ result = [s \in Socket |-> "none"]
  /\ conn = [s \in Socket |-> 0]
  /\ disturbed = [s \in Socket |-> FALSE]
-----------------------------------------------------------------------------
(* toAsioIPEndpoint, toAsioLocalEndpoint: is an endpoint of this family    *)
(* one for the socket?                                                     *)
toAsioEndpoint(s, family) == family = impl[s]

(* connect(2), after socket(2) if there is no descriptor.  A socket that   *)
(* is connecting or connected refuses a second one; socket(2) may refuse.  *)
TryConnect(s, how, refused) ==
  \/ /\ state[s] \in {"closed", "open"}
     /\ state' = [state EXCEPT ![s] = "connecting"]
     /\ op' = [op EXCEPT ![s] = how]
     /\ result' = [result EXCEPT ![s] = "pending"]
     /\ conn' = [conn EXCEPT ![s] = 0]
     /\ disturbed' = [disturbed EXCEPT ![s] = FALSE]
  \/ /\ state[s] # "open"
     /\ op' = [op EXCEPT ![s] = refused]
     /\ result' = [result EXCEPT ![s] = IF refused = "none" THEN "error" ELSE "pending"]
     /\ disturbed' = [disturbed EXCEPT ![s] = TRUE]
     /\ UNCHANGED <<state, conn>>

(* Variant, as another below, for a mistake that the properties must       *)
(* notice: an endpoint of the wrong family leaves the future alone.        *)
asyncConnectSilent(s, family) ==
  /\ op[s] = "none"
  /\ IF toAsioEndpoint(s, family)
     THEN TryConnect(s, "reactor", "error")
     ELSE /\ result' = [result EXCEPT ![s] = "pending"]
          /\ disturbed' = [disturbed EXCEPT ![s] = TRUE]
          /\ UNCHANGED <<state, op, conn>>
  /\ UNCHANGED impl

(* asyncConnect: one attempt of a socket at a time.                        *)
asyncConnect(s, family) ==
  /\ op[s] = "none"
  /\ IF toAsioEndpoint(s, family)
     THEN TryConnect(s, "reactor", "error")
     ELSE /\ result' = [result EXCEPT ![s] = "error"]
          /\ disturbed' = [disturbed EXCEPT ![s] = TRUE]
          /\ UNCHANGED <<state, op, conn>>
  /\ UNCHANGED impl

(* connect: the thread waits.                                              *)
connect(s, family) ==
  /\ op[s] = "none"
  /\ IF toAsioEndpoint(s, family)
     THEN TryConnect(s, "blocked", "none")
     ELSE /\ result' = [result EXCEPT ![s] = "error"]
          /\ disturbed' = [disturbed EXCEPT ![s] = TRUE]
          /\ UNCHANGED <<state, op, conn>>
  /\ UNCHANGED impl

(* The kernel: the listener has room for the connection, or refuses it, or *)
(* nobody answers in time.                                                 *)
Establish(s) ==
  /\ state[s] = "connecting" /\ pimpl = impl[s]
  /\ Connect
  /\ state' = [state EXCEPT ![s] = "connected"]
  /\ conn' = [conn EXCEPT ![s] = arrived + 1]
  /\ UNCHANGED <<user, impl, op, result, disturbed>>

Refuse(s) ==
  /\ state[s] = "connecting"
  /\ state' = [state EXCEPT ![s] = "open"]
  /\ UNCHANGED <<impl, op, result, conn, disturbed>>

Outcome(s) == IF state[s] = "connected" THEN "ok" ELSE "error"
Settled(s) == state[s] \in {"open", "connected"}

ConnectReady(s) ==
  /\ op[s] = "reactor" /\ Settled(s)
  /\ op' = [op EXCEPT ![s] = Outcome(s)]
  /\ UNCHANGED <<impl, state, result, conn, disturbed>>

Resolve(s, outcome) ==
  /\ result' = [result EXCEPT ![s] = IF outcome = "ok" THEN "value" ELSE "error"]
  /\ op' = [op EXCEPT ![s] = "none"]
  /\ UNCHANGED <<impl, state, conn, disturbed>>

(* Variant: the error is not looked at.                                    *)
ConnectHandlerAnyway(s) == op[s] \in {"ok", "error"} /\ Resolve(s, "ok")

(* The completion handler of asyncConnect, and the return of connect.      *)
ConnectHandler(s) == op[s] \in {"ok", "error"} /\ Resolve(s, op[s])
ConnectReturns(s) == op[s] = "blocked" /\ Settled(s) /\ Resolve(s, Outcome(s))

(* cancel and close abort what is in the reactor.                          *)
Aborts(s) ==
  /\ op' = [op EXCEPT ![s] = IF @ = "reactor" THEN "error" ELSE @]
  /\ disturbed' = [disturbed EXCEPT ![s] = TRUE]
  /\ UNCHANGED <<impl, result, conn>>

cancelSocket(s) == state[s] # "closed" /\ op[s] # "blocked" /\ Aborts(s) /\ UNCHANGED state
closeSocket(s) ==
  /\ state[s] # "closed" /\ op[s] # "blocked"
  /\ Aborts(s)
  /\ state' = [state EXCEPT ![s] = "closed"]

SocketNext(s) ==
  \/ \E family \in {"tcp", "unix"} : asyncConnect(s, family) \/ connect(s, family)
  \/ Refuse(s) \/ ConnectReady(s) \/ ConnectHandler(s) \/ ConnectReturns(s)
  \/ cancelSocket(s) \/ closeSocket(s)

ClientsInit == UsedInit /\ SocketInit

ClientsNext ==
  \/ UsedNext /\ UNCHANGED socketVars
  \/ \E s \in Socket : (SocketNext(s) /\ UNCHANGED allVars) \/ Establish(s)

(* What the kernel and the event loop do for a socket.                     *)
Progress(s) ==
  \/ Establish(s)
  \/ Refuse(s) /\ UNCHANGED allVars
  \/ (ConnectReady(s) \/ ConnectHandler(s) \/ ConnectReturns(s)) /\ UNCHANGED allVars

ClientsSpec ==
  /\ ClientsInit /\ [][ClientsNext]_everything
  /\ WF_everything(Completions /\ UNCHANGED <<user, socketVars>>)
  /\ \A s \in Socket : WF_everything(Progress(s))
-----------------------------------------------------------------------------
(* Properties                                                              *)

(* The two ends agree: no connection is lost or given to two accepts       *)
(* (EachConnectionOnce); a socket is told that it is connected only for a  *)
(* connection that the listener's side was given; and one that is          *)
(* connected and whose attempt is over was told so.  (Not so after a       *)
(* cancel or a second attempt: the kernel goes on, and the server may be   *)
(* given a connection whose future had an error.)                          *)
ConnectedOnce ==
  /\ EachConnectionOnce
  /\ \A s \in Socket :
       /\ result[s] = "value" => conn[s] \in 1..arrived
       /\ state[s] = "connected" /\ op[s] = "none" /\ ~disturbed[s] => result[s] = "value"

(* "Future that is resolved when connection is establised or an error      *)
(* occured" (streamsocket.hpp:128): every attempt to connect ends,         *)
(* whatever the endpoint, cancel, close and the other side do.             *)
ConnectResolves == \A s \in Socket : result[s] = "pending" ~> result[s] # "pending"
=============================================================================
