----------------------------- MODULE AsyncServer -----------------------------
(***************************************************************************)
(* AsyncServer (src/src/asyncServer.cpp): an Acceptor and a chain of       *)
(* asynchronous accepts on it, each started by the continuation of the one *)
(* before, that hands every connection to the client's handler.            *)
(*                                                                         *)
(* The acceptor of a behaviour is used by a server, or by a client of its  *)
(* own (module Acceptor).                                                  *)
(***************************************************************************)
EXTENDS Acceptor

CONSTANT Users   \* who may be using the acceptor

ASSUME UsersAssumption == Users \subseteq {"client", "server"}

VARIABLE user

allVars == <<vars, user>>

(* Variants of the code, here and below, are mistakes that the properties  *)
(* must notice: accepting whatever open returned.                          *)
startListenAnyway(kind) ==
  /\ \E k \in Outcomes(Steps(kind)) : open(kind, k)
  /\ StartAccept(socket', ready)
  /\ UNCHANGED <<arrived, delivered, failed>>

(* startListen: the chain starts if the acceptor opened.                   *)
startListen(kind) ==
  /\ \E k \in Outcomes(Steps(kind)) : open(kind, k)
  /\ IF opened' = "ok"
     THEN StartAccept(socket', ready)
     ELSE UNCHANGED <<backlog, waiting, ready>>
  /\ UNCHANGED <<arrived, delivered, failed>>

stop == close

(* Variants: a connection that is given up when the server was stopped, an *)
(* accept started without asking isOpen, and none started.                 *)
SessionIfOpen ==
  /\ ready # <<>> /\ Head(ready) # 0
  /\ UNCHANGED listener
  /\ IF isOpen
     THEN delivered' = Append(delivered, Head(ready)) /\ StartAccept(socket, Tail(ready))
     ELSE ready' = Tail(ready) /\ UNCHANGED <<backlog, waiting, delivered>>
  /\ UNCHANGED <<arrived, failed>>

SessionAlways ==
  /\ ready # <<>> /\ Head(ready) # 0
  /\ delivered' = Append(delivered, Head(ready))
  /\ StartAccept(socket, Tail(ready))
  /\ UNCHANGED <<listener, arrived, failed>>

SessionOnce ==
  /\ ready # <<>> /\ Head(ready) # 0
  /\ delivered' = Append(delivered, Head(ready))
  /\ ready' = Tail(ready)
  /\ UNCHANGED <<listener, arrived, backlog, waiting, failed>>

(* doAcceptSession, the continuation: the handler gets the connection and  *)
(* may stop the server; then the chain goes on if the acceptor is open.    *)
Session ==
  /\ ready # <<>> /\ Head(ready) # 0
  /\ delivered' = Append(delivered, Head(ready))
  /\ \/ Closed /\ ready' = Aborted(Tail(ready))
     \/ /\ UNCHANGED listener
        /\ IF isOpen
           THEN StartAccept(socket, Tail(ready))
           ELSE ready' = Tail(ready) /\ UNCHANGED <<backlog, waiting>>
  /\ UNCHANGED <<arrived, failed>>

(* doAcceptSession has no onError: a failed accept ends the chain.         *)
SessionError ==
  /\ ready # <<>> /\ Head(ready) = 0
  /\ failed' = TRUE
  /\ ready' = Tail(ready)
  /\ UNCHANGED <<listener, arrived, backlog, waiting, delivered>>

ServerNext ==
  \/ \E kind \in Kinds : startListen(kind)
  \/ stop
  \/ Connect
  \/ Reactor
  \/ Session
  \/ SessionError

UsedInit == Init /\ user \in Users

UsedNext ==
  /\ \/ user = "client" /\ Next
     \/ user = "server" /\ ServerNext
  /\ UNCHANGED user

(* The event loop is run all the time.                                     *)
Completions == Reactor \/ (user = "server" /\ (Session \/ SessionError))

UsedSpec ==
  UsedInit /\ [][UsedNext]_allVars /\ WF_allVars(Completions /\ UNCHANGED user)
-----------------------------------------------------------------------------
(* Properties                                                              *)

(* However startListen, stop and connections mix, one accept at most is in *)
(* progress, and an open listener that has met no error has one: the chain *)
(* neither forks nor breaks.                                               *)
OneChain ==
  user = "server" =>
    /\ waiting + Len(ready) <= 1
    /\ socket = "listening" /\ ~failed => waiting + Len(ready) = 1

(* A connection taken from the kernel reaches the handler, in the order    *)
(* the kernel queued them, also one whose accept completed before a stop.  *)
Coming == delivered \o ready
HandledInOrder ==
  [][user = "server" =>
       /\ Elements(Coming) \ {0} \subseteq Elements(Coming')
       /\ \A i \in 1..Len(Coming') : Coming'[i] \in {0, i}]_vars

(* After stop at most one more connection is handed out, the one whose     *)
(* completion was queued already.                                          *)
StopIsFinal ==
  [][user = "server" /\ socket = "closed" /\ pimpl # "none" =>
       /\ socket' = "closed"
       /\ Len(delivered') + Len(ready') <= Len(delivered) + Len(ready)]_vars

(* "Keep on accepting other sessions" (asyncServer.cpp:26): a connection   *)
(* in the kernel's queue is handled, unless the server is stopped.         *)
KeepsAccepting ==
  \A c \in Conn :
    user = "server" /\ c \in Elements(backlog) ~>
      c \in Elements(delivered) \/ socket = "closed"

(* The same, as long as no accept fails.                                   *)
AcceptsUntilError ==
  \A c \in Conn :
    user = "server" /\ c \in Elements(backlog) ~>
      c \in Elements(delivered) \/ socket = "closed" \/ failed
=============================================================================
