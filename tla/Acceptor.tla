------------------------------ MODULE Acceptor ------------------------------
(***************************************************************************)
(* async::Acceptor (src/src/async/acceptor.cpp), the listening socket      *)
(* behind it (TcpAcceptor in tcpacceptor.cpp, StremDomainAcceptor in       *)
(* streamdomainacceptor.cpp), and a client that uses it directly.          *)
(*                                                                         *)
(* Connections are numbered in the order the kernel queues them.           *)
(***************************************************************************)
EXTENDS Naturals, Sequences

CONSTANTS
  Kinds,         \* families of the endpoints open is called with
  Failures,      \* steps of open the operating system may refuse
  AcceptFails,   \* may accept(2) fail on a waiting connection (EMFILE, ENOMEM...)?
  MaxBacklog,    \* `backlog`, the length of the kernel's queue
  MaxConns,      \* bound: connections made
  MaxPending     \* bound: asynchronous accepts in progress

(* The order of the system calls in the two open methods.                  *)
TcpSteps == <<"endpoint", "open", "set_option", "bind", "listen">>
UnixSteps == <<"endpoint", "set_option", "open", "bind", "listen">>
Steps(kind) == IF kind = "tcp" THEN TcpSteps ELSE UnixSteps

ASSUME AcceptorAssumption ==
  /\ Kinds \subseteq {"tcp", "unix"}
  /\ Failures \subseteq {TcpSteps[k] : k \in 1..Len(TcpSteps)}
  /\ AcceptFails \in BOOLEAN
  /\ MaxBacklog \in Nat \ {0}
  /\ MaxConns \in Nat
  /\ MaxPending \in Nat

VARIABLES
  pimpl,      \* _pimpl: the family of the implementation, or "none"
  socket,     \* state of the listening socket
  opened,     \* what the last open returned
  arrived,    \* connections the kernel has queued so far
  backlog,    \* those that nobody has accepted yet
  waiting,    \* asynchronous accepts in the reactor
  ready,      \* their completions in the event loop; 0 is an error
  delivered,  \* connections given to the client
  failed      \* was an accept given an error?

listener == <<pimpl, socket, opened>>
vars == <<listener, arrived, backlog, waiting, ready, delivered, failed>>

Conn == 1..MaxConns

Init ==
  /\ pimpl = "none"
  /\ socket = "closed"
  /\ opened = "none"
  /\ arrived = 0
  /\ backlog = <<>>
  /\ waiting = 0
  /\ ready = <<>>
  /\ delivered = <<>>
  /\ failed = FALSE
-----------------------------------------------------------------------------
(* open                                                                    *)

(* Step k of steps cannot succeed: an option of a socket that is not open. *)
Impossible(steps, k) ==
  steps[k] = "set_option" /\ ~\E i \in 1..(k - 1) : steps[i] = "open"

(* The socket after the first k steps.  A failure in a later one returns   *)
(* and leaves it so.                                                       *)
SocketAfter(steps, k) ==
  LET Ran(step) == \E i \in 1..k : steps[i] = step
  IN  CASE Ran("listen") -> "listening"
        [] ~Ran("listen") /\ Ran("bind") -> "bound"
        [] ~Ran("bind") /\ Ran("open") -> "open"
        [] OTHER -> "closed"

(* How many steps may succeed before the first failure.                    *)
Outcomes(steps) ==
  {k \in 0..Len(steps) :
     /\ \A i \in 1..k : ~Impossible(steps, i)
     /\ k < Len(steps) => steps[k + 1] \in Failures \/ Impossible(steps, k + 1)}

(* Acceptor::open with the outcome k of the implementation's open; k means *)
(* nothing when there is an implementation already.                        *)
open(kind, k) ==
  IF pimpl # "none"
  THEN opened' = "ISCONN" /\ UNCHANGED <<pimpl, socket>>
  ELSE /\ pimpl' = kind
       /\ socket' = SocketAfter(Steps(kind), k)
       /\ opened' = IF k = Len(Steps(kind)) THEN "ok" ELSE "error"
-----------------------------------------------------------------------------
(* Accepting                                                               *)

isOpen == socket # "closed"

(* The kernel completes a connection on the listening socket.              *)
Connect ==
  /\ socket = "listening"
  /\ arrived < MaxConns
  /\ Len(backlog) < MaxBacklog
  /\ arrived' = arrived + 1
  /\ backlog' = Append(backlog, arrived + 1)
  /\ UNCHANGED <<listener, waiting, ready, delivered, failed>>

(* One try of accept(2) for an asynchronous accept on a socket in state s, *)
(* q being the completions ahead of it: a connection, an error, or none.   *)
TryAccept(s, q) ==
  \/ /\ s = "listening" /\ backlog # <<>>
     /\ ready' = Append(q, Head(backlog))
     /\ backlog' = Tail(backlog)
  \/ /\ s # "listening" \/ (AcceptFails /\ backlog # <<>>)
     /\ ready' = Append(q, 0)
     /\ UNCHANGED backlog

(* asyncAccept: tried at once, and left to the reactor if nobody is there. *)
StartAccept(s, q) ==
  \/ TryAccept(s, q) /\ UNCHANGED waiting
  \/ /\ s = "listening" /\ backlog = <<>>
     /\ waiting' = waiting + 1
     /\ ready' = q
     /\ UNCHANGED backlog

Reactor ==
  /\ waiting > 0
  /\ TryAccept(socket, ready)
  /\ waiting' = waiting - 1
  /\ UNCHANGED <<listener, arrived, delivered, failed>>

(* What asio aborts: the accepts in the reactor, not their completions.    *)
Aborted(q) == q \o [i \in 1..waiting |-> 0]

(* The listening socket is gone, and with it the connections nobody took.  *)
Closed ==
  /\ socket' = "closed"
  /\ backlog' = <<>>
  /\ waiting' = 0
  /\ UNCHANGED <<pimpl, opened>>
-----------------------------------------------------------------------------
(* A client of the acceptor.  No method may be called before open: each    *)
(* follows _pimpl without a test.                                          *)

Open(kind) ==
  /\ \E k \in Outcomes(Steps(kind)) : open(kind, k)
  /\ UNCHANGED <<arrived, backlog, waiting, ready, delivered, failed>>

asyncAccept ==
  /\ pimpl # "none"
  /\ waiting + Len(ready) < MaxPending
  /\ StartAccept(socket, ready)
  /\ UNCHANGED <<listener, arrived, delivered, failed>>

(* accept: blocks until there is a connection or an error.                 *)
accept ==
  /\ pimpl # "none"
  /\ \/ /\ socket = "listening" /\ backlog # <<>>
        /\ delivered' = Append(delivered, Head(backlog))
        /\ backlog' = Tail(backlog)
        /\ UNCHANGED failed
     \/ /\ socket # "listening" \/ (AcceptFails /\ backlog # <<>>)
        /\ failed' = TRUE
        /\ UNCHANGED <<backlog, delivered>>
  /\ UNCHANGED <<listener, arrived, waiting, ready>>

close ==
  /\ pimpl # "none"
  /\ Closed
  /\ ready' = Aborted(ready)
  /\ UNCHANGED <<arrived, delivered, failed>>

(* cancel raises on a socket that is not open.                             *)
cancel ==
  /\ isOpen
  /\ ready' = Aborted(ready)
  /\ waiting' = 0
  /\ UNCHANGED <<listener, arrived, backlog, delivered, failed>>

(* The completion handler of asyncAccept resolves the client's future.     *)
Handler ==
  /\ ready # <<>>
  /\ IF Head(ready) = 0
     THEN failed' = TRUE /\ UNCHANGED delivered
     ELSE delivered' = Append(delivered, Head(ready)) /\ UNCHANGED failed
  /\ ready' = Tail(ready)
  /\ UNCHANGED <<listener, arrived, backlog, waiting>>

Next ==
  \/ \E kind \in Kinds : Open(kind)
  \/ Connect
  \/ Reactor
  \/ asyncAccept
  \/ accept
  \/ close
  \/ cancel
  \/ Handler

Spec == Init /\ [][Next]_vars
-----------------------------------------------------------------------------
(* Properties                                                              *)

Elements(s) == {s[i] : i \in 1..Len(s)}

(* No connection is twice in s, where 0 stands for an error.               *)
Once(s) == \A i, j \in 1..Len(s) : s[i] = s[j] /\ s[i] # 0 => i = j

Places(given, coming, queued) ==
  /\ Once(given) /\ Once(coming) /\ Once(queued)
  /\ Elements(given) \cap Elements(coming) = {}
  /\ (Elements(given) \cup Elements(coming)) \cap Elements(queued) = {}

Everyone(given, coming, queued) ==
  Elements(given) \cup (Elements(coming) \ {0}) \cup Elements(queued)

(* Every connection the kernel queued is in one place only: given to the   *)
(* client, on its way there, or still in the kernel.  Cancelling accepts   *)
(* loses none of them, since a completion that holds a connection is not   *)
(* aborted; only close drops those that nobody accepted.                   *)
EachConnectionOnce ==
  /\ Places(delivered, ready, backlog)
  /\ isOpen => Everyone(delivered, ready, backlog) = 1..arrived

(* "ASSERT_TRUE(acceptor.open(endpoint))"                                  *)
(* (test/async/test_streamdomainsocket.cpp:62): open succeeds when no      *)
(* system call is refused.                                                 *)
OpenSucceeds == opened # "error"
=============================================================================
