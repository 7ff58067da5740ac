------------------------ MODULE StreamClients_proofs ------------------------
(***************************************************************************)
(* The two ends of a connection, for any number of connections, of accepts *)
(* in progress and of sockets that connect.                                *)
(*                                                                         *)
(* Three invariants, each on top of the one before: where connections are  *)
(* (Listening), what a server adds to that (Chain: there is one accept at  *)
(* most, so connections are handled in the order of their numbers), and    *)
(* what a connecting socket has been told (Told).                          *)
(***************************************************************************)
EXTENDS StreamClients, SequenceTheorems, TLAPS

ListenTypeOK ==
  /\ pimpl \in Kinds \cup {"none"}
  /\ socket \in {"closed", "open", "bound", "listening"}
  /\ arrived \in Nat
  /\ waiting \in Nat
  /\ backlog \in Seq(1..arrived)
  /\ ready \in Seq(0..arrived)
  /\ delivered \in Seq(1..arrived)
  /\ failed \in BOOLEAN

(* Before open there is nothing.                                           *)
Fresh ==
  pimpl = "none" =>
    /\ socket = "closed" /\ arrived = 0 /\ waiting = 0
    /\ backlog = <<>> /\ ready = <<>> /\ delivered = <<>>

Listening == ListenTypeOK /\ Fresh /\ EachConnectionOnce

(* Connections that the server was given or will be.                       *)
Accepted == Len(delivered) + (IF ready # <<>> /\ ready[1] # 0 THEN 1 ELSE 0)

Chain ==
  user = "server" =>
    /\ OneChain
    /\ \A i \in 1..Len(delivered) : delivered[i] = i
    /\ ready # <<>> => ready[1] \in {0, Len(delivered) + 1}
    /\ IF socket = "listening"
       THEN /\ \A j \in 1..Len(backlog) : backlog[j] = Accepted + j
            /\ arrived = Accepted + Len(backlog)
       ELSE backlog = <<>> /\ waiting = 0

SocketTypeOK ==
  /\ impl \in [Socket -> {"tcp", "unix"}]
  /\ state \in [Socket -> {"closed", "open", "connecting", "connected"}]
  /\ op \in [Socket -> {"none", "reactor", "blocked", "ok", "error"}]
  /\ result \in [Socket -> {"none", "pending", "value", "error"}]
  /\ conn \in [Socket -> Nat]
  /\ disturbed \in [Socket -> BOOLEAN]

(* A socket has a connection when it is connected or was told so, and an   *)
(* attempt that nobody disturbed is told of what became of it.             *)
Told ==
  \A s \in Socket :
    /\ state[s] = "connected" \/ op[s] = "ok" \/ result[s] = "value" => conn[s] \in 1..arrived
    /\ state[s] = "connecting" /\ ~disturbed[s] => op[s] \in {"reactor", "blocked"}
    /\ state[s] = "connected" /\ ~disturbed[s] =>
         op[s] \in {"reactor", "blocked", "ok"} \/ (op[s] = "none" /\ result[s] = "value")

Inv == Listening /\ Chain /\ SocketTypeOK /\ Told
-----------------------------------------------------------------------------
(* Sequences of connections                                                *)

(* A sequence that gets one more.                                          *)
LEMMA Appended ==
  ASSUME NEW X, NEW s \in Seq(X), NEW x \in X
  PROVE  /\ Append(s, x) \in Seq(X)
         /\ Len(Append(s, x)) = Len(s) + 1
         /\ Elements(Append(s, x)) = Elements(s) \cup {x}
         /\ Once(s) /\ (x = 0 \/ x \notin Elements(s)) => Once(Append(s, x))
<1>1. /\ Append(s, x) \in Seq(X) /\ Len(Append(s, x)) = Len(s) + 1 /\ Len(s) \in Nat
      /\ \A i \in 1..Len(s) : Append(s, x)[i] = s[i]
      /\ Append(s, x)[Len(s) + 1] = x
  OBVIOUS
<1>2. Elements(Append(s, x)) = Elements(s) \cup {x}
  <2>1. ASSUME NEW y \in Elements(Append(s, x)) PROVE y \in Elements(s) \cup {x}
    <3>1. PICK i \in 1..(Len(s) + 1) : y = Append(s, x)[i]
      BY <1>1, <2>1 DEF Elements
    <3>2. i \in 1..Len(s) \/ i = Len(s) + 1
      BY <1>1
    <3> QED BY <1>1, <3>1, <3>2 DEF Elements
  <2>2. ASSUME NEW y \in Elements(s) \cup {x} PROVE y \in Elements(Append(s, x))
    <3>1. CASE y = x
      <4>1. Len(s) + 1 \in 1..Len(Append(s, x))
        BY <1>1
      <4> QED BY <1>1, <3>1, <4>1 DEF Elements
    <3>2. CASE y # x
      <4>1. PICK i \in 1..Len(s) : y = s[i]
        BY <2>2, <3>2 DEF Elements
      <4>2. i \in 1..Len(Append(s, x)) /\ y = Append(s, x)[i]
        BY <1>1, <4>1
      <4> QED BY <4>2 DEF Elements
    <3> QED BY <3>1, <3>2
  <2> QED BY <2>1, <2>2
<1>3. ASSUME Once(s), x = 0 \/ x \notin Elements(s) PROVE Once(Append(s, x))
  <2> SUFFICES ASSUME NEW i \in 1..(Len(s) + 1), NEW j \in 1..(Len(s) + 1),
                      Append(s, x)[i] = Append(s, x)[j], Append(s, x)[i] # 0
               PROVE  i = j
    BY <1>1 DEF Once
  <2>1. CASE i \in 1..Len(s) /\ j \in 1..Len(s)
    BY <1>1, <1>3, <2>1 DEF Once
  <2>2. CASE i \notin 1..Len(s) \/ j \notin 1..Len(s)
    <3>1. i = Len(s) + 1 \/ j = Len(s) + 1
      BY <1>1, <2>2
    <3>2. x # 0 /\ \A k \in 1..Len(s) : Append(s, x)[k] # x
      BY <1>1, <1>3, <3>1 DEF Elements
    <3> QED BY <1>1, <3>1, <3>2
  <2> QED BY <2>1, <2>2
<1> QED BY <1>1, <1>2, <1>3

(* A sequence that loses its first.                                        *)
LEMMA Shortened ==
  ASSUME NEW X, NEW s \in Seq(X), s # <<>>
  PROVE  /\ Head(s) \in X /\ Head(s) = s[1] /\ Head(s) \in Elements(s)
         /\ Tail(s) \in Seq(X) /\ Len(s) \in Nat \ {0}
         /\ Len(Tail(s)) = Len(s) - 1
         /\ \A i \in 1..Len(Tail(s)) : Tail(s)[i] = s[i + 1]
         /\ Elements(s) = Elements(Tail(s)) \cup {Head(s)}
         /\ Once(s) => Once(Tail(s)) /\ (Head(s) # 0 => Head(s) \notin Elements(Tail(s)))
<1>1. /\ Head(s) \in X /\ Head(s) = s[1] /\ Tail(s) \in Seq(X)
      /\ Len(s) \in Nat \ {0} /\ Len(Tail(s)) = Len(s) - 1
      /\ \A i \in 1..Len(Tail(s)) : Tail(s)[i] = s[i + 1]
  BY EmptySeq, HeadTailProperties
<1>2. Head(s) \in Elements(s)
  BY <1>1 DEF Elements
<1>3. Elements(s) = Elements(Tail(s)) \cup {Head(s)}
  <2>1. ASSUME NEW y \in Elements(s) PROVE y \in Elements(Tail(s)) \cup {Head(s)}
    <3>1. PICK i \in 1..Len(s) : y = s[i]
      BY <2>1 DEF Elements
    <3>2. CASE i = 1
      BY <1>1, <3>1, <3>2
    <3>3. CASE i # 1
      <4>1. i - 1 \in 1..Len(Tail(s)) /\ Tail(s)[i - 1] = s[i]
        BY <1>1, <3>3
      <4> QED BY <3>1, <4>1 DEF Elements
    <3> QED BY <3>2, <3>3
  <2>2. ASSUME NEW y \in Elements(Tail(s)) PROVE y \in Elements(s)
    <3>1. PICK i \in 1..Len(Tail(s)) : y = Tail(s)[i]
      BY <2>2 DEF Elements
    <3>2. i + 1 \in 1..Len(s) /\ y = s[i + 1]
      BY <1>1, <3>1
    <3> QED BY <3>2 DEF Elements
  <2> QED BY <2>1, <2>2, <1>2
<1>4. ASSUME Once(s) PROVE Once(Tail(s)) /\ (Head(s) # 0 => Head(s) \notin Elements(Tail(s)))
  <2>1. Once(Tail(s))
    <3> SUFFICES ASSUME NEW i \in 1..Len(Tail(s)), NEW j \in 1..Len(Tail(s)),
                        Tail(s)[i] = Tail(s)[j], Tail(s)[i] # 0
                 PROVE  i = j
      BY DEF Once
    <3>1. i + 1 \in 1..Len(s) /\ j + 1 \in 1..Len(s) /\ s[i + 1] = s[j + 1] /\ s[i + 1] # 0
      BY <1>1
    <3> QED BY <1>4, <3>1 DEF Once
  <2>2. ASSUME Head(s) # 0, Head(s) \in Elements(Tail(s)) PROVE FALSE
    <3>1. PICK i \in 1..Len(Tail(s)) : Head(s) = Tail(s)[i]
      BY <2>2 DEF Elements
    <3>2. i + 1 \in 1..Len(s) /\ 1 \in 1..Len(s) /\ s[i + 1] = s[1] /\ i + 1 # 1 /\ s[1] # 0
      BY <1>1, <2>2, <3>1
    <3> QED BY <1>4, <3>2 DEF Once
  <2> QED BY <2>1, <2>2
<1> QED BY <1>1, <1>2, <1>3, <1>4

(* Completions with an error, added by cancel and close, are no            *)
(* connections (Aborted).                                                  *)
LEMMA AbortedFacts ==
  ASSUME waiting \in Nat, NEW n \in Nat, NEW q \in Seq(0..n)
  PROVE  /\ Aborted(q) \in Seq(0..n)
         /\ Len(Aborted(q)) = Len(q) + waiting
         /\ \A i \in 1..Len(q) : Aborted(q)[i] = q[i]
         /\ Elements(Aborted(q)) \subseteq Elements(q) \cup {0}
         /\ Elements(q) \subseteq Elements(Aborted(q))
         /\ Once(q) => Once(Aborted(q))
<1> DEFINE z == [i \in 1..waiting |-> 0]
           a == Aborted(q)
<1>1. z \in Seq(0..n) /\ Len(z) = waiting
  OBVIOUS
<1>2. a = q \o z
  BY DEF Aborted
<1>3. /\ a \in Seq(0..n) /\ Len(a) = Len(q) + waiting /\ Len(q) \in Nat
      /\ \A i \in 1..Len(q) : a[i] = q[i]
      /\ \A i \in 1..Len(a) : i > Len(q) => a[i] = 0
  <2>1. a \in Seq(0..n) /\ Len(a) = Len(q) + Len(z)
    BY <1>1, <1>2, ConcatProperties
  <2>2. \A i \in 1..(Len(q) + Len(z)) : a[i] = IF i <= Len(q) THEN q[i] ELSE z[i - Len(q)]
    BY <1>1, <1>2, ConcatProperties
  <2> QED BY <1>1, <2>1, <2>2
<1> HIDE DEF a
<1>4. Elements(a) \subseteq Elements(q) \cup {0} /\ Elements(q) \subseteq Elements(a)
  <2>1. ASSUME NEW i \in 1..Len(a) PROVE a[i] \in Elements(q) \cup {0}
    <3>1. i \in 1..Len(q) \/ i > Len(q)
      BY <1>3
    <3> QED BY <1>3, <3>1 DEF Elements
  <2>2. ASSUME NEW i \in 1..Len(q) PROVE q[i] \in Elements(a)
    <3>1. i \in 1..Len(a) /\ a[i] = q[i]
      BY <1>3
    <3> QED BY <3>1 DEF Elements
  <2> QED BY <2>1, <2>2 DEF Elements
<1>5. Once(q) => Once(a)
  BY <1>3 DEF Once
<1> QED BY <1>3, <1>4, <1>5 DEF a

(* Where a connection goes, one lemma for each way it takes; d, r and b    *)
(* stand for delivered, ready and backlog.                                 *)

(* accept takes the first of the kernel's queue.                           *)
LEMMA TakenAtOnce ==
  ASSUME NEW n \in Nat, NEW d \in Seq(1..n), NEW r \in Seq(0..n), NEW b \in Seq(1..n),
         b # <<>>, Places(d, r, b)
  PROVE  /\ Places(Append(d, Head(b)), r, Tail(b))
         /\ Everyone(Append(d, Head(b)), r, Tail(b)) = Everyone(d, r, b)
<1>1. /\ Head(b) \in 1..n /\ Elements(b) = Elements(Tail(b)) \cup {Head(b)}
      /\ Once(Tail(b)) /\ Head(b) \notin Elements(Tail(b)) /\ Head(b) \in Elements(b)
  BY Shortened DEF Places
<1>2. /\ Elements(Append(d, Head(b))) = Elements(d) \cup {Head(b)}
      /\ Head(b) \notin Elements(d) => Once(Append(d, Head(b)))
  BY <1>1, Appended DEF Places
<1>3. Head(b) # 0
  BY <1>1
<1> QED BY <1>1, <1>2, <1>3 DEF Places, Everyone

(* An asynchronous accept completes with the first of the kernel's queue.  *)
LEMMA TakenToLoop ==
  ASSUME NEW n \in Nat, NEW d \in Seq(1..n), NEW r \in Seq(0..n), NEW b \in Seq(1..n),
         b # <<>>, Places(d, r, b)
  PROVE  /\ Places(d, Append(r, Head(b)), Tail(b))
         /\ Everyone(d, Append(r, Head(b)), Tail(b)) = Everyone(d, r, b)
<1>1. /\ Head(b) \in 1..n /\ Elements(b) = Elements(Tail(b)) \cup {Head(b)}
      /\ Once(Tail(b)) /\ Head(b) \notin Elements(Tail(b)) /\ Head(b) \in Elements(b)
  BY Shortened DEF Places
<1>2. /\ Elements(Append(r, Head(b))) = Elements(r) \cup {Head(b)}
      /\ Head(b) \notin Elements(r) => Once(Append(r, Head(b)))
  <2>1. Head(b) \in 0..n
    BY <1>1
  <2> QED BY <2>1, Appended DEF Places
<1>3. Head(b) # 0
  BY <1>1
<1> QED BY <1>1, <1>2, <1>3 DEF Places, Everyone

(* The handler is given the connection of the first completion.            *)
LEMMA HandedOut ==
  ASSUME NEW n \in Nat, NEW d \in Seq(1..n), NEW r \in Seq(0..n), NEW b \in Seq(1..n),
         r # <<>>, Head(r) # 0, Places(d, r, b)
  PROVE  /\ Places(Append(d, Head(r)), Tail(r), b)
         /\ Everyone(Append(d, Head(r)), Tail(r), b) = Everyone(d, r, b)
<1>1. /\ Head(r) \in 0..n /\ Elements(r) = Elements(Tail(r)) \cup {Head(r)}
      /\ Once(Tail(r)) /\ Head(r) \notin Elements(Tail(r)) /\ Head(r) \in Elements(r)
  BY Shortened DEF Places
<1>2. /\ Elements(Append(d, Head(r))) = Elements(d) \cup {Head(r)}
      /\ Head(r) \notin Elements(d) => Once(Append(d, Head(r)))
  <2>1. Head(r) \in 1..n
    BY <1>1
  <2> QED BY <2>1, Appended DEF Places
<1> QED BY <1>1, <1>2 DEF Places, Everyone

(* A completion with an error.                                             *)
LEMMA ErrorAdded ==
  ASSUME NEW n \in Nat, NEW d \in Seq(1..n), NEW r \in Seq(0..n), NEW b \in Seq(1..n),
         Places(d, r, b)
  PROVE  /\ Places(d, Append(r, 0), b)
         /\ Everyone(d, Append(r, 0), b) = Everyone(d, r, b)
<1>1. Elements(Append(r, 0)) = Elements(r) \cup {0} /\ Once(Append(r, 0))
  <2>1. 0 \in 0..n
    OBVIOUS
  <2> QED BY <2>1, Appended DEF Places
<1>2. 0 \notin Elements(d) /\ 0 \notin Elements(b)
  BY DEF Elements
<1> QED BY <1>1, <1>2 DEF Places, Everyone

(* The handler is told of the error.                                       *)
LEMMA ErrorTold ==
  ASSUME NEW n \in Nat, NEW d \in Seq(1..n), NEW r \in Seq(0..n), NEW b \in Seq(1..n),
         r # <<>>, Head(r) = 0, Places(d, r, b)
  PROVE  /\ Places(d, Tail(r), b)
         /\ Everyone(d, Tail(r), b) = Everyone(d, r, b)
<1>1. Elements(r) = Elements(Tail(r)) \cup {0} /\ Once(Tail(r))
  BY Shortened DEF Places
<1> QED BY <1>1 DEF Places, Everyone

(* close and cancel abort what is in the reactor.                          *)
LEMMA AbortsAdded ==
  ASSUME waiting \in Nat,
         NEW n \in Nat, NEW d \in Seq(1..n), NEW r \in Seq(0..n), NEW b \in Seq(1..n),
         Places(d, r, b)
  PROVE  /\ Places(d, Aborted(r), b)
         /\ Everyone(d, Aborted(r), b) = Everyone(d, r, b)
<1>1. /\ Elements(Aborted(r)) \subseteq Elements(r) \cup {0} /\ Once(Aborted(r))
      /\ Elements(r) \subseteq Elements(Aborted(r))
  BY AbortedFacts DEF Places
<1>2. 0 \notin Elements(d) /\ 0 \notin Elements(b)
  BY DEF Elements
<1> QED BY <1>1, <1>2 DEF Places, Everyone

(* close drops the kernel's queue.                                         *)
LEMMA QueueDropped ==
  ASSUME NEW d, NEW r, NEW b, Places(d, r, b)
  PROVE  Places(d, r, <<>>)
BY DEF Places, Once, Elements

(* A connection arrives.                                                   *)
LEMMA OneArrives ==
  ASSUME NEW n \in Nat, NEW d \in Seq(1..n), NEW r \in Seq(0..n), NEW b \in Seq(1..n),
         Places(d, r, b)
  PROVE  /\ Places(d, r, Append(b, n + 1))
         /\ Everyone(d, r, Append(b, n + 1)) = Everyone(d, r, b) \cup {n + 1}
         /\ d \in Seq(1..(n + 1)) /\ r \in Seq(0..(n + 1)) /\ Append(b, n + 1) \in Seq(1..(n + 1))
<1>1. d \in Seq(1..(n + 1)) /\ r \in Seq(0..(n + 1)) /\ b \in Seq(1..(n + 1))
  OBVIOUS
<1>2. n + 1 \notin Elements(d) /\ n + 1 \notin Elements(r) /\ n + 1 \notin Elements(b)
  BY DEF Elements
<1>3. /\ Elements(Append(b, n + 1)) = Elements(b) \cup {n + 1} /\ Once(Append(b, n + 1))
      /\ Append(b, n + 1) \in Seq(1..(n + 1))
  <2>1. n + 1 \in 1..(n + 1)
    OBVIOUS
  <2> QED BY <1>1, <1>2, <2>1, Appended DEF Places
<1> QED BY <1>1, <1>2, <1>3 DEF Places, Everyone
-----------------------------------------------------------------------------
(* Where connections are                                                   *)

(* asyncAccept, tried at once or by the reactor: the connection it takes,  *)
(* or its error, is behind the completions q.                              *)
LEMMA AcceptTried ==
  ASSUME ListenTypeOK, NEW d \in Seq(1..arrived), NEW q \in Seq(0..arrived), NEW s,
         Places(d, q, backlog), TryAccept(s, q)
  PROVE  /\ Places(d, ready', backlog')
         /\ Everyone(d, ready', backlog') = Everyone(d, q, backlog)
         /\ ready' \in Seq(0..arrived) /\ backlog' \in Seq(1..arrived)
<1>0. arrived \in Nat /\ backlog \in Seq(1..arrived) /\ 0 \in 0..arrived
  BY DEF ListenTypeOK
<1>1. CASE backlog # <<>> /\ ready' = Append(q, Head(backlog)) /\ backlog' = Tail(backlog)
  <2>1. Head(backlog) \in 1..arrived /\ Tail(backlog) \in Seq(1..arrived)
    BY <1>0, <1>1, Shortened
  <2>2. ready' \in Seq(0..arrived)
    BY <1>1, <2>1
  <2> QED BY <1>0, <1>1, <2>1, <2>2, TakenToLoop
<1>2. CASE ready' = Append(q, 0) /\ UNCHANGED backlog
  <2>1. ready' \in Seq(0..arrived)
    BY <1>0, <1>2
  <2> QED BY <1>0, <1>2, <2>1, ErrorAdded
<1> QED BY <1>1, <1>2 DEF TryAccept

LEMMA AcceptStarted ==
  ASSUME ListenTypeOK, NEW d \in Seq(1..arrived), NEW q \in Seq(0..arrived), NEW s,
         Places(d, q, backlog), StartAccept(s, q)
  PROVE  /\ Places(d, ready', backlog')
         /\ Everyone(d, ready', backlog') = Everyone(d, q, backlog)
         /\ ready' \in Seq(0..arrived) /\ backlog' \in Seq(1..arrived) /\ waiting' \in Nat
<1>1. CASE TryAccept(s, q) /\ UNCHANGED waiting
  BY <1>1, AcceptTried DEF ListenTypeOK
<1>2. CASE ready' = q /\ UNCHANGED backlog /\ waiting' = waiting + 1
  BY <1>2 DEF ListenTypeOK
<1> QED BY <1>1, <1>2 DEF StartAccept

(* The listening socket after an open that got as far as step k.           *)
LEMMA SocketStates ==
  ASSUME NEW steps, NEW k
  PROVE  SocketAfter(steps, k) \in {"closed", "open", "bound", "listening"}
<1> DEFINE L == \E i \in 1..k : steps[i] = "listen"
           B == \E i \in 1..k : steps[i] = "bind"
           O == \E i \in 1..k : steps[i] = "open"
<1>1. SocketAfter(steps, k) = CASE L -> "listening"
                                [] ~L /\ B -> "bound"
                                [] ~B /\ O -> "open"
                                [] OTHER -> "closed"
  BY DEF SocketAfter
<1> HIDE DEF L, B, O
<1> QED BY <1>1

(* What a call of open may change, and whether it is the first.            *)
LEMMA Opened ==
  ASSUME Listening, NEW kind \in Kinds, NEW k, open(kind, k)
  PROVE  \/ pimpl # "none" /\ UNCHANGED <<pimpl, socket>> /\ opened' = "ISCONN"
         \/ /\ pimpl = "none" /\ pimpl' = kind /\ pimpl' # "none"
            /\ socket' \in {"closed", "open", "bound", "listening"}
            /\ socket' = SocketAfter(Steps(kind), k)
            /\ opened' = "ok" => k = Len(Steps(kind))
<1>1. "none" \notin Kinds
  BY AcceptorAssumption
<1> QED BY <1>1, SocketStates DEF open

(* The acceptor while it is opened: nothing was there before.              *)
LEMMA OpenListening ==
  ASSUME Listening, NEW kind \in Kinds, NEW k, open(kind, k), UNCHANGED <<arrived, delivered, failed>>,
         UNCHANGED <<backlog, waiting, ready>> \/ StartAccept(socket', ready)
  PROVE  Listening'
<1>0. arrived \in Nat /\ delivered \in Seq(1..arrived) /\ ready \in Seq(0..arrived)
  BY DEF Listening, ListenTypeOK
<1>1. /\ pimpl' \in Kinds \cup {"none"} /\ pimpl' # "none"
      /\ socket' \in {"closed", "open", "bound", "listening"}
  BY Opened DEF Listening, ListenTypeOK
<1>2. /\ Places(delivered, ready', backlog')
      /\ Everyone(delivered, ready', backlog') = Everyone(delivered, ready, backlog)
      /\ ready' \in Seq(0..arrived) /\ backlog' \in Seq(1..arrived) /\ waiting' \in Nat
  <2>1. CASE UNCHANGED <<backlog, waiting, ready>>
    BY <2>1 DEF Listening, ListenTypeOK, EachConnectionOnce
  <2>2. CASE StartAccept(socket', ready)
    BY <1>0, <2>2, AcceptStarted DEF Listening, EachConnectionOnce
  <2> QED BY <2>1, <2>2
<1>3. isOpen' => Everyone(delivered, ready, backlog) = 1..arrived
  <2>1. CASE pimpl # "none"
    BY <2>1, Opened DEF Listening, EachConnectionOnce, isOpen
  <2>2. CASE pimpl = "none"
    <3>1. delivered = <<>> /\ ready = <<>> /\ backlog = <<>> /\ arrived = 0
      BY <2>2 DEF Listening, Fresh
    <3>2. Elements(<<>>) = {} /\ 1..0 = {}
      BY DEF Elements
    <3> QED BY <3>1, <3>2 DEF Everyone
  <2> QED BY <2>1, <2>2
<1>4. ListenTypeOK'
  BY <1>1, <1>2 DEF Listening, ListenTypeOK
<1> QED BY <1>1, <1>2, <1>3, <1>4 DEF Listening, Fresh, EachConnectionOnce

(* A connection arrives.                                                   *)
LEMMA ConnectListening ==
  ASSUME Listening, Connect
  PROVE  Listening'
<1>0. /\ arrived \in Nat /\ delivered \in Seq(1..arrived) /\ ready \in Seq(0..arrived)
      /\ backlog \in Seq(1..arrived) /\ Places(delivered, ready, backlog)
  BY DEF Listening, ListenTypeOK, EachConnectionOnce
<1>1. /\ arrived' = arrived + 1 /\ backlog' = Append(backlog, arrived + 1)
      /\ UNCHANGED <<pimpl, socket, waiting, ready, delivered, failed>> /\ socket = "listening"
  BY DEF Connect, listener
<1>2. Everyone(delivered, ready, backlog) = 1..arrived
  BY <1>1 DEF Listening, EachConnectionOnce, isOpen
<1>3. /\ Places(delivered, ready, backlog')
      /\ Everyone(delivered, ready, backlog') = 1..arrived'
      /\ delivered \in Seq(1..arrived') /\ ready \in Seq(0..arrived') /\ backlog' \in Seq(1..arrived')
  <2>1. 1..(arrived + 1) = (1..arrived) \cup {arrived + 1}
    BY <1>0
  <2> DEFINE b == Append(backlog, arrived + 1)
  <2>2. /\ Places(delivered, ready, b)
        /\ Everyone(delivered, ready, b) = Everyone(delivered, ready, backlog) \cup {arrived + 1}
        /\ delivered \in Seq(1..(arrived + 1)) /\ ready \in Seq(0..(arrived + 1))
        /\ b \in Seq(1..(arrived + 1))
    BY <1>0, OneArrives
  <2> HIDE DEF b
  <2>3. backlog' = b
    BY <1>1 DEF b
  <2> QED BY <1>1, <1>2, <2>1, <2>2, <2>3
<1>4. ListenTypeOK'
  BY <1>0, <1>1, <1>3 DEF Listening, ListenTypeOK
<1> QED BY <1>1, <1>3, <1>4 DEF Listening, Fresh, EachConnectionOnce

(* A step of the event loop or of a client that leaves the socket alone:   *)
(* it is enough that no connection is lost or doubled.                     *)
LEMMA MovedListening ==
  ASSUME Listening, pimpl # "none", UNCHANGED <<pimpl, socket, arrived>>,
         Places(delivered', ready', backlog'),
         Everyone(delivered', ready', backlog') = Everyone(delivered, ready, backlog),
         waiting' \in Nat, failed' \in BOOLEAN, backlog' \in Seq(1..arrived),
         ready' \in Seq(0..arrived), delivered' \in Seq(1..arrived)
  PROVE  Listening'
<1>1. ListenTypeOK'
  BY DEF Listening, ListenTypeOK
<1> QED BY <1>1 DEF Listening, Fresh, EachConnectionOnce, isOpen

(* The listening socket is closed; d and q are what the step makes of      *)
(* delivered and of the completions.                                       *)
LEMMA ClosedListening ==
  ASSUME Listening, pimpl # "none", Closed, UNCHANGED <<arrived, failed>>,
         NEW d \in Seq(1..arrived), NEW q \in Seq(0..arrived), Places(d, q, backlog),
         delivered' = d, ready' = Aborted(q)
  PROVE  Listening'
<1>0. /\ arrived \in Nat /\ waiting \in Nat /\ backlog \in Seq(1..arrived)
      /\ socket' = "closed" /\ backlog' = <<>> /\ waiting' = 0 /\ UNCHANGED pimpl
  BY DEF Listening, ListenTypeOK, Closed
<1>1. Aborted(q) \in Seq(0..arrived) /\ Places(d, Aborted(q), backlog)
  BY <1>0, AbortedFacts, AbortsAdded
<1>2. Places(delivered', ready', backlog')
  BY <1>0, <1>1, QueueDropped
<1>3. ListenTypeOK'
  BY <1>0, <1>1 DEF Listening, ListenTypeOK
<1> QED BY <1>0, <1>2, <1>3 DEF Listening, Fresh, EachConnectionOnce, isOpen

(* Every step of a client or of a server keeps the connections right.      *)
LEMMA ListeningStep ==
  ASSUME Listening, [UsedNext]_allVars
  PROVE  Listening'
<1>0. /\ arrived \in Nat /\ waiting \in Nat /\ failed \in BOOLEAN
      /\ delivered \in Seq(1..arrived) /\ ready \in Seq(0..arrived)
      /\ backlog \in Seq(1..arrived) /\ Places(delivered, ready, backlog) /\ ListenTypeOK
      /\ \A i \in 1..Len(ready) : ready[i] \in 0..arrived
  BY DEF Listening, ListenTypeOK, EachConnectionOnce
<1>1. ASSUME NEW kind \in Kinds, Open(kind) \/ startListen(kind)
      PROVE  Listening'
  <2>1. PICK k : open(kind, k)
    BY <1>1 DEF Open, startListen
  <2>2. /\ UNCHANGED <<arrived, delivered, failed>>
        /\ UNCHANGED <<backlog, waiting, ready>> \/ StartAccept(socket', ready)
    BY <1>1 DEF Open, startListen
  <2> QED BY <2>1, <2>2, OpenListening
<1>2. CASE Connect
  BY <1>2, ConnectListening
<1>3. CASE Reactor
  <2>1. /\ pimpl # "none" /\ UNCHANGED <<pimpl, socket, arrived, delivered, failed>>
        /\ TryAccept(socket, ready) /\ waiting' \in Nat
    BY <1>0, <1>3 DEF Reactor, listener, Listening, Fresh
  <2> QED BY <1>0, <2>1, AcceptTried, MovedListening
<1>4. CASE asyncAccept
  <2>1. /\ pimpl # "none" /\ UNCHANGED <<pimpl, socket, arrived, delivered, failed>>
        /\ StartAccept(socket, ready)
    BY <1>4 DEF asyncAccept, listener
  <2> QED BY <1>0, <2>1, AcceptStarted, MovedListening
<1>5. CASE accept
  <2>1. pimpl # "none" /\ UNCHANGED <<pimpl, socket, arrived, waiting, ready>>
    BY <1>5 DEF accept, listener
  <2>2. CASE backlog # <<>> /\ delivered' = Append(delivered, Head(backlog))
             /\ backlog' = Tail(backlog) /\ UNCHANGED failed
    <3>1. Head(backlog) \in 1..arrived /\ Tail(backlog) \in Seq(1..arrived)
      BY <1>0, <2>2, Shortened
    <3>2. delivered' \in Seq(1..arrived)
      BY <1>0, <2>2, <3>1
    <3> QED BY <1>0, <2>1, <2>2, <3>1, <3>2, TakenAtOnce, MovedListening
  <2>3. CASE failed' = TRUE /\ UNCHANGED <<backlog, delivered>>
    BY <1>0, <2>1, <2>3, MovedListening
  <2> QED BY <1>5, <2>2, <2>3 DEF accept
<1>6. CASE close
  BY <1>0, <1>6, ClosedListening DEF close
<1>7. CASE cancel
  <2>1. /\ pimpl # "none" /\ UNCHANGED <<pimpl, socket, arrived, backlog, delivered, failed>>
        /\ waiting' \in Nat /\ ready' = Aborted(ready)
    BY <1>7 DEF cancel, listener, isOpen, Listening, Fresh
  <2>2. ready' \in Seq(0..arrived)
    BY <1>0, <2>1, AbortedFacts
  <2>3. /\ Places(delivered, ready', backlog)
        /\ Everyone(delivered, ready', backlog) = Everyone(delivered, ready, backlog)
    BY <1>0, <2>1, AbortsAdded
  <2> QED BY <1>0, <2>1, <2>2, <2>3, MovedListening
<1>8. ASSUME ready # <<>>
      PROVE  /\ pimpl # "none" /\ Tail(ready) \in Seq(0..arrived)
             /\ Head(ready) # 0 => Append(delivered, Head(ready)) \in Seq(1..arrived)
  <2>1. Head(ready) \in 0..arrived /\ Tail(ready) \in Seq(0..arrived)
    BY <1>0, <1>8, Shortened
  <2> QED BY <1>0, <1>8, <2>1 DEF Listening, Fresh
<1>9. ASSUME Head(ready) = 0, ready # <<>>, ready' = Tail(ready), failed' \in BOOLEAN,
             UNCHANGED <<pimpl, socket, arrived, backlog, waiting, delivered>>
      PROVE  Listening'
  BY <1>0, <1>8, <1>9, ErrorTold, MovedListening
<1>10. ASSUME Head(ready) # 0, ready # <<>>, ready' = Tail(ready),
              delivered' = Append(delivered, Head(ready)),
              UNCHANGED <<pimpl, socket, arrived, backlog, waiting, failed>>
       PROVE  Listening'
  BY <1>0, <1>8, <1>10, HandedOut, MovedListening
<1>11. CASE Handler \/ SessionError
  <2>1. ready # <<>> /\ ready' = Tail(ready) /\ UNCHANGED <<pimpl, socket, arrived, backlog, waiting>>
    BY <1>11 DEF Handler, SessionError, listener
  <2>2. \/ Head(ready) = 0 /\ failed' = TRUE /\ UNCHANGED delivered
        \/ Head(ready) # 0 /\ delivered' = Append(delivered, Head(ready)) /\ UNCHANGED failed
    BY <1>11 DEF Handler, SessionError
  <2> QED BY <1>9, <1>10, <2>1, <2>2
<1>12. CASE Session
  <2> DEFINE d == Append(delivered, Head(ready))
  <2>1. /\ ready # <<>> /\ Head(ready) # 0 /\ delivered' = d /\ UNCHANGED <<arrived, failed>>
    BY <1>12 DEF Session
  <2>2. d \in Seq(1..arrived) /\ Tail(ready) \in Seq(0..arrived) /\ pimpl # "none"
    BY <1>8, <2>1
  <2>3. /\ Places(d, Tail(ready), backlog)
        /\ Everyone(d, Tail(ready), backlog) = Everyone(delivered, ready, backlog)
    BY <1>0, <2>1, HandedOut
  <2>4. CASE Closed /\ ready' = Aborted(Tail(ready))
    BY <2>1, <2>2, <2>3, <2>4, ClosedListening
  <2>5. CASE UNCHANGED listener /\ StartAccept(socket, Tail(ready))
    <3> HIDE DEF d
    <3>1. UNCHANGED <<pimpl, socket>>
      BY <2>5 DEF listener
    <3>2. /\ Places(d, ready', backlog')
          /\ Everyone(d, ready', backlog') = Everyone(d, Tail(ready), backlog)
          /\ ready' \in Seq(0..arrived) /\ backlog' \in Seq(1..arrived) /\ waiting' \in Nat
      BY <1>0, <2>2, <2>3, <2>5, AcceptStarted
    <3> QED BY <1>0, <2>1, <2>2, <2>3, <3>1, <3>2, MovedListening
  <2>6. CASE UNCHANGED listener /\ ready' = Tail(ready) /\ UNCHANGED <<backlog, waiting>>
    BY <1>10, <2>1, <2>6 DEF listener
  <2> QED BY <1>12, <2>4, <2>5, <2>6 DEF Session
<1>13. CASE UNCHANGED vars
  BY <1>13 DEF vars, listener, Listening, ListenTypeOK, Fresh, EachConnectionOnce, isOpen
<1> QED
  BY <1>1, <1>2, <1>3, <1>4, <1>5, <1>6, <1>7, <1>11, <1>12, <1>13
     DEF UsedNext, Next, ServerNext, stop, allVars
-----------------------------------------------------------------------------
(* The chain of accepts                                                    *)

(* open listens when the last of its steps has succeeded, and only then.   *)
LEMMA ListeningIsLast ==
  ASSUME NEW kind \in Kinds, NEW k \in 0..Len(Steps(kind))
  PROVE  SocketAfter(Steps(kind), k) = "listening" <=> k = Len(Steps(kind))
<1> DEFINE steps == Steps(kind)
<1>1. /\ Len(steps) = 5 /\ steps[5] = "listen"
      /\ \A i \in 1..4 : steps[i] # "listen"
  <2>1. steps = TcpSteps \/ steps = UnixSteps
    BY DEF Steps
  <2> QED BY <2>1 DEF TcpSteps, UnixSteps
<1> HIDE DEF steps
<1> DEFINE L == \E i \in 1..k : steps[i] = "listen"
           B == \E i \in 1..k : steps[i] = "bind"
           O == \E i \in 1..k : steps[i] = "open"
<1>2. SocketAfter(steps, k) = CASE L -> "listening"
                                [] ~L /\ B -> "bound"
                                [] ~B /\ O -> "open"
                                [] OTHER -> "closed"
  BY DEF SocketAfter
<1>3. CASE k = 5
  <2>1. L /\ k = Len(steps)
    BY <1>1, <1>3
  <2>2. B /\ ~(~L /\ B) /\ ~(~B /\ O)
    <3>1. \E i \in 1..5 : steps[i] = "bind"
      <4>1. steps[4] = "bind"
        BY DEF steps, Steps, TcpSteps, UnixSteps
      <4> QED BY <4>1
    <3> QED BY <1>3, <2>1, <3>1
  <2> HIDE DEF L, B, O
  <2> QED BY <1>2, <2>1, <2>2 DEF steps
<1>4. CASE k # 5
  <2>1. ~L /\ k # Len(steps)
    <3>1. k \in 0..4
      BY <1>1, <1>4 DEF steps
    <3> QED BY <1>1, <3>1
  <2> HIDE DEF L, B, O
  <2> QED BY <1>2, <2>1 DEF steps
<1> QED BY <1>3, <1>4

(* What the chain says of the completions in the event loop: there is one  *)
(* at most.                                                                *)
LEMMA ChainFacts ==
  ASSUME Listening, Chain, user = "server"
  PROVE  /\ Len(delivered) \in Nat /\ Len(ready) \in {0, 1} /\ waiting \in {0, 1}
         /\ Len(ready) = 0 <=> ready = <<>>
         /\ waiting + Len(ready) <= 1
         /\ ready = <<>> => Accepted = Len(delivered)
         /\ ready # <<>> /\ Head(ready) = 0 => Accepted = Len(delivered)
         /\ ready # <<>> /\ Head(ready) # 0 =>
              Accepted = Len(delivered) + 1 /\ Head(ready) = Len(delivered) + 1
         /\ ready # <<>> => Head(ready) = ready[1] /\ Tail(ready) = <<>>
         /\ Len(backlog) \in Nat /\ arrived \in Nat
<1>1. /\ Len(delivered) \in Nat /\ Len(ready) \in Nat /\ waiting \in Nat /\ arrived \in Nat
      /\ Len(backlog) \in Nat /\ ready \in Seq(0..arrived)
  BY DEF Listening, ListenTypeOK
<1>2. waiting + Len(ready) <= 1
  BY DEF Chain, OneChain
<1>3. Len(ready) \in {0, 1} /\ waiting \in {0, 1} /\ (Len(ready) = 0 <=> ready = <<>>)
  <2>1. Len(ready) \in {0, 1} /\ waiting \in {0, 1}
    <3>1. \A a, b \in Nat : a + b <= 1 => a \in {0, 1} /\ b \in {0, 1}
      OBVIOUS
    <3> QED BY <1>1, <1>2, <3>1
  <2>2. Len(ready) = 0 <=> ready = <<>>
    BY <1>1, EmptySeq
  <2> QED BY <2>1, <2>2
<1>4. ASSUME ready # <<>> PROVE Head(ready) = ready[1] /\ Tail(ready) = <<>>
  <2>1. Tail(ready) \in Seq(0..arrived) /\ Len(Tail(ready)) = 0 /\ Head(ready) = ready[1]
    BY <1>1, <1>3, <1>4, Shortened
  <2> QED BY <2>1, EmptySeq
<1>5. ready # <<>> => ready[1] \in {0, Len(delivered) + 1}
  BY DEF Chain
<1> QED BY <1>1, <1>2, <1>3, <1>4, <1>5 DEF Accepted

(* What one try of the only accept does: m connections were accepted       *)
(* before it.                                                              *)
LEMMA NextTried ==
  ASSUME Listening, NEW m \in Nat, NEW s,
         s = "listening" =>
           /\ \A j \in 1..Len(backlog) : backlog[j] = m + j
           /\ arrived = m + Len(backlog),
         s # "listening" => backlog = <<>>,
         TryAccept(s, <<>>)
  PROVE  /\ Len(ready') = 1 /\ ready' # <<>> /\ ready'[1] \in {0, m + 1}
         /\ LET a == m + (IF ready' # <<>> /\ ready'[1] # 0 THEN 1 ELSE 0)
            IN  IF s = "listening"
                THEN /\ \A j \in 1..Len(backlog') : backlog'[j] = a + j
                     /\ arrived = a + Len(backlog')
                ELSE backlog' = <<>>
<1>0. backlog \in Seq(1..arrived) /\ arrived \in Nat /\ Len(backlog) \in Nat
  BY DEF Listening, ListenTypeOK
<1>1. CASE s = "listening" /\ backlog # <<>> /\ ready' = Append(<<>>, Head(backlog))
           /\ backlog' = Tail(backlog)
  <2>1. /\ Head(backlog) = backlog[1] /\ Len(backlog) >= 1
        /\ Len(Tail(backlog)) = Len(backlog) - 1
        /\ \A i \in 1..Len(Tail(backlog)) : Tail(backlog)[i] = backlog[i + 1]
    BY <1>0, <1>1, Shortened
  <2>2. Head(backlog) = m + 1
    BY <1>0, <1>1, <2>1
  <2>3. ready' # <<>> /\ Len(ready') = 1 /\ ready'[1] = m + 1
    BY <1>1, <2>2
  <2>4. /\ \A j \in 1..Len(backlog') : backlog'[j] = (m + 1) + j
        /\ arrived = (m + 1) + Len(backlog')
    BY <1>0, <1>1, <2>1
  <2> QED BY <1>1, <2>3, <2>4
<1>2. CASE ready' = Append(<<>>, 0) /\ UNCHANGED backlog
  <2>1. ready' # <<>> /\ Len(ready') = 1 /\ ready'[1] = 0
    BY <1>2
  <2> QED BY <1>2, <2>1
<1> QED BY <1>1, <1>2 DEF TryAccept

(* The same when the accept is started, and may be left to the reactor.    *)
LEMMA NextStarted ==
  ASSUME Listening, NEW m \in Nat, NEW s, waiting = 0,
         s = "listening" =>
           /\ \A j \in 1..Len(backlog) : backlog[j] = m + j
           /\ arrived = m + Len(backlog),
         s # "listening" => backlog = <<>>,
         StartAccept(s, <<>>)
  PROVE  /\ waiting' \in {0, 1} /\ waiting' + Len(ready') = 1
         /\ ready' # <<>> => ready'[1] \in {0, m + 1}
         /\ LET a == m + (IF ready' # <<>> /\ ready'[1] # 0 THEN 1 ELSE 0)
            IN  IF s = "listening"
                THEN /\ \A j \in 1..Len(backlog') : backlog'[j] = a + j
                     /\ arrived = a + Len(backlog')
                ELSE backlog' = <<>> /\ waiting' = 0
<1>1. CASE TryAccept(s, <<>>) /\ UNCHANGED waiting
  BY <1>1, NextTried
<1>2. CASE s = "listening" /\ backlog = <<>> /\ waiting' = waiting + 1 /\ ready' = <<>>
           /\ UNCHANGED backlog
  BY <1>2
<1> QED BY <1>1, <1>2 DEF StartAccept

(* What StopIsFinal says of a step.                                        *)
Final ==
  socket = "closed" /\ pimpl # "none" =>
    /\ socket' = "closed"
    /\ Len(delivered') + Len(ready') <= Len(delivered) + Len(ready)

(* The listening socket goes away under the server, m connections having   *)
(* been accepted and n handed out; q is what was in the event loop.        *)
LEMMA ChainEnds ==
  ASSUME Listening, waiting \in {0, 1}, NEW n \in Nat, NEW q \in Seq(0..arrived),
         waiting + Len(q) <= 1, q # <<>> => q[1] \in {0, n + 1}
  PROVE  /\ Len(Aborted(q)) = Len(q) + waiting
         /\ Aborted(q) # <<>> => Aborted(q)[1] \in {0, n + 1}
         /\ (Aborted(q) # <<>> /\ Aborted(q)[1] # 0) <=> (q # <<>> /\ q[1] # 0)
<1>0. arrived \in Nat /\ waiting \in Nat
  BY DEF Listening, ListenTypeOK
<1>1. /\ Aborted(q) \in Seq(0..arrived) /\ Len(Aborted(q)) = Len(q) + waiting
      /\ \A i \in 1..Len(q) : Aborted(q)[i] = q[i]
      /\ Elements(Aborted(q)) \subseteq Elements(q) \cup {0}
  BY <1>0, AbortedFacts
<1>2. (q = <<>> <=> Len(q) = 0) /\ (Aborted(q) = <<>> <=> Len(Aborted(q)) = 0) /\ Len(q) \in Nat
  BY <1>1, EmptySeq
<1>3. CASE q = <<>>
  <2>1. Elements(q) = {}
    BY <1>2, <1>3 DEF Elements
  <2>2. Aborted(q) # <<>> => Aborted(q)[1] = 0
    <3>1. Aborted(q) # <<>> => 1 \in 1..Len(Aborted(q))
      BY <1>0, <1>1, <1>2
    <3> QED BY <1>1, <2>1, <3>1 DEF Elements
  <2> QED BY <1>1, <1>3, <2>2
<1>4. CASE q # <<>>
  <2>1. 1 \in 1..Len(q) /\ Len(Aborted(q)) # 0
    BY <1>0, <1>1, <1>2, <1>4
  <2> QED BY <1>1, <1>2, <1>4, <2>1
<1> QED BY <1>3, <1>4

(* A step of the server: the chain neither forks nor breaks, no connection *)
(* accepted is given up, and a stop is final.                              *)
LEMMA ServerStep ==
  ASSUME Listening, Chain, user = "server", UNCHANGED user, ServerNext
  PROVE  Chain' /\ Accepted' >= Accepted /\ Final
<1>0. /\ Len(delivered) \in Nat /\ Len(ready) \in {0, 1} /\ waiting \in {0, 1}
      /\ Len(ready) = 0 <=> ready = <<>>
      /\ waiting + Len(ready) <= 1
      /\ ready = <<>> => Accepted = Len(delivered)
      /\ ready # <<>> /\ Head(ready) = 0 => Accepted = Len(delivered)
      /\ ready # <<>> /\ Head(ready) # 0 =>
           Accepted = Len(delivered) + 1 /\ Head(ready) = Len(delivered) + 1
      /\ ready # <<>> => Head(ready) = ready[1] /\ Tail(ready) = <<>>
      /\ Len(backlog) \in Nat /\ arrived \in Nat
  BY ChainFacts
<1>1. /\ socket = "listening" /\ ~failed => waiting + Len(ready) = 1
      /\ \A i \in 1..Len(delivered) : delivered[i] = i
      /\ ready # <<>> => ready[1] \in {0, Len(delivered) + 1}
      /\ socket = "listening" =>
           /\ \A j \in 1..Len(backlog) : backlog[j] = Accepted + j
           /\ arrived = Accepted + Len(backlog)
      /\ socket # "listening" => backlog = <<>> /\ waiting = 0
  BY DEF Chain, OneChain
<1>2. /\ Accepted \in Nat /\ delivered \in Seq(1..arrived) /\ ready \in Seq(0..arrived)
      /\ backlog \in Seq(1..arrived)
  BY <1>0 DEF Listening, ListenTypeOK
<1>3. ASSUME NEW kind \in Kinds, startListen(kind)
      PROVE  Chain' /\ Accepted' >= Accepted /\ Final
  <2>1. PICK k \in Outcomes(Steps(kind)) : open(kind, k)
    BY <1>3 DEF startListen
  <2>2. k \in 0..Len(Steps(kind))
    BY DEF Outcomes
  <2>3. /\ UNCHANGED <<arrived, delivered, failed>>
        /\ opened' = "ok" => StartAccept(socket', ready)
        /\ opened' # "ok" => UNCHANGED <<backlog, waiting, ready>>
    BY <1>3 DEF startListen
  <2>4. CASE pimpl # "none"
    <3>1. UNCHANGED <<pimpl, socket>> /\ opened' = "ISCONN"
      BY <2>1, <2>4 DEF open
    <3> QED BY <1>2, <2>3, <3>1 DEF Chain, OneChain, Accepted, Final
  <2>5. CASE pimpl = "none"
    <3>1. /\ waiting = 0 /\ backlog = <<>> /\ ready = <<>> /\ delivered = <<>> /\ arrived = 0
          /\ socket = "closed"
      BY <2>5 DEF Listening, Fresh
    <3>2. /\ opened' = "ok" <=> k = Len(Steps(kind))
          /\ socket' = SocketAfter(Steps(kind), k)
      BY <2>1, <2>5 DEF open
    <3>3. opened' = "ok" <=> socket' = "listening"
      BY <2>2, <3>2, ListeningIsLast
    <3>4. Final
      BY <2>5 DEF Final
    <3>5. CASE opened' = "ok"
      <4>1. StartAccept("listening", <<>>)
        BY <2>3, <3>1, <3>3, <3>5
      <4>2. waiting' = 1 /\ ready' = <<>> /\ UNCHANGED backlog
        BY <3>1, <4>1 DEF StartAccept, TryAccept
      <4> QED BY <2>3, <3>1, <3>3, <3>4, <3>5, <4>2 DEF Chain, OneChain, Accepted
    <3>6. CASE opened' # "ok"
      BY <2>3, <3>1, <3>3, <3>4, <3>6 DEF Chain, OneChain, Accepted
    <3> QED BY <3>5, <3>6
  <2> QED BY <2>4, <2>5
<1>4. CASE stop
  <2>1. /\ socket' = "closed" /\ backlog' = <<>> /\ waiting' = 0 /\ ready' = Aborted(ready)
        /\ UNCHANGED <<arrived, delivered, failed, pimpl>>
    BY <1>4 DEF stop, close, Closed
  <2>2. /\ Len(ready') = Len(ready) + waiting
        /\ ready' # <<>> => ready'[1] \in {0, Len(delivered) + 1}
        /\ (ready' # <<>> /\ ready'[1] # 0) <=> (ready # <<>> /\ ready[1] # 0)
    BY <1>0, <1>1, <1>2, <2>1, ChainEnds
  <2>3. Accepted' = Accepted
    BY <2>1, <2>2 DEF Accepted
  <2>4. Final
    BY <1>0, <1>1, <2>1, <2>2 DEF Final
  <2>5. Chain'
    BY <1>0, <1>1, <2>1, <2>2 DEF Chain, OneChain
  <2> QED BY <1>2, <2>3, <2>4, <2>5
<1>5. CASE Connect
  <2>1. /\ socket = "listening" /\ arrived' = arrived + 1 /\ backlog' = Append(backlog, arrived + 1)
        /\ UNCHANGED <<pimpl, socket, waiting, ready, delivered, failed>>
    BY <1>5 DEF Connect, listener
  <2>2. /\ Len(backlog') = Len(backlog) + 1 /\ backlog'[Len(backlog) + 1] = arrived + 1
        /\ \A j \in 1..Len(backlog) : backlog'[j] = backlog[j]
    BY <1>2, <2>1
  <2>3. Accepted' = Accepted
    BY <2>1 DEF Accepted
  <2>4. /\ \A j \in 1..Len(backlog') : backlog'[j] = Accepted' + j
        /\ arrived' = Accepted' + Len(backlog')
    <3>1. /\ \A j \in 1..Len(backlog) : backlog[j] = Accepted + j
          /\ arrived = Accepted + Len(backlog)
      BY <1>1, <2>1
    <3>2. arrived + 1 = Accepted + (Len(backlog) + 1)
      BY <1>0, <1>2, <3>1
    <3>3. \A j \in 1..(Len(backlog) + 1) : j \in 1..Len(backlog) \/ j = Len(backlog) + 1
      BY <1>0
    <3>4. \A j \in 1..(Len(backlog) + 1) : backlog'[j] = Accepted + j
      BY <2>2, <3>1, <3>2, <3>3
    <3> QED BY <2>1, <2>2, <2>3, <3>2, <3>4
  <2>5. OneChain'
    BY <2>1 DEF Chain, OneChain
  <2>6. Accepted' >= Accepted /\ Final
    BY <1>2, <2>1, <2>3 DEF Final
  <2> QED BY <1>1, <2>1, <2>4, <2>5, <2>6 DEF Chain
<1>6. CASE Reactor
  <2>1. /\ waiting > 0 /\ TryAccept(socket, ready) /\ waiting' = waiting - 1
        /\ UNCHANGED <<pimpl, socket, arrived, delivered, failed>>
    BY <1>6 DEF Reactor, listener
  <2>2. waiting = 1 /\ ready = <<>> /\ socket = "listening" /\ Accepted = Len(delivered) /\ waiting' = 0
    BY <1>0, <1>1, <2>1
  <2>3. TryAccept(socket, <<>>)
    BY <2>1, <2>2
  <2>4. /\ Len(ready') = 1 /\ ready' # <<>> /\ ready'[1] \in {0, Len(delivered) + 1}
        /\ LET a == Len(delivered) + (IF ready' # <<>> /\ ready'[1] # 0 THEN 1 ELSE 0)
           IN  /\ \A j \in 1..Len(backlog') : backlog'[j] = a + j
               /\ arrived = a + Len(backlog')
    BY <1>0, <1>1, <2>2, <2>3, NextTried
  <2>5. Accepted' >= Accepted /\ Final
    BY <1>0, <2>1, <2>2 DEF Accepted, Final
  <2> QED BY <1>1, <2>1, <2>2, <2>4, <2>5 DEF Chain, OneChain, Accepted
<1>7. CASE Session
  <2>1. /\ ready # <<>> /\ Head(ready) # 0 /\ delivered' = Append(delivered, Head(ready))
        /\ UNCHANGED <<arrived, failed>>
    BY <1>7 DEF Session
  <2>2. /\ waiting = 0 /\ Tail(ready) = <<>> /\ Len(ready) = 1
        /\ Accepted = Len(delivered) + 1 /\ Head(ready) = Len(delivered) + 1
    BY <1>0, <2>1
  <2>3. /\ Len(delivered') = Len(delivered) + 1
        /\ \A i \in 1..Len(delivered') : delivered'[i] = i
    <3>1. /\ Len(Append(delivered, Head(ready))) = Len(delivered) + 1
          /\ \A i \in 1..Len(delivered) : Append(delivered, Head(ready))[i] = delivered[i]
          /\ Append(delivered, Head(ready))[Len(delivered) + 1] = Head(ready)
      BY <1>2
    <3> QED BY <1>0, <1>1, <2>1, <2>2, <3>1
  <2>4. CASE Closed /\ ready' = Aborted(Tail(ready))
    <3>1. /\ socket' = "closed" /\ backlog' = <<>> /\ waiting' = 0
      BY <2>4 DEF Closed
    <3>2. Len(ready') = 0 /\ ready' = <<>>
      <4>1. <<>> \in Seq(0..arrived) /\ Len(<<>>) = 0 /\ waiting \in Nat
        BY <2>2
      <4>2. ready' = Aborted(<<>>)
        BY <2>2, <2>4
      <4>3. Aborted(<<>>) \in Seq(0..arrived) /\ Len(Aborted(<<>>)) = Len(<<>>) + waiting
        BY <1>0, <4>1, AbortedFacts
      <4>4. Len(ready') = 0 /\ ready' \in Seq(0..arrived)
        BY <2>2, <4>1, <4>2, <4>3
      <4> QED BY <4>4, EmptySeq
    <3> QED BY <1>0, <2>1, <2>2, <2>3, <3>1, <3>2 DEF Chain, OneChain, Accepted, Final
  <2>5. CASE UNCHANGED listener /\ isOpen /\ StartAccept(socket, Tail(ready))
    <3>1. UNCHANGED <<pimpl, socket>> /\ socket # "closed" /\ StartAccept(socket, <<>>)
      BY <2>2, <2>5 DEF listener, isOpen
    <3>2. /\ waiting' \in {0, 1} /\ waiting' + Len(ready') = 1
          /\ ready' # <<>> => ready'[1] \in {0, Accepted + 1}
          /\ LET a == Accepted + (IF ready' # <<>> /\ ready'[1] # 0 THEN 1 ELSE 0)
             IN  IF socket = "listening"
                 THEN /\ \A j \in 1..Len(backlog') : backlog'[j] = a + j
                      /\ arrived = a + Len(backlog')
                 ELSE backlog' = <<>> /\ waiting' = 0
      BY <1>1, <1>2, <2>2, <3>1, NextStarted
    <3>3. Accepted' = Accepted + (IF ready' # <<>> /\ ready'[1] # 0 THEN 1 ELSE 0)
      BY <2>2, <2>3 DEF Accepted
    <3>4. Accepted' >= Accepted /\ Final
      BY <1>2, <3>1, <3>3 DEF Final
    <3> QED BY <2>1, <2>2, <2>3, <3>1, <3>2, <3>3, <3>4 DEF Chain, OneChain
  <2>6. CASE UNCHANGED listener /\ ~isOpen /\ ready' = Tail(ready) /\ UNCHANGED <<backlog, waiting>>
    <3>1. UNCHANGED <<pimpl, socket>> /\ socket = "closed" /\ ready' = <<>>
      BY <2>2, <2>6 DEF listener, isOpen
    <3> QED BY <1>0, <1>1, <2>1, <2>2, <2>3, <2>6, <3>1 DEF Chain, OneChain, Accepted, Final
  <2> QED BY <1>7, <2>4, <2>5, <2>6 DEF Session
<1>8. CASE SessionError
  <2>1. /\ ready # <<>> /\ Head(ready) = 0 /\ failed' = TRUE /\ ready' = Tail(ready)
        /\ UNCHANGED <<pimpl, socket, arrived, backlog, waiting, delivered>>
    BY <1>8 DEF SessionError, listener
  <2>2. ready' = <<>> /\ Len(ready) = 1 /\ waiting = 0 /\ Accepted = Len(delivered)
    BY <1>0, <2>1
  <2> QED BY <1>0, <1>1, <2>1, <2>2 DEF Chain, OneChain, Accepted, Final
<1> QED BY <1>3, <1>4, <1>5, <1>6, <1>7, <1>8 DEF ServerNext

(* The order of the connections that the server was or will be given.      *)
LEMMA InOrder ==
  ASSUME NEW n \in Nat, NEW d \in Seq(1..n), NEW r \in Seq(0..n), Len(r) <= 1,
         \A i \in 1..Len(d) : d[i] = i,
         r # <<>> => r[1] \in {0, Len(d) + 1}
  PROVE  /\ \A i \in 1..Len(d \o r) : (d \o r)[i] \in {0, i}
         /\ Elements(d \o r) \ {0} =
              1..(Len(d) + (IF r # <<>> /\ r[1] # 0 THEN 1 ELSE 0))
<1> DEFINE c == d \o r
<1>1. Len(d) \in Nat /\ Len(r) \in Nat /\ (r = <<>> <=> Len(r) = 0)
  BY EmptySeq
<1>2. /\ Len(c) = Len(d) + Len(r)
      /\ \A i \in 1..(Len(d) + Len(r)) : c[i] = IF i <= Len(d) THEN d[i] ELSE r[i - Len(d)]
  <2>1. d \in Seq(0..n)
    OBVIOUS
  <2> QED BY <2>1, ConcatProperties
<1> HIDE DEF c
<1>3. CASE r = <<>>
  <2>1. Len(c) = Len(d) /\ \A i \in 1..Len(d) : c[i] = i
    BY <1>1, <1>2, <1>3
  <2>2. Elements(c) = 1..Len(d)
    BY <2>1 DEF Elements
  <2> QED BY <1>1, <1>3, <2>1, <2>2 DEF c
<1>4. CASE r # <<>>
  <2>1. Len(r) = 1
    <3>1. \A a \in Nat : a <= 1 /\ a # 0 => a = 1
      OBVIOUS
    <3> QED BY <1>1, <1>4, <3>1
  <2>2. /\ Len(c) = Len(d) + 1 /\ \A i \in 1..Len(d) : c[i] = i
        /\ c[Len(d) + 1] = r[1]
    BY <1>1, <1>2, <2>1
  <2>3. \A i \in 1..Len(c) : c[i] \in {0, i}
    BY <1>1, <1>4, <2>2
  <2>4. Elements(c) = 1..Len(d) \cup {r[1]}
    <3>1. ASSUME NEW i \in 1..Len(c) PROVE c[i] \in 1..Len(d) \cup {r[1]}
      BY <1>1, <2>2
    <3>2. ASSUME NEW y \in 1..Len(d) \cup {r[1]} PROVE \E i \in 1..Len(c) : y = c[i]
      <4>1. CASE y \in 1..Len(d)
        <5>1. y \in 1..Len(c) /\ c[y] = y
          BY <1>1, <2>2, <4>1
        <5> QED BY <5>1
      <4>2. CASE y = r[1]
        <5>1. Len(d) + 1 \in 1..Len(c)
          BY <1>1, <2>2
        <5> QED BY <2>2, <4>2, <5>1
      <4> QED BY <4>1, <4>2
    <3> QED BY <3>1, <3>2 DEF Elements
  <2>5. CASE r[1] = 0
    <3>1. Elements(c) \ {0} = 1..Len(d)
      BY <1>1, <2>4, <2>5
    <3> QED BY <1>1, <2>3, <2>5, <3>1 DEF c
  <2>6. CASE r[1] # 0
    <3>1. Elements(c) \ {0} = 1..(Len(d) + 1)
      BY <1>1, <1>4, <2>4, <2>6
    <3> QED BY <1>4, <2>3, <2>6, <3>1 DEF c
  <2> QED BY <2>5, <2>6
<1> QED BY <1>3, <1>4
-----------------------------------------------------------------------------
(* The sockets that connect                                                *)

(* Connections only ever arrive.                                           *)
LEMMA ArrivedGrows ==
  ASSUME Listening, [UsedNext]_allVars
  PROVE  arrived \in Nat /\ arrived' \in {arrived, arrived + 1}
<1>1. arrived \in Nat
  BY DEF Listening, ListenTypeOK
<1> QED
  BY <1>1 DEF UsedNext, Next, ServerNext, allVars, vars, Open, startListen, stop, close, Connect,
              Reactor, asyncAccept, accept, cancel, Handler, Session, SessionError

(* A step of one socket (tcpsocket.cpp, streamdomainsocket.cpp).           *)
LEMMA SocketStep ==
  ASSUME Listening, SocketTypeOK, Told, NEW s \in Socket, SocketNext(s), UNCHANGED arrived
  PROVE  SocketTypeOK' /\ Told'
<1>0. \A t \in Socket :
        /\ state[t] \in {"closed", "open", "connecting", "connected"}
        /\ op[t] \in {"none", "reactor", "blocked", "ok", "error"}
  BY DEF SocketTypeOK
<1>1. ASSUME NEW family \in {"tcp", "unix"}, asyncConnect(s, family) \/ connect(s, family)
      PROVE  SocketTypeOK' /\ Told'
  <2>1. /\ op[s] = "none" /\ UNCHANGED impl
        /\ \/ \E how \in {"reactor", "blocked"}, refused \in {"error", "none"} :
                TryConnect(s, how, refused)
           \/ /\ result' = [result EXCEPT ![s] = "error"]
              /\ disturbed' = [disturbed EXCEPT ![s] = TRUE]
              /\ UNCHANGED <<state, op, conn>>
    BY <1>1 DEF asyncConnect, connect
  <2>2. CASE /\ result' = [result EXCEPT ![s] = "error"]
             /\ disturbed' = [disturbed EXCEPT ![s] = TRUE]
             /\ UNCHANGED <<state, op, conn>>
    BY <2>1, <2>2 DEF SocketTypeOK, Told
  <2>3. ASSUME NEW how \in {"reactor", "blocked"}, NEW refused \in {"error", "none"},
               TryConnect(s, how, refused)
        PROVE  SocketTypeOK' /\ Told'
    <3>1. CASE /\ state[s] \in {"closed", "open"}
               /\ state' = [state EXCEPT ![s] = "connecting"]
               /\ op' = [op EXCEPT ![s] = how]
               /\ result' = [result EXCEPT ![s] = "pending"]
               /\ conn' = [conn EXCEPT ![s] = 0]
               /\ disturbed' = [disturbed EXCEPT ![s] = FALSE]
      <4>1. SocketTypeOK'
        BY <2>1, <2>3, <3>1 DEF SocketTypeOK
      <4>2. /\ state'[s] = "connecting" /\ op'[s] = how /\ result'[s] = "pending"
            /\ \A t \in Socket : t # s =>
                 /\ state'[t] = state[t] /\ op'[t] = op[t] /\ result'[t] = result[t]
                 /\ conn'[t] = conn[t] /\ disturbed'[t] = disturbed[t]
        BY <3>1 DEF SocketTypeOK
      <4> QED BY <2>3, <4>1, <4>2 DEF Told
    <3>2. CASE /\ state[s] # "open"
               /\ op' = [op EXCEPT ![s] = refused]
               /\ result' = [result EXCEPT ![s] = IF refused = "none" THEN "error" ELSE "pending"]
               /\ disturbed' = [disturbed EXCEPT ![s] = TRUE]
               /\ UNCHANGED <<state, conn>>
      <4>1. SocketTypeOK'
        BY <2>1, <2>3, <3>2 DEF SocketTypeOK
      <4>2. /\ disturbed'[s] /\ op'[s] = refused /\ result'[s] # "value"
            /\ \A t \in Socket : t # s =>
                 op'[t] = op[t] /\ result'[t] = result[t] /\ disturbed'[t] = disturbed[t]
        BY <3>2 DEF SocketTypeOK
      <4> QED BY <2>3, <3>2, <4>1, <4>2 DEF Told
    <3> QED BY <2>3, <3>1, <3>2 DEF TryConnect
  <2> QED BY <2>1, <2>2, <2>3
<1>2. CASE Refuse(s)
  BY <1>2 DEF Refuse, SocketTypeOK, Told
<1>3. CASE ConnectReady(s)
  BY <1>0, <1>3 DEF ConnectReady, Settled, Outcome, SocketTypeOK, Told
<1>4. CASE ConnectHandler(s)
  BY <1>0, <1>4 DEF ConnectHandler, Resolve, SocketTypeOK, Told
<1>5. CASE ConnectReturns(s)
  BY <1>0, <1>5 DEF ConnectReturns, Settled, Outcome, Resolve, SocketTypeOK, Told
<1>6. CASE cancelSocket(s)
  BY <1>0, <1>6 DEF cancelSocket, Aborts, SocketTypeOK, Told
<1>7. CASE closeSocket(s)
  BY <1>0, <1>7 DEF closeSocket, Aborts, SocketTypeOK, Told
<1> QED BY <1>1, <1>2, <1>3, <1>4, <1>5, <1>6, <1>7 DEF SocketNext
-----------------------------------------------------------------------------
(* The whole                                                               *)

(* Nobody listens and nobody connects.                                     *)
LEMMA ClientsInitially ==
  ASSUME ClientsInit
  PROVE  Inv
<1>1. /\ pimpl = "none" /\ socket = "closed" /\ arrived = 0 /\ waiting = 0
      /\ backlog = <<>> /\ ready = <<>> /\ delivered = <<>> /\ failed = FALSE
  BY DEF ClientsInit, UsedInit, Init
<1>2. ListenTypeOK /\ Fresh
  <2>1. failed \in BOOLEAN
    BY <1>1
  <2>2. <<>> \in Seq(1..0) /\ <<>> \in Seq(0..0)
    OBVIOUS
  <2> QED BY <1>1, <2>1, <2>2 DEF ListenTypeOK, Fresh
<1>3. EachConnectionOnce
  BY <1>1 DEF EachConnectionOnce, Places, Once, Elements, isOpen
<1>4. Chain
  BY <1>1 DEF Chain, OneChain
<1>5. SocketTypeOK /\ Told
  BY DEF ClientsInit, SocketInit, SocketTypeOK, Told
<1> QED BY <1>2, <1>3, <1>4, <1>5 DEF Inv, Listening

(* Every step of the two sides keeps the invariant, and a server's steps   *)
(* give up no connection and end with stop.                                *)
LEMMA ClientsStep ==
  ASSUME Inv, [ClientsNext]_everything
  PROVE  Inv' /\ UNCHANGED user /\ (user = "server" => Accepted' >= Accepted /\ Final)
<1> USE DEF Inv
<1>0. user = "server" => Accepted \in Nat
  BY ChainFacts DEF Accepted
<1>1. CASE UNCHANGED vars /\ UNCHANGED user
  <2>1. UNCHANGED <<pimpl, socket, arrived, backlog, waiting, ready, delivered, failed>>
    BY <1>1 DEF vars, listener
  <2>2. Listening'
    BY <2>1 DEF Listening, ListenTypeOK, Fresh, EachConnectionOnce, isOpen
  <2>3. Chain' /\ (user = "server" => Accepted' = Accepted /\ Final)
    BY <1>1, <2>1, ChainFacts DEF Chain, OneChain, Accepted, Final
  <2>4. CASE UNCHANGED socketVars
    BY <1>0, <1>1, <2>1, <2>2, <2>3, <2>4 DEF socketVars, SocketTypeOK, Told
  <2>5. ASSUME NEW s \in Socket, SocketNext(s) PROVE SocketTypeOK' /\ Told'
    BY <2>1, <2>5, SocketStep
  <2>6. ASSUME NEW s \in Socket, Establish(s) PROVE FALSE
    <3>1. arrived' = arrived + 1 /\ arrived \in Nat
      BY <2>6 DEF Establish, Connect, Listening, ListenTypeOK
    <3> QED BY <2>1, <3>1
  <2> QED BY <1>0, <1>1, <2>2, <2>3, <2>4, <2>5, <2>6 DEF ClientsNext, everything
<1>2. CASE UsedNext /\ UNCHANGED socketVars
  <2>1. Listening' /\ arrived \in Nat /\ arrived' \in {arrived, arrived + 1}
    BY <1>2, ListeningStep, ArrivedGrows
  <2>2. UNCHANGED user /\ (user = "server" => ServerNext)
    BY <1>2 DEF UsedNext
  <2>3. Chain' /\ (user = "server" => Accepted' >= Accepted /\ Final)
    <3>1. CASE user = "server"
      BY <2>2, <3>1, ServerStep
    <3>2. CASE user # "server"
      BY <2>2, <3>2 DEF Chain
    <3> QED BY <3>1, <3>2
  <2>4. SocketTypeOK' /\ Told'
    BY <1>2, <2>1 DEF socketVars, SocketTypeOK, Told
  <2> QED BY <2>1, <2>2, <2>3, <2>4
<1>3. ASSUME NEW s \in Socket, Establish(s)
      PROVE  Inv' /\ UNCHANGED user /\ (user = "server" => Accepted' >= Accepted /\ Final)
  <2>1. /\ state[s] = "connecting" /\ Connect /\ arrived' = arrived + 1 /\ UNCHANGED user
        /\ state' = [state EXCEPT ![s] = "connected"]
        /\ conn' = [conn EXCEPT ![s] = arrived + 1]
        /\ UNCHANGED <<impl, op, result, disturbed>>
    BY <1>3 DEF Establish, Connect
  <2>2. Listening' /\ arrived \in Nat
    BY <2>1, ConnectListening DEF Listening, ListenTypeOK
  <2>3. Chain' /\ (user = "server" => Accepted' >= Accepted /\ Final)
    <3>1. CASE user = "server"
      BY <2>1, <3>1, ServerStep DEF ServerNext
    <3>2. CASE user # "server"
      BY <2>1, <3>2 DEF Chain
    <3> QED BY <3>1, <3>2
  <2>4. SocketTypeOK' /\ Told'
    BY <2>1, <2>2 DEF SocketTypeOK, Told
  <2> QED BY <2>1, <2>2, <2>3, <2>4
<1>4. \/ UNCHANGED vars /\ UNCHANGED user
      \/ UsedNext /\ UNCHANGED socketVars
      \/ \E s \in Socket : Establish(s)
  BY DEF ClientsNext, everything, allVars
<1> QED BY <1>1, <1>2, <1>3, <1>4

(* The two ends of every connection agree, for a client of the acceptor    *)
(* and for a server, whatever is cancelled, closed and tried again         *)
(* (acceptor.cpp, asyncServer.cpp, tcpsocket.cpp, streamdomainsocket.cpp). *)
THEOREM EndsAgree == ClientsSpec => []ConnectedOnce
<1>1. Inv => ConnectedOnce
  BY DEF Inv, Listening, Told, ConnectedOnce
<1>2. Inv /\ [ClientsNext]_everything => Inv'
  BY ClientsStep
<1> QED BY <1>1, <1>2, ClientsInitially, PTL DEF ClientsSpec

(* The server's chain of accepts neither forks nor breaks                  *)
(* (asyncServer.cpp:18-31).                                                *)
THEOREM ServerOneChain == ClientsSpec => []OneChain
<1>1. Inv => OneChain
  BY DEF Inv, Chain, OneChain
<1>2. Inv /\ [ClientsNext]_everything => Inv'
  BY ClientsStep
<1> QED BY <1>1, <1>2, ClientsInitially, PTL DEF ClientsSpec

(* After stop the server accepts nothing more (asyncServer.cpp:34-37).    *)
THEOREM ServerStopIsFinal == ClientsSpec => StopIsFinal
<1>1. Inv /\ [ClientsNext]_everything => Inv'
  BY ClientsStep
<1>2. Inv /\ [ClientsNext]_everything =>
        [user = "server" /\ socket = "closed" /\ pimpl # "none" =>
           /\ socket' = "closed"
           /\ Len(delivered') + Len(ready') <= Len(delivered) + Len(ready)]_vars
  BY ClientsStep DEF Final
<1> QED BY <1>1, <1>2, ClientsInitially, PTL DEF ClientsSpec, StopIsFinal

(* Connections reach the server's handler in the order they were queued,   *)
(* and none that was accepted is given up (asyncServer.cpp:18-31).         *)
THEOREM ServerInOrder == ClientsSpec => HandledInOrder
<1>1. Inv /\ [ClientsNext]_everything => Inv'
  BY ClientsStep
<1>2. Inv /\ [ClientsNext]_everything =>
        [user = "server" =>
           /\ Elements(Coming) \ {0} \subseteq Elements(Coming')
           /\ \A i \in 1..Len(Coming') : Coming'[i] \in {0, i}]_vars
  <2> SUFFICES ASSUME Inv, [ClientsNext]_everything, user = "server"
               PROVE  /\ Elements(Coming) \ {0} \subseteq Elements(Coming')
                      /\ \A i \in 1..Len(Coming') : Coming'[i] \in {0, i}
    OBVIOUS
  <2>1. Inv' /\ user' = "server" /\ Accepted' >= Accepted
    BY ClientsStep
  <2>2. Elements(Coming) \ {0} = 1..Accepted /\ Accepted \in Nat
    <3>1. /\ arrived \in Nat /\ delivered \in Seq(1..arrived) /\ ready \in Seq(0..arrived)
          /\ Len(ready) <= 1 /\ Accepted \in Nat
      BY ChainFacts DEF Inv, Listening, ListenTypeOK, Accepted
    <3> QED BY <3>1, InOrder DEF Inv, Chain, Coming, Accepted
  <2>3. /\ Elements(Coming') \ {0} = 1..Accepted' /\ Accepted' \in Nat
        /\ \A i \in 1..Len(Coming') : Coming'[i] \in {0, i}
    <3>1. /\ arrived' \in Nat /\ delivered' \in Seq(1..arrived') /\ ready' \in Seq(0..arrived')
          /\ waiting' \in Nat /\ Len(delivered') \in Nat
      BY <2>1 DEF Inv, Listening, ListenTypeOK
    <3>2. /\ Len(ready') <= 1
          /\ \A i \in 1..Len(delivered') : delivered'[i] = i
          /\ ready' # <<>> => ready'[1] \in {0, Len(delivered') + 1}
      BY <2>1, <3>1 DEF Inv, Chain, OneChain
    <3>3. Coming' = delivered' \o ready'
      BY DEF Coming
    <3>4. Accepted' = Len(delivered') + (IF ready' # <<>> /\ ready'[1] # 0 THEN 1 ELSE 0)
      BY DEF Accepted
    <3>5. /\ Elements(delivered' \o ready') \ {0} = 1..Accepted'
          /\ \A i \in 1..Len(delivered' \o ready') : (delivered' \o ready')[i] \in {0, i}
      BY <3>1, <3>2, <3>4, InOrder
    <3>6. Accepted' \in Nat
      BY <3>1, <3>4
    <3> QED BY <3>3, <3>5, <3>6
  <2> QED BY <2>1, <2>2, <2>3
<1> QED BY <1>1, <1>2, ClientsInitially, PTL DEF ClientsSpec, HandledInOrder
=============================================================================
