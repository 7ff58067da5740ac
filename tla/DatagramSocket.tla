--------------------------- MODULE DatagramSocket ---------------------------
(***************************************************************************)
(* The datagram channels: UdpSocket (UdpImpl in                            *)
(* src/src/async/udpsocket.cpp) and DatagramDomainSocket (SocketImpl in    *)
(* src/src/async/datagramdomainsocket.cpp).                                *)
(*                                                                         *)
(* One receive takes one datagram and puts what fits where the ByteWriter  *)
(* stood at the call; the position moves when the completion handler runs. *)
(* asyncReadFrom also has asio store the sender's address: UdpImpl in a    *)
(* member it reads in the handler, SocketImpl in a local variable of the   *)
(* call.                                                                   *)
(*                                                                         *)
(* Datagrams are numbered in the order the kernel queues them, and byte k  *)
(* of datagram d is <<d, k>>.  Byte i of the source buffer is i.           *)
(***************************************************************************)
EXTENDS Naturals, Sequences, FiniteSets

CONSTANTS
  Impls,        \* the implementations under study
  Address,      \* addresses of peers
  NoAddress,    \* none of them
  Lengths,      \* lengths of the datagrams that arrive
  Total,        \* length of the source and of the destination buffer
  MaxPending,   \* asynchronous reads, and writes, a client has in progress
  MaxArrivals   \* bound: datagrams that arrive

ASSUME DatagramAssumption ==
  /\ Impls \subseteq {"UdpImpl", "SocketImpl"}
  /\ NoAddress \notin Address
  /\ Lengths \subseteq Nat
  /\ Total \in Nat
  /\ MaxPending \in Nat
  /\ MaxArrivals \in Nat

VARIABLES
  impl,       \* the implementation
  open,       \* is the socket open?
  shut,       \* was it shut down?
  peer,       \* the address it is connected to
  inbox,      \* datagrams the kernel has queued
  arrived,    \* how many it has queued so far
  blocked,    \* operations in the reactor
  completions,     \* their completions in the event loop
  position,   \* direction -> how far its buffer has advanced
  memory,     \* the destination buffer
  sent,       \* datagrams the kernel took: [at, n]
  pe,         \* UdpImpl::pe, where asio stores a sender
  log         \* datagrams given to the client: [datagram, start, got, sender, reported]

socket == <<impl, open, shut, peer>>
kernel == <<inbox, arrived, sent>>
client == <<position, memory, log>>
datagramVars == <<socket, kernel, blocked, completions, client, pe>>

Direction == {"read", "write"}
(* An operation [dir, address, at, n, got, error, id, sender]: its         *)
(* direction; does a read ask for the sender, has a write an address; the  *)
(* part of the buffer fixed at the call; what was transferred.  A datagram *)
(* is [id, from, len].                                                     *)

(* The constructors open the socket, but the one of SocketImpl that is     *)
(* given no endpoint.                                                      *)
DatagramsInit ==
  /\ impl \in Impls
  /\ open \in IF impl = "UdpImpl" THEN {TRUE} ELSE BOOLEAN
  /\ shut = FALSE
  /\ peer = NoAddress
  /\ inbox = <<>> /\ arrived = 0 /\ sent = <<>>
  /\ blocked = <<>> /\ completions = <<>>
  /\ position = [d \in Direction |-> 0]
  /\ memory = [i \in 1..Total |-> <<>>]
  /\ pe = NoAddress
  /\ log = <<>>
-----------------------------------------------------------------------------
(* The kernel                                                              *)

Smaller(a, b) == IF a < b THEN a ELSE b

(* Datagrams come in any number and from anyone, a connected socket's from *)
(* its peer: what a network loses, repeats or reorders is among these.     *)
Arrive(from, len) ==
  /\ open /\ ~shut
  /\ peer # NoAddress => from = peer
  /\ arrived < MaxArrivals
  /\ arrived' = arrived + 1
  /\ inbox' = Append(inbox, [id |-> arrived + 1, from |-> from, len |-> len])
  /\ UNCHANGED <<socket, sent, blocked, completions, client, pe>>

(* recvmsg(2) for the operation o: the datagram is gone, what did not fit  *)
(* included.                                                               *)
Received(o) ==
  [o EXCEPT !.id = Head(inbox).id, !.sender = Head(inbox).from,
            !.got = Smaller(o.n, Head(inbox).len)]

Stored(o) ==
  [i \in 1..Total |-> IF i - o.at \in 1..o.got THEN <<o.id, i - o.at>> ELSE memory[i]]
-----------------------------------------------------------------------------
(* Operations                                                              *)

(* Where asio stores the sender of a datagram.  In SocketImpl it is a      *)
(* local variable of a call that has returned if the operation had to      *)
(* wait; nobody reads it, and what it overwrites is not modelled.          *)
StoreSender(o) == pe' = IF o.address /\ impl = "UdpImpl" THEN o.sender ELSE pe

(* One try of a receive, q being the completions ahead of it.  After       *)
(* shutdown(2) a receive with nothing to take succeeds with no bytes; a    *)
(* connected socket may be told of an error.                               *)
Receive(o, q) ==
  \/ /\ inbox # <<>>
     /\ LET r == Received(o)
        IN  /\ memory' = Stored(r)
            /\ completions' = Append(q, r)
            /\ StoreSender(r)
     /\ inbox' = Tail(inbox)
  \/ /\ inbox = <<>> /\ shut
     /\ completions' = Append(q, o)
     /\ UNCHANGED <<inbox, memory, pe>>
  \/ /\ peer # NoAddress
     /\ completions' = Append(q, [o EXCEPT !.error = TRUE])
     /\ UNCHANGED <<inbox, memory, pe>>

(* One try of a send: the whole datagram goes, or none of it (too long,    *)
(* nobody there, no address, shut down).                                   *)
Send(o, q) ==
  \/ /\ ~shut /\ o.address
     /\ sent' = Append(sent, [at |-> o.at, n |-> o.n])
     /\ completions' = Append(q, [o EXCEPT !.got = o.n])
  \/ /\ completions' = Append(q, [o EXCEPT !.error = TRUE])
     /\ UNCHANGED sent

Try(o, q) ==
  \/ o.dir = "read" /\ Receive(o, q) /\ UNCHANGED <<arrived, sent>>
  \/ o.dir = "write" /\ Send(o, q) /\ UNCHANGED <<inbox, arrived, memory, pe>>

InProgress(dir) ==
  LET Of(ops) == {i \in 1..Len(ops) : ops[i].dir = dir}
  IN  Cardinality(Of(blocked)) + Cardinality(Of(completions))

(* asio_buffer fixes the part of the buffer at the call.                   *)
asio_buffer(dir, address, n) ==
  [dir |-> dir, address |-> address, at |-> position[dir], n |-> n,
   got |-> 0, error |-> FALSE, id |-> 0, sender |-> NoAddress]

(* Started on a socket that is open: tried at once if it is the first of   *)
(* its direction, and left to the reactor if it would block.  A socket     *)
(* that is not open fails it.                                              *)
Start(o) ==
  /\ InProgress(o.dir) < MaxPending
  /\ position[o.dir] + o.n <= Total
  /\ \/ /\ open
        /\ \A i \in 1..Len(blocked) : blocked[i].dir # o.dir
        /\ Try(o, completions)
        /\ UNCHANGED blocked
     \/ /\ open
        /\ o.dir = "read" => inbox = <<>> /\ ~shut
        /\ blocked' = Append(blocked, o)
        /\ UNCHANGED <<completions, kernel, memory, pe>>
     \/ /\ ~open
        /\ completions' = Append(completions, [o EXCEPT !.error = TRUE])
        /\ UNCHANGED <<blocked, kernel, memory, pe>>
  /\ UNCHANGED <<socket, position, log>>

asyncRead(n) == Start(asio_buffer("read", FALSE, n))
asyncReadFrom(n) == Start(asio_buffer("read", TRUE, n))
asyncWrite(n) == Start(asio_buffer("write", peer # NoAddress, n))

(* asyncWriteTo.  UdpImpl opens a socket that is closed; its test of the   *)
(* error is the wrong way round, so that the future is given an error on   *)
(* the spot when the socket opened, and the write is tried when it did not *)
(* open.                                                                   *)
Reopens == impl = "UdpImpl" /\ ~open

asyncWriteTo(n) ==
  LET o == asio_buffer("write", TRUE, n)
  IN  \/ ~Reopens /\ Start(o)
      \/ /\ Reopens
         /\ InProgress("write") < MaxPending
         /\ open' \in BOOLEAN
         /\ completions' = IF open' THEN completions ELSE Append(completions, [o EXCEPT !.error = TRUE])
         /\ shut' = FALSE
         /\ UNCHANGED <<impl, peer, kernel, blocked, client, pe>>

(* The reactor completes an operation that is the first of its direction.  *)
Without(s, i) == SubSeq(s, 1, i - 1) \o SubSeq(s, i + 1, Len(s))

ReactorStep ==
  /\ \E i \in 1..Len(blocked) :
       /\ \A j \in 1..(i - 1) : blocked[j].dir # blocked[i].dir
       /\ Try(blocked[i], completions)
       /\ blocked' = Without(blocked, i)
  /\ UNCHANGED <<socket, position, log>>

(* Variants of the code, here and below, are mistakes that the properties  *)
(* must notice: the position moves by what was asked for, or also when     *)
(* the operation failed.                                                   *)
AdvanceAsked(o) == IF o.error THEN 0 ELSE o.n
AdvanceOnError(o) == IF o.error THEN o.n ELSE o.got

(* How far the completion handler moves the position.                      *)
Advance(o) == IF o.error THEN 0 ELSE o.got

(* The address the handler of asyncReadFrom gives to the promise.          *)
peerEndpoint(o) == IF impl = "UdpImpl" /\ o.address THEN pe ELSE NoAddress

CompletionHandler ==
  /\ completions # <<>>
  /\ LET o == Head(completions)
     IN  /\ position' = IF o.dir = "connect" THEN position
                        ELSE [position EXCEPT ![o.dir] = @ + Advance(o)]
         /\ log' = IF o.id = 0 THEN log
                   ELSE Append(log, [datagram |-> o.id, start |-> position["read"], got |-> o.got,
                                     sender |-> IF o.address THEN o.sender ELSE NoAddress,
                                     reported |-> peerEndpoint(o)])
  /\ completions' = Tail(completions)
  /\ UNCHANGED <<socket, kernel, blocked, memory, pe>>
-----------------------------------------------------------------------------
(* The synchronous operations: one call, which returns when it can.        *)

Idle(dir) == InProgress(dir) = 0

read(n) ==
  /\ Idle("read")
  /\ position["read"] + n <= Total
  /\ open
  /\ \/ /\ inbox # <<>>
        /\ LET r == Received(asio_buffer("read", FALSE, n))
           IN  /\ memory' = Stored(r)
               /\ position' = [position EXCEPT !["read"] = @ + Advance(r)]
               /\ log' = Append(log, [datagram |-> r.id, start |-> position["read"],
                                      got |-> r.got, sender |-> NoAddress,
                                      reported |-> NoAddress])
        /\ inbox' = Tail(inbox)
     \/ peer # NoAddress /\ UNCHANGED <<inbox, client>>
  /\ UNCHANGED <<socket, arrived, sent, blocked, completions, pe>>

write(n) ==
  /\ Idle("write")
  /\ position["write"] + n <= Total
  /\ open /\ ~shut /\ peer # NoAddress
  /\ sent' = Append(sent, [at |-> position["write"], n |-> n])
  /\ position' = [position EXCEPT !["write"] = @ + n]
  /\ UNCHANGED <<socket, inbox, arrived, blocked, completions, memory, log, pe>>
-----------------------------------------------------------------------------
(* The rest of the interface                                               *)

(* connect: asio opens a socket that is closed; either step may fail.      *)
Connected(to) ==
  /\ open' \in {open, TRUE}
  /\ shut' = IF open THEN shut ELSE FALSE
  /\ peer' \in IF open' THEN {peer, to} ELSE {NoAddress}
  /\ UNCHANGED impl

connect(to) ==
  /\ Connected(to)
  /\ UNCHANGED <<kernel, blocked, completions, client, pe>>

(* asyncConnect, of DatagramDomainSocket only.                             *)
asyncConnect(to) ==
  /\ impl = "SocketImpl"
  /\ InProgress("connect") < MaxPending
  /\ Connected(to)
  /\ completions' = Append(completions, [asio_buffer("read", FALSE, 0) EXCEPT
                                 !.dir = "connect", !.at = 0, !.error = peer' # to])
  /\ UNCHANGED <<kernel, blocked, client, pe>>

(* open, of UdpSocket only: an open socket is left alone.                  *)
Open ==
  /\ impl = "UdpImpl"
  /\ open' \in {open, TRUE}
  /\ shut' = IF open THEN shut ELSE FALSE
  /\ UNCHANGED <<impl, peer, kernel, blocked, completions, client, pe>>

Aborted == [i \in 1..Len(blocked) |-> [blocked[i] EXCEPT !.error = TRUE]]

(* cancel raises on a socket that is not open.                             *)
cancelSocket ==
  /\ open
  /\ completions' = completions \o Aborted
  /\ blocked' = <<>>
  /\ UNCHANGED <<socket, kernel, client, pe>>

(* Variant: the operations are left in the reactor.                        *)
closeOnly ==
  /\ open
  /\ open' = FALSE /\ peer' = NoAddress
  /\ inbox' = <<>>
  /\ UNCHANGED <<impl, shut, arrived, sent, blocked, completions, client, pe>>

close ==
  /\ open' = FALSE /\ peer' = NoAddress
  /\ inbox' = <<>>
  /\ completions' = completions \o Aborted
  /\ blocked' = <<>>
  /\ UNCHANGED <<impl, shut, arrived, sent, client, pe>>

shutdown ==
  /\ open
  /\ shut' = TRUE
  /\ UNCHANGED <<impl, open, peer, kernel, blocked, completions, client, pe>>

(* What a client may call.                                                 *)
Transfers ==
  \E n \in 1..Total : \/ asyncRead(n) \/ asyncReadFrom(n) \/ read(n)
                      \/ asyncWrite(n) \/ asyncWriteTo(n) \/ write(n)

Control ==
  \/ \E to \in Address : connect(to) \/ asyncConnect(to)
  \/ Open
  \/ cancelSocket
  \/ close
  \/ shutdown

DatagramsNext ==
  \/ \E from \in Address, len \in Lengths : Arrive(from, len)
  \/ Transfers
  \/ Control
  \/ ReactorStep
  \/ CompletionHandler

DatagramsSpec == DatagramsInit /\ [][DatagramsNext]_datagramVars

(* A thread runs the event loop all the time.                              *)
DatagramsFairSpec == DatagramsSpec /\ WF_datagramVars(ReactorStep) /\ WF_datagramVars(CompletionHandler)
-----------------------------------------------------------------------------
(* Properties                                                              *)

(* What the reader's position moved over is what the kernel delivered: the *)
(* bytes of one datagram after the other, each from its start, and not     *)
(* written over by a read that failed, was cancelled, or came later.       *)
ReadInPlace ==
  \A i \in 1..Len(log) :
    /\ \A k \in 1..log[i].got : memory[log[i].start + k] = <<log[i].datagram, k>>
    /\ log[i].start = IF i = 1 THEN 0 ELSE log[i - 1].start + log[i - 1].got

(* The datagrams sent are consecutive parts of the source buffer: none     *)
(* sent twice, none left out, and the position is at the end of the last   *)
(* one as soon as no write is in progress.                                 *)
SentInOrder ==
  LET End(i) == IF i = 0 THEN 0 ELSE sent[i].at + sent[i].n
  IN  /\ \A i \in 1..Len(sent) : sent[i].at = End(i - 1)
      /\ Idle("write") => position["write"] = End(Len(sent))

(* "We can pass sender endpoint to future here" (udpsocket.cpp:88): what   *)
(* asyncReadFrom of UdpImpl reports is the sender of the datagram it put   *)
(* in the buffer.  All reads share UdpImpl::pe, "a gross hack"             *)
(* (udpsocket.cpp:73): with a second read in progress it is overwritten    *)
(* before the handler of the first has read it.                            *)
SenderReported ==
  impl = "UdpImpl" => \A i \in 1..Len(log) : log[i].reported = log[i].sender

(* No future of a closed socket stays pending.                             *)
CloseResolves == \A d \in Direction : ~open /\ ~Idle(d) ~> Idle(d)
=============================================================================
