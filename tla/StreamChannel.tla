---------------------------- MODULE StreamChannel ----------------------------
(***************************************************************************)
(* One direction of a byte stream between two async::Channel ends: a       *)
(* writer takes bytes from a ByteReader, a reader puts them into a         *)
(* ByteWriter.  Four classes implement the interface and differ in three   *)
(* ways that a client can notice:                                          *)
(*                                                                         *)
(*   PipeImpl (src/src/async/pipe.cpp) and SerialImpl (serialChannel.cpp)  *)
(*   ask asio for one transfer; TcpSocketImpl (tcpsocket.cpp) and          *)
(*   StreamDomainSocketImpl (streamdomainsocket.cpp) ask for a composed    *)
(*   operation, which transfers again until it has all the bytes;          *)
(*                                                                         *)
(*   StreamDomainSocketImpl moves the buffer's position before it looks at *)
(*   the error, the others only when there is none;                        *)
(*                                                                         *)
(*   a Pipe owns both ends of the stream.                                  *)
(*                                                                         *)
(* Byte i of the source buffer is the number i.                            *)
(***************************************************************************)
EXTENDS Integers, Sequences

CONSTANTS
  Impls,     \* the implementations under study
  Retrying,  \* those whose client starts again after an operation failed
  Total,     \* length of the source and of the destination buffer
  Capacity   \* bytes the kernel holds between the ends

Implementations == {"PipeImpl", "SerialImpl", "TcpSocketImpl", "StreamDomainSocketImpl"}

(* Those behind class StreamSocket.                                        *)
StreamSockets == {"TcpSocketImpl", "StreamDomainSocketImpl"}

ASSUME ChannelAssumption ==
  /\ Impls \subseteq Implementations
  /\ Retrying \subseteq Impls
  /\ Total \in Nat
  /\ Capacity \in Nat \ {0}

End == {"reader", "writer"}
Peer(e) == CHOOSE p \in End : p # e

VARIABLES
  impl,       \* the implementation of this channel
  position,   \* end -> how far its ByteReader or ByteWriter has advanced
  memory,     \* the destination buffer; 0 is a byte not written yet
  wire,       \* every byte the kernel accepted from the writer, in order
  taken,      \* how many of them it has handed to the reader
  op,         \* end -> its operation: [state, at, n, got, error]
  open,       \* ends that are open
  shut,       \* ends that called shutdown()
  result,     \* end -> how its last operation ended: [is, at, n]
  cancelled   \* ends whose operation in progress cancel() was called for

data == <<memory, wire, taken>>
vars == <<impl, position, data, op, open, shut, result, cancelled>>

(* State of an operation: none; queued in the reactor until the descriptor *)
(* is ready; its completion handler queued in the event loop; or a caller  *)
(* blocked in the synchronous form.                                        *)
OpState == {"idle", "waiting", "completed", "blocked"}
Operation == [state : OpState, at : Nat, n : Nat, got : Nat, error : BOOLEAN]
Outcome == [is : {"none", "value", "error"}, at : Nat, n : Nat]

TypeOK ==
  /\ impl \in Implementations
  /\ position \in [End -> 0..Total]
  /\ memory \in [1..Total -> 0..Total]
  /\ wire \in Seq(1..Total)
  /\ taken \in 0..Len(wire)
  /\ op \in [End -> Operation]
  /\ \A e \in End : op[e].at + op[e].n <= Total /\ op[e].got <= op[e].n
  /\ open \subseteq End
  /\ shut \subseteq End
  /\ result \in [End -> Outcome]
  /\ cancelled \subseteq End

NoOp == [state |-> "idle", at |-> 0, n |-> 0, got |-> 0, error |-> FALSE]

Init ==
  /\ impl \in Impls
  /\ position = [e \in End |-> 0]
  /\ memory = [i \in 1..Total |-> 0]
  /\ wire = <<>>
  /\ taken = 0
  /\ op = [e \in End |-> NoOp]
  /\ open = End
  /\ shut = {}
  /\ result = [e \in End |-> [is |-> "none", at |-> 0, n |-> 0]]
  /\ cancelled = {}
-----------------------------------------------------------------------------
(* What sets the implementations apart                                     *)

(* Variants of the code, here and below, are mistakes that the properties  *)
(* must notice: a domain socket that asks for one transfer, and one whose  *)
(* handlers test the error first.                                          *)
ComposedTcpOnly == {"TcpSocketImpl"}
AdvancesNever == {}

(* asio::async_read and async_write, not async_read_some and               *)
(* async_write_some.                                                       *)
Composed == {"TcpSocketImpl", "StreamDomainSocketImpl"}

(* The completion handler advances the buffer before it tests the error.   *)
AdvancesOnError == {"StreamDomainSocketImpl"}

(* The ends that cancel() and close() called at e reach.                   *)
Handles(e) == IF impl = "PipeImpl" THEN End ELSE {e}

(* A serial line has no end of stream; shutdown() is of sockets only.      *)
EndsSeen == impl # "SerialImpl"
-----------------------------------------------------------------------------
(* The kernel and asio's reactor                                           *)

Held == Len(wire) - taken

(* The most an operation o of end e can transfer now.                      *)
Transferable(e, o) ==
  LET room == IF e = "reader" THEN Held ELSE Capacity - Held
      left == o.n - o.got
  IN  IF left < room THEN left ELSE room

(* A write fails as soon as nobody can read; a read reports the end of the *)
(* stream after the bytes before it.                                       *)
HungUp(e) ==
  /\ EndsSeen
  /\ Peer(e) \notin open \/ shut # {}
  /\ e = "reader" => Held = 0

Transfer(e, o, k) ==
  IF e = "reader"
  THEN /\ memory' = [i \in 1..Total |->
            IF i - o.at - o.got \in 1..k THEN wire[taken + i - o.at - o.got] ELSE memory[i]]
       /\ taken' = taken + k
       /\ UNCHANGED wire
  ELSE /\ wire' = wire \o [i \in 1..k |-> o.at + o.got + i]
       /\ UNCHANGED <<memory, taken>>

(* One try at the operation o of end e, which leaves it completed with     *)
(* some bytes, completed with an error, or waiting for the descriptor.     *)
Succeeds(e, o) ==
  /\ e \in open
  /\ ~HungUp(e)
  /\ \E k \in 1..Transferable(e, o) :
       /\ Transfer(e, o, k)
       /\ op' = [op EXCEPT ![e] = [o EXCEPT !.state = "completed", !.got = o.got + k]]

Fails(e, o) ==
  /\ e \notin open \/ HungUp(e)
  /\ op' = [op EXCEPT ![e] = [o EXCEPT !.state = "completed", !.error = TRUE]]
  /\ UNCHANGED data

WouldBlock(e, o) ==
  /\ e \in open
  /\ ~HungUp(e)
  /\ Transferable(e, o) = 0
  /\ op' = [op EXCEPT ![e] = [o EXCEPT !.state = "waiting"]]
  /\ UNCHANGED data

(* The descriptor became ready, or cannot become so any more.              *)
Reactor(e) ==
  /\ op[e].state = "waiting"
  /\ e \in open
  /\ Succeeds(e, op[e]) \/ Fails(e, op[e])
  /\ UNCHANGED <<impl, position, open, shut, result, cancelled>>
-----------------------------------------------------------------------------
(* The asynchronous operations                                             *)

(* A client has one operation per end at a time, never asks for more than  *)
(* its buffer has left, and may give up when one failed.                   *)
MayStart(e, n) ==
  /\ op[e].state = "idle"
  /\ position[e] + n <= Total
  /\ result[e].is = "error" => impl \in Retrying

(* asio_buffer fixes the address from the buffer's position at the call.   *)
asio_buffer(e, n) ==
  [state |-> "idle", at |-> position[e], n |-> n, got |-> 0, error |-> FALSE]

Start(e, n) ==
  /\ MayStart(e, n)
  /\ LET o == asio_buffer(e, n) IN Succeeds(e, o) \/ Fails(e, o) \/ WouldBlock(e, o)
  /\ UNCHANGED <<impl, position, open, shut, result, cancelled>>

asyncRead(n) == Start("reader", n)
asyncWrite(n) == Start("writer", n)

(* asio's part of a composed operation: it goes on while bytes are         *)
(* missing, on a channel that may have been closed meanwhile.              *)
Unfinished(o) == impl \in Composed /\ ~o.error /\ o.got < o.n

Continue(e) ==
  /\ op[e].state = "completed"
  /\ Unfinished(op[e])
  /\ Succeeds(e, op[e]) \/ Fails(e, op[e]) \/ WouldBlock(e, op[e])
  /\ UNCHANGED <<impl, position, open, shut, result, cancelled>>

(* Variant: advance by what was asked for.                                 *)
SettleAsked(e, o, error, advances) ==
  /\ position' = [position EXCEPT ![e] = IF advances THEN position[e] + o.n ELSE @]
  /\ result' = [result EXCEPT ![e] =
       [is |-> IF error THEN "error" ELSE "value", at |-> o.at, n |-> o.n]]
  /\ op' = [op EXCEPT ![e] = NoOp]
  /\ cancelled' = cancelled \ {e}

(* The promise is resolved and the buffer's position moves from now by as  *)
(* much as was transferred; or it does not.                                *)
Settle(e, o, error, advances) ==
  /\ position' = [position EXCEPT ![e] = IF advances THEN position[e] + o.got ELSE @]
  /\ result' = [result EXCEPT ![e] =
       [is |-> IF error THEN "error" ELSE "value", at |-> o.at, n |-> o.n]]
  /\ op' = [op EXCEPT ![e] = NoOp]
  /\ cancelled' = cancelled \ {e}

(* The completion handler the code gives to asio.                          *)
Handler(e) ==
  /\ op[e].state = "completed"
  /\ ~Unfinished(op[e])
  /\ Settle(e, op[e], op[e].error, ~op[e].error \/ impl \in AdvancesOnError)
  /\ UNCHANGED <<impl, data, open, shut>>
-----------------------------------------------------------------------------
(* The synchronous operations: asio::read and asio::write block the caller *)
(* until all the bytes are there or an error ends it.  The position only   *)
(* moves when there is none, in every implementation.                      *)

Call(e, n) ==
  /\ MayStart(e, n)
  /\ op' = [op EXCEPT ![e] = [asio_buffer(e, n) EXCEPT !.state = "blocked"]]
  /\ UNCHANGED <<impl, position, data, open, shut, result, cancelled>>

read(n) == Call("reader", n)
write(n) == Call("writer", n)

BlockedTransfer(e) ==
  /\ op[e].state = "blocked"
  /\ e \in open
  /\ ~HungUp(e)
  /\ \E k \in 1..Transferable(e, op[e]) :
       /\ Transfer(e, op[e], k)
       /\ op' = [op EXCEPT ![e].got = op[e].got + k]
  /\ UNCHANGED <<impl, position, open, shut, result, cancelled>>

Return(e) ==
  /\ op[e].state = "blocked"
  /\ LET done == op[e].got = op[e].n
     IN  /\ done \/ e \notin open \/ HungUp(e)
         /\ Settle(e, op[e], ~done, done)
  /\ UNCHANGED <<impl, data, open, shut>>
-----------------------------------------------------------------------------
(* The rest of the interface.  A caller that is blocked makes no other     *)
(* call on its object.                                                     *)

Abort(ends) ==
  op' = [e \in End |->
           IF e \in ends /\ op[e].state = "waiting"
           THEN [op[e] EXCEPT !.state = "completed", !.error = TRUE]
           ELSE op[e]]

MayCall(e) == \A h \in Handles(e) : op[h].state # "blocked"

(* Variants: a Pipe whose cancel forgets its other end, and a close that   *)
(* leaves the operations in the reactor.                                   *)
cancelOneEnd(e) ==
  /\ MayCall(e)
  /\ e \in open
  /\ Abort({e})
  /\ cancelled' = cancelled \cup {h \in Handles(e) : op[h].state # "idle"}
  /\ UNCHANGED <<impl, position, data, open, shut, result>>

closeOnly(e) ==
  /\ MayCall(e)
  /\ open' = open \ Handles(e)
  /\ UNCHANGED <<impl, position, data, op, shut, result, cancelled>>

(* cancel: asio aborts what waits in the reactor.  A closed channel raises. *)
cancel(e) ==
  /\ MayCall(e)
  /\ e \in open
  /\ Abort(Handles(e))
  /\ cancelled' = cancelled \cup {h \in Handles(e) : op[h].state # "idle"}
  /\ UNCHANGED <<impl, position, data, open, shut, result>>

close(e) ==
  /\ MayCall(e)
  /\ Abort(Handles(e) \cap open)
  /\ open' = open \ Handles(e)
  /\ UNCHANGED <<impl, position, data, shut, result, cancelled>>

shutdown(e) ==
  /\ impl \in StreamSockets
  /\ MayCall(e)
  /\ e \in open
  /\ shut' = shut \cup {e}
  /\ UNCHANGED <<impl, position, data, op, open, result, cancelled>>

Client ==
  \/ \E n \in 1..Total : asyncRead(n) \/ asyncWrite(n) \/ read(n) \/ write(n)
  \/ \E e \in End : cancel(e) \/ close(e) \/ shutdown(e)

Loop(e) == Reactor(e) \/ Continue(e) \/ Handler(e) \/ BlockedTransfer(e) \/ Return(e)

Next == Client \/ \E e \in End : Loop(e)

Spec == Init /\ [][Next]_vars

(* A thread of its own runs the event loop all the time, and the kernel    *)
(* completes what it can; the client need not do anything.                 *)
FairSpec == Spec /\ \A e \in End : WF_vars(Loop(e))
-----------------------------------------------------------------------------
(* Properties                                                              *)

(* What the reader's position covers is the source's bytes, in order, none *)
(* lost and none twice, through partial transfers, cancellations, retries, *)
(* end of stream and close on either side.  A client of TcpSocketImpl must *)
(* not go on after an error: its handlers forget what was transferred.     *)
StreamFaithful == \A i \in 1..position["reader"] : memory[i] = i

(* A position never counts a byte that was not transferred, and the next   *)
(* operation of an end continues where the kernel is: the position is      *)
(* exact whenever no operation of the end has failed.                      *)
PositionExact ==
  \A e \in End : LET moved == IF e = "reader" THEN taken ELSE Len(wire)
                 IN  /\ position[e] <= moved
                     /\ op[e].state = "idle" /\ result[e].is # "error" => position[e] = moved

(* "A future that will be resolved one the scpecified number of bytes has  *)
(* been read" and "... written into the IO object" (channel.hpp:90,112).   *)
FutureMeansAllBytes ==
  \A e \in End : result[e].is = "value" => position[e] = result[e].at + result[e].n

(* So it is of the sockets, through the transfers of a composed operation, *)
(* cancellations, closes and retries.                                      *)
ResolvedMeansDone == impl \in StreamSockets => FutureMeansAllBytes

(* "Cancel all asynchronous operations associated with the channel"        *)
(* (channel.hpp:165): one that was in progress ends.                       *)
CancelEndsAll == \A e \in End : e \in cancelled ~> e \notin cancelled

(* So it is of a pipe, at both of its ends, and of a serial line.          *)
CancelResolves ==
  \A e \in End : impl \notin StreamSockets /\ e \in cancelled ~> e \notin cancelled

(* No future of a closed channel stays pending: what waits is aborted, and *)
(* a composed operation that would go on finds the channel closed.         *)
CloseResolves == \A e \in End : e \notin open /\ op[e].state # "idle" ~> op[e].state = "idle"
=============================================================================
