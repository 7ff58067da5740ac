--------------------------- MODULE MCStreamChannel ---------------------------
(* TLC instances of StreamChannel.                                         *)
EXTENDS StreamChannel

AllImpls == Implementations

(* Those whose asynchronous operations ask for one transfer.               *)
OneTransfer == Implementations \ Composed

(* The clients that may go on after an error.                              *)
Resumable == {"PipeImpl", "SerialImpl", "StreamDomainSocketImpl"}
=============================================================================
