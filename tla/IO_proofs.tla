------------------------------ MODULE IO_proofs ------------------------------
(***************************************************************************)
(* Proofs about Serial and the SignalDispatcher beside it: any signals,    *)
(* handlers, configurations, ports and bytes, in any order of calls, with  *)
(* signals between any two steps.  Then about Files and PortList.          *)
(***************************************************************************)
EXTENDS Serial, PortList, Vector_proofs, FunctionTheorems

(* The client that talks uses a port, a signal and a handler there are.    *)
LEMMA TalkFacts == TalkPort \in Object /\ TalkSignal \in Signal /\ TalkHandler \in Function
BY SerialAssumption DEF TalkPort, TalkSignal, TalkHandler
-----------------------------------------------------------------------------
(* The SignalDispatcher                                                    *)

(* What the multimap holds of a signal's action at the start.              *)
Chained(s) == IF before[s] \in {"previous", "SIG_IGN"} THEN <<before[s]>> ELSE <<>>

Handlers == Function \cup {"previous", "SIG_IGN"}

DispatcherTypeOK ==
  /\ before \in [Signal -> {"SIG_DFL", "SIG_IGN", "previous"}]
  /\ action \in [Signal -> {"SIG_DFL", "SIG_IGN", "previous", "signalHandler"}]
  /\ mapping \in [Signal -> Seq(Handlers)]
  /\ attached \in [Signal -> Seq(Function)]

(* attachHandler is between two of its statements.                         *)
Attaching ==
  \/ attaching = NotAttaching
  \/ /\ attaching \in [at : {"chain", "chaining", "add", "adding"}, signal : Signal,
                       handler : Function, old : {"SIG_DFL", "SIG_IGN", "previous", "signalHandler"}]
     /\ action[attaching.signal] = "signalHandler"
     /\ attaching.at \in {"chain", "chaining"} =>
          attaching.old \in {"previous", "SIG_IGN"} /\ attaching.old = before[attaching.signal]

(* The old action of s is on its way into the multimap.                    *)
ChainLater(s) ==
  attaching # NotAttaching /\ attaching.signal = s /\ attaching.at \in {"chain", "chaining"}

(* The multimap holds, for each signal, its old action and the handlers    *)
(* attached; a signal nobody attached to keeps its action.                 *)
Mapped(s) ==
  /\ action[s] # "signalHandler" => /\ action[s] = before[s]
                                    /\ mapping[s] = <<>> /\ attached[s] = <<>>
  /\ ChainLater(s) => mapping[s] = <<>> /\ attached[s] = <<>>
  /\ action[s] = "signalHandler" /\ ~ChainLater(s) => mapping[s] = Chained(s) \o attached[s]

DispatcherInv ==
  /\ DispatcherTypeOK /\ Attaching
  /\ \A s \in Signal : Mapped(s)
  /\ HandlersCalled

(* attachHandler, and the records it leaves behind, are not NotAttaching.  *)
LEMMA AttachingFacts ==
  ASSUME Attaching
  PROVE  /\ attaching = NotAttaching <=> attaching.at = "none"
         /\ attaching # NotAttaching =>
              attaching.at \in {"chain", "chaining", "add", "adding"} /\ attaching.signal \in Signal
              /\ attaching.handler \in Function
BY DEF Attaching, NotAttaching

(* sigaction replaces the action (signalDispatcher.cpp:90-102).            *)
LEMMA AttachKeeps ==
  ASSUME DispatcherInv, NEW s \in Signal, NEW h \in Function, attachHandler(s, h)
  PROVE  DispatcherInv'
<1> DEFINE at == IF Chains(action[s]) THEN "chain" ELSE "add"
<1>0. /\ DispatcherTypeOK /\ Attaching /\ attaching = NotAttaching
      /\ action \in [Signal -> {"SIG_DFL", "SIG_IGN", "previous", "signalHandler"}]
      /\ before \in [Signal -> {"SIG_DFL", "SIG_IGN", "previous"}]
  BY DEF DispatcherInv, DispatcherTypeOK, attachHandler
<1>1. /\ attaching' = [at |-> at, signal |-> s, handler |-> h, old |-> action[s]]
      /\ action' = [action EXCEPT ![s] = "signalHandler"]
      /\ UNCHANGED <<before, mapping, attached, raised, last, broken>>
  BY DEF attachHandler
<1>2. \A t \in Signal : Mapped(t) /\ ~ChainLater(t)
  BY <1>0 DEF DispatcherInv, ChainLater
<1>3. at = "chain" \/ at = "add"
  OBVIOUS
<1>4. at = "chain" <=> action[s] \in {"previous", "SIG_IGN"}
  BY <1>0 DEF Chains
<1>5. at = "chain" => action[s] = before[s]
  BY <1>2, <1>4 DEF Mapped
<1> HIDE DEF at
<1>6. /\ attaching'.at = at /\ attaching'.signal = s /\ attaching'.old = action[s]
      /\ attaching' \in [at : {"chain", "chaining", "add", "adding"}, signal : Signal,
                         handler : Function, old : {"SIG_DFL", "SIG_IGN", "previous", "signalHandler"}]
      /\ attaching' # NotAttaching
  BY <1>0, <1>1, <1>3 DEF NotAttaching
<1>7. /\ action' \in [Signal -> {"SIG_DFL", "SIG_IGN", "previous", "signalHandler"}]
      /\ action'[s] = "signalHandler" /\ \A t \in Signal : t # s => action'[t] = action[t]
  BY <1>0, <1>1
<1>8. DispatcherTypeOK'
  BY <1>0, <1>1, <1>7 DEF DispatcherTypeOK
<1>9. Attaching'
  BY <1>1, <1>3, <1>4, <1>5, <1>6, <1>7 DEF Attaching
<1>10. ASSUME NEW t \in Signal, t # s PROVE Mapped(t)'
  <2>1. ~ChainLater(t)' /\ action'[t] = action[t] /\ Mapped(t) /\ ~ChainLater(t)
    BY <1>2, <1>6, <1>7, <1>10 DEF ChainLater
  <2> QED BY <1>1, <2>1 DEF Mapped, Chained
<1>11. Mapped(s)'
  <2>1. CASE at = "chain"
    <3>1. ChainLater(s)' /\ action[s] # "signalHandler"
      BY <1>4, <1>6, <2>1 DEF ChainLater
    <3> QED BY <1>1, <1>2, <1>7, <3>1 DEF Mapped
  <2>2. CASE at # "chain" /\ action[s] = "signalHandler"
    <3>1. mapping[s] = Chained(s) \o attached[s] /\ ~ChainLater(s)'
      BY <1>2, <1>6, <1>3, <2>2 DEF Mapped, ChainLater
    <3> QED BY <1>1, <1>7, <3>1 DEF Mapped, Chained
  <2>3. CASE at # "chain" /\ action[s] # "signalHandler"
    <3>1. action[s] = "SIG_DFL" /\ ~ChainLater(s)'
      BY <1>0, <1>3, <1>4, <1>6, <2>3 DEF ChainLater
    <3>2. before[s] = "SIG_DFL" /\ mapping[s] = <<>> /\ attached[s] = <<>>
      BY <1>2, <3>1 DEF Mapped
    <3>3. mapping'[s] = <<>> /\ attached'[s] = <<>> /\ Chained(s)' = <<>>
      BY <1>1, <3>2 DEF Chained
    <3> QED BY <1>7, <3>1, <3>3 DEF Mapped
  <2> QED BY <2>1, <2>2, <2>3
<1>12. HandlersCalled'
  BY <1>1 DEF DispatcherInv, HandlersCalled
<1> QED BY <1>8, <1>9, <1>10, <1>11, <1>12 DEF DispatcherInv

(* An insertion begins.                                                    *)
LEMMA BeginKeeps ==
  ASSUME DispatcherInv, BeginEmplace
  PROVE  DispatcherInv'
<1> DEFINE at == IF attaching.at = "chain" THEN "chaining" ELSE "adding"
<1>0. /\ DispatcherTypeOK /\ Attaching /\ attaching.at \in {"chain", "add"}
      /\ UNCHANGED <<before, action, mapping, attached, raised, last, broken>>
      /\ attaching' = [attaching EXCEPT !.at = at]
  BY DEF DispatcherInv, BeginEmplace
<1>1. attaching # NotAttaching
  BY <1>0 DEF NotAttaching
<1>2. at = "chaining" \/ at = "adding"
  OBVIOUS
<1>3. at = "chaining" <=> attaching.at = "chain"
  OBVIOUS
<1> HIDE DEF at
<1>4. /\ attaching'.at = at /\ attaching'.signal = attaching.signal /\ attaching'.old = attaching.old
      /\ attaching' \in [at : {"chain", "chaining", "add", "adding"}, signal : Signal,
                         handler : Function, old : {"SIG_DFL", "SIG_IGN", "previous", "signalHandler"}]
  BY <1>0, <1>1, <1>2 DEF Attaching
<1>5. attaching' # NotAttaching
  BY <1>2, <1>4 DEF NotAttaching
<1>6. Attaching'
  BY <1>0, <1>1, <1>2, <1>3, <1>4 DEF Attaching
<1>7. \A s \in Signal : ChainLater(s)' <=> ChainLater(s)
  BY <1>0, <1>1, <1>2, <1>3, <1>4, <1>5 DEF ChainLater
<1>8. \A s \in Signal : Mapped(s)'
  BY <1>0, <1>7 DEF DispatcherInv, Mapped, Chained
<1>9. DispatcherTypeOK' /\ HandlersCalled'
  BY <1>0 DEF DispatcherInv, DispatcherTypeOK, HandlersCalled
<1> QED BY <1>6, <1>8, <1>9 DEF DispatcherInv

(* An insertion ends, of the old action or of the handler                  *)
(* (signalDispatcher.cpp:104-110).                                         *)
LEMMA EndKeeps ==
  ASSUME DispatcherInv, EndEmplace
  PROVE  DispatcherInv'
<1>0. /\ DispatcherTypeOK /\ Attaching /\ attaching.at \in {"chaining", "adding"}
      /\ UNCHANGED <<before, action, raised, last, broken>>
  BY DEF DispatcherInv, EndEmplace, Inserting
<1>1. PICK s \in Signal, h \in Function :
        /\ s = attaching.signal /\ h = attaching.handler
        /\ attaching # NotAttaching /\ action[s] = "signalHandler" /\ Mapped(s)
  <2>1. attaching # NotAttaching
    BY <1>0 DEF NotAttaching
  <2> QED BY <1>0, <2>1 DEF Attaching, DispatcherInv
<1>2. HandlersCalled'
  BY <1>0 DEF DispatcherInv, HandlersCalled
<1>3. /\ mapping \in [Signal -> Seq(Handlers)] /\ attached \in [Signal -> Seq(Function)]
      /\ before \in [Signal -> {"SIG_DFL", "SIG_IGN", "previous"}]
  BY <1>0 DEF DispatcherTypeOK
<1>4. CASE attaching.at = "chaining"
  <2>0. PICK old \in Handlers : old = attaching.old
    BY <1>0, <1>1, <1>4 DEF Attaching, Handlers
  <2>1. /\ mapping' = [mapping EXCEPT ![s] = Append(@, old)]
        /\ attaching' = [attaching EXCEPT !.at = "add"]
        /\ attached' = attached
    BY <1>1, <1>4, <2>0 DEF EndEmplace
  <2>2. /\ old \in {"previous", "SIG_IGN"} /\ old = before[s]
        /\ mapping[s] = <<>> /\ attached[s] = <<>>
    BY <1>0, <1>1, <1>4, <2>0 DEF Attaching, Mapped, ChainLater
  <2>3. /\ attaching'.at = "add" /\ attaching'.signal = attaching.signal
        /\ attaching' \in [at : {"chain", "chaining", "add", "adding"}, signal : Signal,
                           handler : Function, old : {"SIG_DFL", "SIG_IGN", "previous", "signalHandler"}]
    BY <1>0, <1>1, <2>1 DEF Attaching
  <2>4. Attaching'
    BY <1>0, <1>1, <2>3 DEF Attaching
  <2>5. \A t \in Signal : ~ChainLater(t)'
    BY <2>3 DEF ChainLater
  <2>6. mapping[s] \in Seq(Handlers) /\ old \in Handlers /\ Append(mapping[s], old) = <<old>>
        /\ <<old>> \in Seq(Handlers)
    BY <2>2, <1>1, <1>3 DEF Handlers
  <2>7. mapping' \in [Signal -> Seq(Handlers)] /\ mapping'[s] = <<old>>
        /\ \A t \in Signal : t # s => mapping'[t] = mapping[t]
    BY <1>1, <1>3, <2>1, <2>6
  <2>8. DispatcherTypeOK'
    BY <1>0, <2>1, <2>7 DEF DispatcherTypeOK
  <2>9. ASSUME NEW t \in Signal PROVE Mapped(t)'
    <3>1. CASE t = s
      <4>1. Chained(s)' = <<old>> /\ attached'[s] = <<>>
        BY <1>0, <2>1, <2>2 DEF Chained
      <4>2. mapping'[s] = Chained(s)' \o attached'[s]
        BY <2>7, <4>1
      <4> QED BY <1>0, <1>1, <2>5, <3>1, <4>2 DEF Mapped
    <3>2. CASE t # s
      <4>1. ~ChainLater(t) /\ Mapped(t)
        BY <1>1, <3>2 DEF DispatcherInv, ChainLater
      <4> QED BY <1>0, <2>1, <2>5, <2>7, <3>2, <4>1 DEF Mapped, Chained
    <3> QED BY <3>1, <3>2
  <2> QED BY <1>2, <2>4, <2>8, <2>9 DEF DispatcherInv
<1>5. CASE attaching.at = "adding"
  <2>1. /\ mapping' = [mapping EXCEPT ![s] = Append(@, h)]
        /\ attaching' = NotAttaching
        /\ attached' = [attached EXCEPT ![s] = Append(@, h)]
    BY <1>1, <1>5 DEF EndEmplace
  <2>2. mapping[s] = Chained(s) \o attached[s]
    BY <1>1, <1>5 DEF Mapped, ChainLater
  <2>3. Attaching' /\ \A t \in Signal : ~ChainLater(t)'
    BY <2>1 DEF Attaching, ChainLater
  <2>4. \A t \in Signal : t # s => ~ChainLater(t)
    BY <1>1 DEF ChainLater
  <2>5. /\ h \in Handlers /\ mapping[s] \in Seq(Handlers) /\ attached[s] \in Seq(Function)
        /\ Chained(s) \in Seq(Handlers) /\ attached[s] \in Seq(Handlers)
    <3>1. h \in Handlers /\ mapping[s] \in Seq(Handlers) /\ attached[s] \in Seq(Function)
      BY <1>3 DEF Handlers
    <3>2. attached[s] \in Seq(Handlers)
      <4>1. \A i \in 1..Len(attached[s]) : attached[s][i] \in Handlers
        BY <3>1 DEF Handlers
      <4> QED BY <3>1, <4>1, SeqDef
    <3>3. Chained(s) \in Seq(Handlers)
      <4>1. before[s] \in {"previous", "SIG_IGN"} => before[s] \in Handlers
        BY DEF Handlers
      <4> QED BY <4>1 DEF Chained
    <3> QED BY <3>1, <3>2, <3>3
  <2>6. /\ mapping' \in [Signal -> Seq(Handlers)] /\ mapping'[s] = Append(mapping[s], h)
        /\ attached' \in [Signal -> Seq(Function)] /\ attached'[s] = Append(attached[s], h)
        /\ \A t \in Signal : t # s => mapping'[t] = mapping[t] /\ attached'[t] = attached[t]
    BY <1>1, <1>3, <2>1, <2>5
  <2>7. DispatcherTypeOK'
    BY <1>0, <2>6 DEF DispatcherTypeOK
  <2>8. ASSUME NEW t \in Signal PROVE Mapped(t)'
    <3>1. CASE t = s
      <4>1. Append(Chained(s) \o attached[s], h) = Chained(s) \o Append(attached[s], h)
        <5>1. PICK a, b \in Seq(Handlers) : a = Chained(s) /\ b = attached[s]
          BY <2>5
        <5>2. <<h>> \in Seq(Handlers) /\ a \o b \in Seq(Handlers) /\ h \in Handlers
          BY <2>5, ConcatProperties
        <5>3. Append(a \o b, h) = (a \o b) \o <<h>> /\ Append(b, h) = b \o <<h>>
          BY <5>2, AppendIsConcat
        <5>4. (a \o b) \o <<h>> = a \o (b \o <<h>>)
          BY <5>2, ConcatAssociative
        <5> QED BY <5>1, <5>3, <5>4
      <4>2. mapping'[s] = Chained(s) \o attached'[s]
        BY <2>2, <2>6, <4>1
      <4>3. Chained(s)' = Chained(s)
        BY <1>0 DEF Chained
      <4> QED BY <1>0, <1>1, <2>3, <3>1, <4>2, <4>3 DEF Mapped
    <3>2. CASE t # s
      <4>1. ~ChainLater(t) /\ Mapped(t)
        BY <2>4, <3>2 DEF DispatcherInv
      <4> QED BY <1>0, <2>3, <2>6, <3>2, <4>1 DEF Mapped, Chained
    <3> QED BY <3>1, <3>2
  <2> QED BY <1>2, <2>3, <2>7, <2>8 DEF DispatcherInv
<1> QED BY <1>0, <1>4, <1>5

(* A signal is delivered (signalDispatcher.cpp:34-41): what it calls is    *)
(* what HandlersCalled says.                                               *)
LEMMA DeliverKeeps ==
  ASSUME DispatcherInv, NEW s \in Signal, Deliver(s)
  PROVE  DispatcherInv'
<1> DEFINE previous == IF before[s] = "previous" THEN <<"previous">> ELSE <<>>
           called == signalHandler(s)
<1>0. /\ DispatcherTypeOK /\ Attaching /\ Mapped(s)
      /\ action[s] \in {"signalHandler", "previous"}
      /\ UNCHANGED <<before, action, mapping, attaching, attached>>
  BY DEF DispatcherInv, Deliver, Handled
<1>1. /\ last' = [signal |-> s, quiet |-> attaching = NotAttaching, due |-> attached[s],
                  called |-> called]
      /\ broken' = (broken \/ attaching.at \in Inserting \/ \E i \in 1..Len(called) : called[i] = "SIG_IGN")
  BY DEF Deliver
<1>2. DispatcherTypeOK' /\ Attaching' /\ \A t \in Signal : Mapped(t)'
  BY <1>0 DEF DispatcherInv, DispatcherTypeOK, Attaching, Mapped, ChainLater, Chained
<1>3. attached[s] \in Seq(Function) /\ before[s] \in {"SIG_DFL", "SIG_IGN", "previous"}
  BY <1>0 DEF DispatcherTypeOK
<1>4. ASSUME attaching.at \notin Inserting, \A i \in 1..Len(called) : called[i] # "SIG_IGN"
      PROVE  called = previous \o attached[s] \/ (attaching # NotAttaching /\ called = attached[s])
  <2>1. CASE action[s] = "previous"
    <3>1. before[s] = "previous" /\ attached[s] = <<>> /\ called = <<"previous">>
      BY <1>0, <2>1 DEF Mapped, signalHandler
    <3>2. previous = <<"previous">>
      BY <3>1
    <3> QED BY <3>1, <3>2
  <2>2. CASE action[s] = "signalHandler" /\ ChainLater(s)
    <3>1. mapping[s] = <<>> /\ attached[s] = <<>> /\ attaching # NotAttaching
      BY <1>0, <2>2 DEF Mapped, ChainLater
    <3>2. called = mapping[s]
      BY <2>2 DEF signalHandler
    <3> QED BY <3>1, <3>2
  <2>3. CASE action[s] = "signalHandler" /\ ~ChainLater(s)
    <3>1. called = Chained(s) \o attached[s]
      BY <1>0, <2>3 DEF Mapped, signalHandler
    <3>2. before[s] # "SIG_IGN"
      <4> SUFFICES ASSUME before[s] = "SIG_IGN" PROVE FALSE
        OBVIOUS
      <4>1. Chained(s) = <<"SIG_IGN">>
        BY DEF Chained
      <4>2. Len(called) >= 1 /\ called[1] = "SIG_IGN" /\ Len(called) \in Nat
        <5> DEFINE a == <<"SIG_IGN">>
                   b == attached[s]
                   T == Function \cup {"SIG_IGN"}
        <5>1. Function \subseteq T /\ "SIG_IGN" \in T
          OBVIOUS
        <5>2. b \in Seq(T)
          BY <1>3, <5>1, SeqMonotonic
        <5>3. a \in Seq(T) /\ Len(a) = 1 /\ a[1] = "SIG_IGN"
          BY <5>1
        <5>4. called = a \o b
          BY <3>1, <4>1
        <5> HIDE DEF a, b, T, called
        <5>5. Len(a \o b) = 1 + Len(b) /\ Len(b) \in Nat /\ (a \o b)[1] = a[1]
          BY <5>2, <5>3, Joined, LenProperties
        <5> QED BY <5>3, <5>4, <5>5
      <4> HIDE DEF called
      <4>3. 1 \in 1..Len(called)
        BY <4>2
      <4> QED BY <1>4, <4>2, <4>3
    <3>3. Chained(s) = previous
      BY <1>3, <3>2 DEF Chained
    <3> QED BY <3>1, <3>3
  <2> QED BY <1>0, <2>1, <2>2, <2>3
<1> HIDE DEF called
<1>5. /\ last'.signal = s /\ last'.due = attached[s] /\ last'.called = called
      /\ last'.quiet = (attaching = NotAttaching)
  BY <1>1
<1>6. ~broken' => attaching.at \notin Inserting /\ \A i \in 1..Len(called) : called[i] # "SIG_IGN"
  BY <1>1, Zenon
<1>7. ~broken' => called = previous \o attached[s] \/ (attaching # NotAttaching /\ called = attached[s])
  BY <1>4, <1>6
<1>8. attaching # NotAttaching => ~last'.quiet
  BY <1>5, Zenon
<1>9. HandlersCalled'
  BY <1>0, <1>5, <1>7, <1>8 DEF HandlersCalled
<1> QED BY <1>2, <1>9 DEF DispatcherInv

(* Steps of a Serial leave the dispatcher alone.                           *)
LEMMA DispatcherAlone ==
  ASSUME DispatcherInv, UNCHANGED signalVars
  PROVE  DispatcherInv'
BY DEF signalVars, DispatcherInv, DispatcherTypeOK, Attaching, Mapped, ChainLater, Chained, HandlersCalled

(* "Attach given handler to the give posix signal" (signalDispatcher.hpp:44): *)
(* every handler attached to a signal is called by it, once and in order,  *)
(* for any signals, handlers and actions at the start and with signals     *)
(* between any two steps, unless the action was SIG_IGN or the multimap    *)
(* was being changed (signalDispatcher.cpp:34-110).                        *)
THEOREM EveryHandlerCalled == Spec => []HandlersCalled
<1>1. Init => DispatcherInv
  <2> SUFFICES ASSUME Init PROVE DispatcherInv
    OBVIOUS
  <2>1. /\ before \in [Signal -> {"SIG_DFL", "SIG_IGN", "previous"}] /\ action = before
    <3>1. before \in [Signal -> Dispositions] /\ action = before
      BY DEF Init, SignalInit
    <3>2. Dispositions \subseteq {"SIG_DFL", "SIG_IGN", "previous"}
      BY DispatcherAssumption
    <3> QED BY <3>1, <3>2
  <2>2. /\ mapping = [s \in Signal |-> <<>>] /\ attached = [s \in Signal |-> <<>>]
        /\ attaching = NotAttaching /\ last = <<>>
    BY DEF Init, SignalInit
  <2>3. DispatcherTypeOK
    BY <2>1, <2>2 DEF DispatcherTypeOK
  <2>4. \A s \in Signal : Mapped(s)
    BY <2>1, <2>2 DEF Mapped, ChainLater
  <2> QED BY <2>2, <2>3, <2>4 DEF DispatcherInv, Attaching, HandlersCalled
<1>2. DispatcherInv /\ [Next]_vars => DispatcherInv'
  <2> SUFFICES ASSUME DispatcherInv, [Next]_vars PROVE DispatcherInv'
    OBVIOUS
  <2>1. \/ UNCHANGED signalVars
        \/ Interrupt(TalkSignal)
        \/ attachHandler(TalkSignal, TalkHandler) \/ BeginEmplace \/ EndEmplace
        \/ SignalNext
    BY DEF Next, vars
  <2>2. CASE UNCHANGED signalVars
    BY <2>2, DispatcherAlone
  <2>3. CASE Interrupt(TalkSignal)
    BY <2>3, TalkFacts, DeliverKeeps DEF Interrupt
  <2>4. CASE attachHandler(TalkSignal, TalkHandler)
    BY <2>4, TalkFacts, AttachKeeps
  <2>5. CASE BeginEmplace \/ EndEmplace
    BY <2>5, BeginKeeps, EndKeeps
  <2>6. CASE SignalNext
    BY <2>6, AttachKeeps, BeginKeeps, EndKeeps, DeliverKeeps DEF SignalNext
  <2> QED BY <2>1, <2>2, <2>3, <2>4, <2>5, <2>6
<1>3. DispatcherInv => HandlersCalled
  BY DEF DispatcherInv
<1> QED BY <1>1, <1>2, <1>3, PTL DEF Spec
-----------------------------------------------------------------------------
(* Bytes                                                                   *)

(* One direction: bytes that have gone through, bytes that are held, bytes *)
(* that were dropped, and how many there have been.                        *)
Stream(through, held, gone, n) ==
  /\ through \in Seq(Nat) /\ held \in Seq(Nat) /\ gone \in SUBSET Nat /\ n \in Nat
  /\ Ascending(through \o held)
  /\ Bytes(through \o held) \cup gone = 1..n

(* The members of a concatenation.                                         *)
LEMMA BytesOfConcat ==
  ASSUME NEW s \in Seq(Nat), NEW t \in Seq(Nat)
  PROVE  Bytes(s \o t) = Bytes(s) \cup Bytes(t)
<1> DEFINE a == Len(s)
           b == Len(t)
           c == s \o t
<1>1. /\ Len(c) = a + b /\ a \in Nat /\ b \in Nat
      /\ \A i \in 1..a : c[i] = s[i]
      /\ \A i \in 1..b : c[a + i] = t[i]
  BY Joined, LenProperties
<1> HIDE DEF a, b, c
<1>2. \A i \in 1..a : i \in 1..(a + b)
  BY <1>1
<1>3. \A i \in 1..b : a + i \in 1..(a + b)
  BY <1>1
<1>4. \A i \in 1..(a + b) : i \in 1..a \/ (i - a \in 1..b /\ a + (i - a) = i)
  BY <1>1
<1>5. Bytes(c) = {c[i] : i \in 1..(a + b)} /\ Bytes(s) = {s[i] : i \in 1..a}
      /\ Bytes(t) = {t[i] : i \in 1..b}
  BY <1>1 DEF Bytes, a, b
<1>6. \A x \in Bytes(s) : x \in Bytes(c)
  BY <1>1, <1>2, <1>5
<1>7. \A x \in Bytes(t) : x \in Bytes(c)
  BY <1>1, <1>3, <1>5
<1>8. ASSUME NEW i \in 1..(a + b) PROVE c[i] \in Bytes(s) \cup Bytes(t)
  <2>1. CASE i \in 1..a
    BY <1>1, <1>5, <2>1
  <2>2. CASE i - a \in 1..b /\ a + (i - a) = i
    <3>1. c[a + (i - a)] = t[i - a]
      BY <1>1, <2>2
    <3> QED BY <1>5, <2>2, <3>1
  <2> QED BY <1>4, <2>1, <2>2
<1>9. Bytes(c) = Bytes(s) \cup Bytes(t)
  BY <1>5, <1>6, <1>7, <1>8
<1> QED BY <1>9 DEF c

(* More bytes come, behind the ones held (file.cpp:161-170,                *)
(* ioobject.cpp:28-48).                                                    *)
LEMMA StreamGrows ==
  ASSUME NEW m, NEW h, NEW g, NEW n, Stream(m, h, g, n), NEW k \in Nat
  PROVE  /\ Stream(m, h \o Numbered(n, k), g, n + k)
         /\ Len(h \o Numbered(n, k)) = Len(h) + k
<1> DEFINE x == m \o h
           y == Numbered(n, k)
           a == Len(x)
<1>0. /\ m \in Seq(Nat) /\ h \in Seq(Nat) /\ g \in SUBSET Nat /\ n \in Nat /\ x \in Seq(Nat)
      /\ Ascending(x) /\ Bytes(x) \cup g = 1..n /\ a \in Nat
  BY ConcatProperties, LenProperties DEF Stream
<1>1. /\ y \in Seq(Nat) /\ Len(y) = k /\ \A i \in 1..k : y[i] = n + i
  <2>1. y = [i \in 1..k |-> n + i]
    BY DEF Numbered
  <2>2. \A i \in 1..k : n + i \in Nat
    BY <1>0
  <2> QED BY <2>1, <2>2
<1> HIDE DEF y
<1>2. m \o (h \o y) = x \o y /\ h \o y \in Seq(Nat) /\ Len(h \o y) = Len(h) + k
  <2>1. m \in Seq(Nat) /\ h \in Seq(Nat) /\ y \in Seq(Nat)
    BY <1>0, <1>1
  <2>2. (m \o h) \o y = m \o (h \o y)
    BY ONLY <2>1, ConcatAssociative
  <2>3. h \o y \in Seq(Nat) /\ Len(h \o y) = Len(h) + Len(y)
    BY ONLY <2>1, ConcatProperties
  <2> QED BY <1>1, <2>2, <2>3
<1>3. Bytes(y) = {i \in 1..(n + k) : i > n}
  <2>1. Bytes(y) = {n + i : i \in 1..k}
    BY <1>1 DEF Bytes
  <2>2. \A i \in 1..k : n + i \in 1..(n + k) /\ n + i > n
    BY <1>0
  <2>3. \A j \in 1..(n + k) : j > n => j - n \in 1..k /\ n + (j - n) = j
    BY <1>0
  <2> QED BY <2>1, <2>2, <2>3
<1> HIDE DEF x
<1>4. Bytes(x \o y) = Bytes(x) \cup Bytes(y)
  BY <1>0, <1>1, BytesOfConcat
<1>5. Bytes(x \o y) \cup g = 1..(n + k)
  <2>1. Bytes(x \o y) \cup g = (1..n) \cup {i \in 1..(n + k) : i > n}
    BY <1>0, <1>3, <1>4
  <2>2. 1..(n + k) = (1..n) \cup {i \in 1..(n + k) : i > n}
    BY <1>0
  <2> QED BY <2>1, <2>2
<1>6. Ascending(x \o y)
  <2> DEFINE z == x \o y
  <2>1. /\ Len(z) = a + k
        /\ \A i \in 1..a : z[i] = x[i]
        /\ \A i \in 1..k : z[a + i] = y[i]
    <3>1. x \in Seq(Nat) /\ y \in Seq(Nat)
      BY <1>0, <1>1
    <3>2. /\ Len(x \o y) = Len(x) + Len(y)
          /\ \A i \in 1..Len(x) : (x \o y)[i] = x[i]
          /\ \A i \in 1..Len(y) : (x \o y)[Len(x) + i] = y[i]
      BY ONLY <3>1, Joined
    <3> QED BY <1>1, <3>2
  <2>2. \A i \in 1..a : x[i] \in Nat /\ x[i] <= n
    <3>1. \A i \in 1..a : x[i] \in Bytes(x)
      BY DEF Bytes
    <3>2. \A b \in Bytes(x) : b \in 1..n
      BY <1>0
    <3> QED BY <1>0, <3>1, <3>2
  <2> HIDE DEF z, a
  <2>3. ASSUME NEW i \in 1..(a + k) PROVE i \in 1..a \/ (i > a /\ z[i] = n + (i - a))
    <3>1. i > a => i - a \in 1..k /\ a + (i - a) = i
      BY <1>0
    <3>2. i > a => z[a + (i - a)] = y[i - a]
      BY <2>1, <3>1
    <3> QED BY <1>0, <1>1, <3>1, <3>2
  <2>4. ASSUME NEW i \in 1..(a + k), NEW j \in 1..(a + k), i < j PROVE z[i] < z[j]
    <3>1. CASE j \in 1..a
      <4>1. i \in 1..a
        BY <1>0, <2>4, <3>1
      <4>2. x[i] < x[j]
        BY <1>0, <2>4, <3>1, <4>1 DEF Ascending, a
      <4> QED BY <2>1, <3>1, <4>1, <4>2
    <3>2. CASE j > a /\ z[j] = n + (j - a)
      <4>1. CASE i \in 1..a
        <5>1. z[i] \in Nat /\ z[i] <= n
          BY <2>1, <2>2, <4>1
        <5> QED BY <1>0, <3>2, <5>1
      <4>2. CASE i > a /\ z[i] = n + (i - a)
        BY <1>0, <2>4, <3>2, <4>2
      <4> QED BY <2>3, <4>1, <4>2
    <3> QED BY <2>3, <3>1, <3>2
  <2>5. Ascending(z)
    BY <2>1, <2>4 DEF Ascending
  <2> QED BY <2>5 DEF z
<1>7. n + k \in Nat
  BY <1>0
<1> QED BY <1>0, <1>2, <1>5, <1>6, <1>7 DEF Stream, y

(* The first k bytes held go through.                                      *)
LEMMA StreamMoves ==
  ASSUME NEW m, NEW h, NEW g, NEW n, Stream(m, h, g, n), NEW k \in 0..Len(h)
  PROVE  /\ Stream(m \o SubSeq(h, 1, k), SubSeq(h, k + 1, Len(h)), g, n)
         /\ Len(SubSeq(h, k + 1, Len(h))) \in Nat
<1> DEFINE a == SubSeq(h, 1, k)
           b == SubSeq(h, k + 1, Len(h))
<1>0. m \in Seq(Nat) /\ h \in Seq(Nat) /\ Len(h) \in Nat
  BY LenProperties DEF Stream
<1>1. a \in Seq(Nat) /\ b \in Seq(Nat)
  BY <1>0
<1>2. a \o b = h
  <2>1. 1 \in 1..(Len(h) + 1) /\ k \in (1 - 1)..Len(h) /\ Len(h) \in k..Len(h)
    BY <1>0
  <2>2. a \o b = SubSeq(h, 1, Len(h))
    BY <1>0, <2>1, ConcatAdjacentSubSeq
  <2> QED BY <1>0, <2>2, SubSeqFull
<1> HIDE DEF a, b
<1>3. (m \o a) \o b = m \o h /\ m \o a \in Seq(Nat)
  <2>1. m \in Seq(Nat) /\ a \in Seq(Nat) /\ b \in Seq(Nat)
    BY <1>0, <1>1
  <2>2. (m \o a) \o b = m \o (a \o b)
    BY ONLY <2>1, ConcatAssociative
  <2>3. m \o a \in Seq(Nat)
    BY ONLY <2>1, ConcatProperties
  <2> QED BY <1>2, <2>2, <2>3
<1>4. Len(b) \in Nat
  BY <1>1, LenProperties
<1> QED BY <1>1, <1>3, <1>4 DEF Stream, a, b

(* What is held is dropped.                                                *)
LEMMA StreamDrops ==
  ASSUME NEW m, NEW h, NEW g, NEW n, Stream(m, h, g, n)
  PROVE  Stream(m, <<>>, g \cup Bytes(h), n)
<1>0. /\ m \in Seq(Nat) /\ h \in Seq(Nat) /\ Len(m) \in Nat /\ Len(h) \in Nat
      /\ g \in SUBSET Nat /\ n \in Nat /\ Ascending(m \o h) /\ Bytes(m \o h) \cup g = 1..n
  BY LenProperties DEF Stream
<1>1. m \o <<>> = m /\ <<>> \in Seq(Nat)
  BY <1>0, ConcatEmptySeq
<1>2. Bytes(m \o h) = Bytes(m) \cup Bytes(h)
  BY <1>0, BytesOfConcat
<1>3. Bytes(h) \in SUBSET Nat
  BY <1>0 DEF Bytes
<1>4. Ascending(m)
  <2> DEFINE x == m \o h
  <2>1. Len(x) = Len(m) + Len(h) /\ \A i \in 1..Len(m) : x[i] = m[i]
    BY <1>0, Joined
  <2> HIDE DEF x
  <2>2. \A i \in 1..Len(m) : i \in 1..Len(x)
    BY <1>0, <2>1
  <2>3. Ascending(x)
    BY <1>0 DEF x
  <2> QED BY <2>1, <2>2, <2>3 DEF Ascending
<1>5. Bytes(m) \cup (g \cup Bytes(h)) = 1..n /\ g \cup Bytes(h) \in SUBSET Nat
  BY <1>0, <1>2, <1>3
<1> QED BY <1>0, <1>1, <1>4, <1>5 DEF Stream

(* Both directions, and what the calls that wait have said.                *)
Flow ==
  /\ dropped \in [out : SUBSET Nat, in : SUBSET Nat]
  /\ Stream(sent, output, dropped.out, position)
  /\ Stream(got, input, dropped.in, arrived)

Promise == promised \in Nat /\ promised <= Len(input)
Drained == drained # <<>> /\ ~drained.early => drained.left = {}

DataInv == Flow /\ Promise /\ Drained

(* Steps that leave the data alone and say nothing.                        *)
LEMMA DataAlone ==
  ASSUME DataInv, UNCHANGED <<data, promised>>, UNCHANGED drained \/ drained' = <<>>
  PROVE  DataInv'
<1>1. UNCHANGED <<output, sent, input, got, dropped, position, arrived, promised>>
  BY DEF data
<1>2. Flow'
  BY <1>1 DEF DataInv, Flow
<1>3. Promise'
  BY <1>1 DEF DataInv, Promise
<1>4. Drained'
  BY DEF DataInv, Drained
<1> QED BY <1>2, <1>3, <1>4 DEF DataInv

(* The two directions move apart from each other.                          *)
LEMMA OutputMoves ==
  ASSUME DataInv, dropped' \in [out : SUBSET Nat, in : SUBSET Nat], dropped'.in = dropped.in,
         Stream(sent', output', dropped'.out, position'),
         UNCHANGED <<input, got, arrived, promised, drained>>
  PROVE  DataInv'
<1>1. Flow'
  BY DEF DataInv, Flow
<1>2. Promise' /\ Drained'
  BY DEF DataInv, Promise, Drained
<1> QED BY <1>1, <1>2 DEF DataInv

(* Nor does what comes in disturb what goes out.                           *)
LEMMA InputMoves ==
  ASSUME DataInv, dropped' \in [out : SUBSET Nat, in : SUBSET Nat], dropped'.out = dropped.out,
         Stream(got', input', dropped'.in, arrived'),
         promised' \in Nat, promised' <= Len(input'),
         UNCHANGED <<output, sent, position, drained>>
  PROVE  DataInv'
<1>1. Flow'
  BY DEF DataInv, Flow
<1>2. Promise' /\ Drained'
  BY DEF DataInv, Promise, Drained
<1> QED BY <1>1, <1>2 DEF DataInv

(* write, Transmit and flushOutput (file.cpp:161, serial.cpp:390).         *)
LEMMA OutputKeeps ==
  ASSUME DataInv, NEW p \in Object,
         (\E n \in 1..2 : write(p, n)) \/ Transmit \/ flushOutput(p)
  PROVE  DataInv'
<1>0. /\ dropped \in [out : SUBSET Nat, in : SUBSET Nat]
      /\ Stream(sent, output, dropped.out, position)
      /\ output \in Seq(Nat) /\ sent \in Seq(Nat) /\ Len(output) \in Nat
      /\ position \in Nat
  BY LenProperties DEF DataInv, Flow, Stream
<1>1. CASE \E n \in 1..2 : write(p, n)
  <2>1. PICK taken \in Nat :
          /\ output' = output \o Numbered(position, taken) /\ position' = position + taken
          /\ UNCHANGED <<sent, input, got, dropped, arrived, promised, drained>>
    <3>1. PICK n \in 1..2 : write(p, n)
      BY <1>1
    <3>2. n \in Nat
      OBVIOUS
    <3>3. PICK taken \in 1..n : output' = output \o Numbered(position, taken)
                                /\ position' = position + taken
      BY <3>1 DEF write, Advance
    <3> QED BY <3>1, <3>2, <3>3 DEF write, answers
  <2>2. Stream(sent, output \o Numbered(position, taken), dropped.out, position + taken)
    BY <1>0, StreamGrows
  <2> QED BY <1>0, <2>1, <2>2, OutputMoves
<1>2. CASE Transmit
  <2>1. /\ output # <<>> /\ sent' = Append(sent, Head(output)) /\ output' = Tail(output)
        /\ UNCHANGED <<input, got, dropped, position, arrived, promised, drained>>
    BY <1>2 DEF Transmit, answers
  <2>2. 1 \in 0..Len(output) /\ Head(output) \in Nat /\ Len(output) >= 1
    BY <1>0, <2>1, EmptySeq, HeadTailProperties
  <2>3. Append(sent, Head(output)) = sent \o <<Head(output)>>
    BY <1>0, <2>2, AppendIsConcat
  <2>4. SubSeq(output, 1, 1) = <<Head(output)>>
    <3> DEFINE a == SubSeq(output, 1, 1)
               b == <<Head(output)>>
    <3>1. Head(output) = output[1]
      BY <1>0, <2>1
    <3>2. a \in Seq(Nat) /\ Len(a) = 1 /\ a[1] = output[1]
      BY <1>0, <2>2
    <3>3. b \in Seq(Nat) /\ Len(b) = 1 /\ b[1] = Head(output)
      BY <2>2
    <3> HIDE DEF a, b
    <3>4. \A i \in 1..1 : a[i] = b[i]
      BY <3>1, <3>2, <3>3
    <3>5. a = b
      BY <3>2, <3>3, <3>4, SeqEqual
    <3> QED BY <3>5 DEF a, b
  <2>5. Tail(output) = SubSeq(output, 1 + 1, Len(output))
    BY <1>0, <2>1, TailIsSubSeq
  <2>6. Stream(sent \o SubSeq(output, 1, 1), SubSeq(output, 1 + 1, Len(output)), dropped.out, position)
    BY <1>0, <2>2, StreamMoves
  <2>7. Stream(sent', output', dropped'.out, position')
    BY <2>1, <2>3, <2>4, <2>5, <2>6
  <2> QED BY <1>0, <2>1, <2>7, OutputMoves
<1>3. CASE flushOutput(p)
  <2>1. /\ dropped' = [dropped EXCEPT !.out = @ \cup Bytes(output)] /\ output' = <<>>
        /\ UNCHANGED <<sent, input, got, position, arrived, promised, drained>>
    BY <1>3 DEF flushOutput, answers
  <2>2. Stream(sent, <<>>, dropped.out \cup Bytes(output), position)
    BY <1>0, StreamDrops
  <2>3. dropped.out \cup Bytes(output) \in SUBSET Nat
    BY <2>2 DEF Stream
  <2>4. /\ dropped' \in [out : SUBSET Nat, in : SUBSET Nat] /\ dropped'.in = dropped.in
        /\ dropped'.out = dropped.out \cup Bytes(output)
    BY <1>0, <2>1, <2>3
  <2> QED BY <2>1, <2>2, <2>4, OutputMoves
<1> QED BY <1>1, <1>2, <1>3

(* read, available, Arrive and flushInput (file.cpp:148, serial.cpp:383,  *)
(* 567).                                                                   *)
LEMMA InputKeeps ==
  ASSUME DataInv, NEW p \in Object,
         (\E n \in 1..2 : read(p, n)) \/ available(p) \/ Arrive \/ flushInput(p)
  PROVE  DataInv'
<1>0. /\ dropped \in [out : SUBSET Nat, in : SUBSET Nat]
      /\ Stream(got, input, dropped.in, arrived)
      /\ input \in Seq(Nat) /\ got \in Seq(Nat) /\ Len(input) \in Nat
      /\ arrived \in Nat /\ promised \in Nat /\ promised <= Len(input)
  BY LenProperties DEF DataInv, Flow, Promise, Stream
<1>1. CASE \E n \in 1..2 : read(p, n)
  <2>1. PICK k \in 0..Len(input) :
          /\ got' = got \o SubSeq(input, 1, k) /\ input' = SubSeq(input, k + 1, Len(input))
          /\ promised' = 0
          /\ UNCHANGED <<output, sent, dropped, position, arrived, drained>>
    <3>1. PICK n \in 1..2 : read(p, n)
      BY <1>1
    <3> DEFINE k == IF Len(input) < n THEN Len(input) ELSE n
    <3>2. k \in 0..Len(input)
      BY <1>0
    <3> QED BY <3>1, <3>2 DEF read
  <2>2. /\ Stream(got \o SubSeq(input, 1, k), SubSeq(input, k + 1, Len(input)), dropped.in, arrived)
        /\ Len(SubSeq(input, k + 1, Len(input))) \in Nat
    BY <1>0, StreamMoves
  <2>3. promised' \in Nat /\ promised' <= Len(input')
    BY <2>1, <2>2
  <2> QED BY <1>0, <2>1, <2>2, <2>3, InputMoves
<1>2. CASE available(p)
  <2>1. promised' = Len(input)
        /\ UNCHANGED <<output, sent, input, got, dropped, position, arrived, drained>>
    BY <1>2 DEF available, data
  <2>2. promised' \in Nat /\ promised' <= Len(input')
    BY <1>0, <2>1
  <2> QED BY <1>0, <2>1, <2>2, InputMoves
<1>3. CASE Arrive
  <2>1. /\ arrived' = arrived + 1 /\ input' = Append(input, arrived + 1)
        /\ UNCHANGED <<output, sent, got, dropped, position, promised, drained>>
    BY <1>3 DEF Arrive, answers
  <2>2. Numbered(arrived, 1) = <<arrived + 1>> /\ arrived + 1 \in Nat
    BY <1>0 DEF Numbered
  <2>3. Append(input, arrived + 1) = input \o <<arrived + 1>>
    BY <1>0, <2>2, AppendIsConcat
  <2>4. /\ Stream(got, input \o Numbered(arrived, 1), dropped.in, arrived + 1)
        /\ Len(input \o Numbered(arrived, 1)) = Len(input) + 1
    BY <1>0, StreamGrows
  <2>5. input' = input \o Numbered(arrived, 1)
    BY <2>1, <2>2, <2>3
  <2>6. promised' \in Nat /\ promised' <= Len(input')
    BY <1>0, <2>1, <2>4, <2>5
  <2> QED BY <1>0, <2>1, <2>4, <2>5, <2>6, InputMoves
<1>4. CASE flushInput(p)
  <2>1. /\ dropped' = [dropped EXCEPT !.in = @ \cup Bytes(input)] /\ input' = <<>> /\ promised' = 0
        /\ UNCHANGED <<output, sent, got, position, arrived, drained>>
    BY <1>4 DEF flushInput
  <2>2. Stream(got, <<>>, dropped.in \cup Bytes(input), arrived)
    BY <1>0, StreamDrops
  <2>3. dropped.in \cup Bytes(input) \in SUBSET Nat
    BY <2>2 DEF Stream
  <2>4. /\ dropped' \in [out : SUBSET Nat, in : SUBSET Nat] /\ dropped'.out = dropped.out
        /\ dropped'.in = dropped.in \cup Bytes(input)
    BY <1>0, <2>1, <2>3
  <2>5. promised' \in Nat /\ promised' <= Len(input')
    BY <2>1
  <2> QED BY <2>1, <2>2, <2>4, <2>5, InputMoves
<1> QED BY <1>1, <1>2, <1>3, <1>4

(* close and the destructor (file.cpp:125, 192): the last                  *)
(* descriptor that goes takes with it what the driver holds.               *)
LEMMA LetKeeps ==
  ASSUME DataInv, NEW p \in Object, NEW state, Let(p, state)
  PROVE  DataInv'
<1>0. /\ dropped \in [out : SUBSET Nat, in : SUBSET Nat]
      /\ Stream(sent, output, dropped.out, position)
      /\ Stream(got, input, dropped.in, arrived)
  BY DEF DataInv, Flow
<1>1. Release(p) /\ UNCHANGED <<sent, got, position, arrived, drained>>
  BY DEF Let
<1>2. CASE UNCHANGED <<dropped, output, input, promised>>
  BY <1>1, <1>2, DataAlone DEF data
<1>3. CASE /\ dropped' = [out |-> dropped.out \cup Bytes(output), in |-> dropped.in \cup Bytes(input)]
           /\ output' = <<>> /\ input' = <<>> /\ promised' = 0
  <2>1. /\ Stream(sent, <<>>, dropped.out \cup Bytes(output), position)
        /\ Stream(got, <<>>, dropped.in \cup Bytes(input), arrived)
    BY <1>0, StreamDrops
  <2>2. dropped.out \cup Bytes(output) \in SUBSET Nat /\ dropped.in \cup Bytes(input) \in SUBSET Nat
    BY <2>1 DEF Stream
  <2>3. /\ dropped' \in [out : SUBSET Nat, in : SUBSET Nat]
        /\ dropped'.out = dropped.out \cup Bytes(output) /\ dropped'.in = dropped.in \cup Bytes(input)
    BY <1>3, <2>2
  <2>4. Flow'
    BY <1>1, <1>3, <2>1, <2>3 DEF Flow
  <2>5. Promise'
    BY <1>3 DEF Promise
  <2>6. Drained'
    BY <1>1 DEF DataInv, Drained
  <2> QED BY <2>4, <2>5, <2>6 DEF DataInv
<1> QED BY <1>1, <1>2, <1>3 DEF Release

(* flush returns: with nothing left, unless a signal came (serial.cpp:379). *)
LEMMA FlushKeeps ==
  ASSUME DataInv, flushReturns
  PROVE  DataInv'
<1>1. /\ output = <<>> \/ call.early
      /\ drained' = [early |-> call.early, left |-> Bytes(output) \cap 1..call.upto]
      /\ UNCHANGED <<output, sent, input, got, dropped, position, arrived, promised>>
  BY DEF flushReturns, data
<1>2. Flow' /\ Promise'
  BY <1>1 DEF DataInv, Flow, Promise
<1>3. drained'.early = call.early /\ drained'.left = Bytes(output) \cap 1..call.upto
  BY <1>1
<1>4. output = <<>> => Bytes(output) = {}
  BY DEF Bytes
<1>5. ~drained'.early => drained'.left = {}
  BY <1>1, <1>3, <1>4
<1> QED BY <1>2, <1>5 DEF DataInv, Drained

(* waitReadable answers (serial.cpp:531-564).                              *)
LEMMA WaitReadableKeeps ==
  ASSUME DataInv, waitReadableReturns
  PROVE  DataInv'
<1>0. input \in Seq(Nat) /\ Len(input) \in Nat
  BY LenProperties DEF DataInv, Flow, Stream
<1>1. UNCHANGED <<output, sent, input, got, dropped, position, arrived, drained>>
  BY DEF waitReadableReturns, data
<1>2. PICK ready \in {input # <<>>, FALSE} : promised' = IF ready THEN 1 ELSE 0
  BY DEF waitReadableReturns, answer
<1>3. ready => input # <<>>
  BY <1>2, Zenon
<1>4. input # <<>> => Len(input) >= 1
  BY <1>0, EmptySeq
<1>5. Promise'
  BY <1>0, <1>1, <1>2, <1>3, <1>4 DEF Promise
<1>6. Flow' /\ Drained'
  BY <1>1 DEF DataInv, Flow, Drained
<1> QED BY <1>5, <1>6 DEF DataInv

(* Every step of the client, the device and the signals.                   *)
LEMMA NextDataInv == DataInv /\ [Next]_vars => DataInv'
<1> SUFFICES ASSUME DataInv, [Next]_vars PROVE DataInv'
  OBVIOUS
<1>1. ASSUME Configure PROVE DataInv'
  <2>1. ASSUME NEW p \in Object, NEW c, NEW k, Construct(p, c, k) \/ ConstructChannel(p, c, k)
        PROVE  DataInv'
    <3>1. UNCHANGED <<data, answers>>
      BY <2>1 DEF Construct, ConstructChannel
    <3> QED BY <3>1, DataAlone DEF answers
  <2>2. ASSUME NEW p \in Object, NEW q \in Object, move(p, q) \/ swap(p, q) PROVE DataInv'
    <3>1. UNCHANGED <<data, answers>>
      BY <2>2 DEF move, swap
    <3> QED BY <3>1, DataAlone DEF answers
  <2>3. ASSUME NEW p \in Object, close(p) \/ destroy(p) PROVE DataInv'
    BY <2>3, LetKeeps DEF close, destroy
  <2>4. ASSUME NEW p \in Object, NEW l, NEW level, sendBreak(p) \/ setLine(p, l, level) PROVE DataInv'
    <3>1. UNCHANGED <<data, answers>>
      BY <2>4 DEF sendBreak, setLine
    <3> QED BY <3>1, DataAlone DEF answers
  <2> QED BY <1>1, <2>1, <2>2, <2>3, <2>4 DEF Configure
<1>2. ASSUME NEW p \in Object, Talk(p) PROVE DataInv'
  <2>1. CASE \E c \in TalkConfigs : Construct(p, c, Len(Steps(c)))
    <3>1. UNCHANGED <<data, answers>>
      BY <2>1 DEF Construct
    <3> QED BY <3>1, DataAlone DEF answers
  <2>2. CASE close(p)
    BY <2>2, LetKeeps DEF close
  <2>3. CASE (\E n \in 1..2 : write(p, n)) \/ Transmit \/ flushOutput(p)
    BY <2>3, OutputKeeps
  <2>4. CASE (\E n \in 1..2 : read(p, n)) \/ available(p) \/ Arrive \/ flushInput(p)
    BY <2>4, InputKeeps
  <2>5. CASE flush(p) \/ waitReadable(p) \/ waitForChange(p)
    <3>1. UNCHANGED <<data, promised>> /\ drained' = <<>>
      BY <2>5 DEF flush, waitReadable, waitForChange, Enter
    <3> QED BY <3>1, DataAlone
  <2>6. CASE flushReturns
    BY <2>6, FlushKeeps
  <2>7. CASE waitReadableReturns
    BY <2>7, WaitReadableKeeps
  <2>8. CASE waitForChangeReturns \/ \E l \in ModemLines : MoveLine(l)
    <3>1. UNCHANGED <<data, promised, drained>>
      BY <2>8 DEF waitForChangeReturns, MoveLine
    <3> QED BY <3>1, DataAlone
  <2> QED BY <1>2, <2>1, <2>2, <2>3, <2>4, <2>5, <2>6, <2>7, <2>8 DEF Talk
<1>3. CASE Interrupt(TalkSignal)
  <2>1. UNCHANGED <<data, promised, drained>>
    BY <1>3 DEF Interrupt
  <2> QED BY <2>1, DataAlone
<1>4. CASE UNCHANGED serialVars
  <2>1. UNCHANGED <<data, promised, drained>>
    BY <1>4 DEF serialVars, answers
  <2> QED BY <2>1, DataAlone
<1>5. Configure \/ Talk(TalkPort) \/ Interrupt(TalkSignal) \/ UNCHANGED serialVars
  BY DEF Next, vars
<1> QED BY <1>1, <1>2, <1>3, <1>4, <1>5, TalkFacts

(* The initial state.                                                      *)
LEMMA InitDataInv == Init => DataInv
<1> SUFFICES ASSUME Init PROVE DataInv
  OBVIOUS
<1>1. /\ output = <<>> /\ sent = <<>> /\ input = <<>> /\ got = <<>>
      /\ dropped = [out |-> {}, in |-> {}]
      /\ position = 0 /\ arrived = 0 /\ promised = 0 /\ drained = <<>>
  BY DEF Init
<1>2. <<>> \o <<>> = <<>> /\ <<>> \in Seq(Nat) /\ Len(<<>>) = 0
  OBVIOUS
<1>3. Stream(<<>>, <<>>, {}, 0)
  BY <1>2 DEF Stream, Ascending, Bytes
<1>4. Flow
  <2>1. dropped \in [out : SUBSET Nat, in : SUBSET Nat] /\ dropped.out = {} /\ dropped.in = {}
    BY <1>1
  <2> QED BY <1>1, <1>3, <2>1 DEF Flow
<1> QED BY <1>1, <1>2, <1>4 DEF DataInv, Promise, Drained

(* No byte is skipped, doubled or reordered, in either direction, however  *)
(* many are written, read and dropped and whatever the driver takes at a   *)
(* time (ioobject.cpp:28-48, file.cpp:148-170, serial.cpp:383-394).        *)
THEOREM SerialBytesInOrder == Spec => []BytesInOrder
<1>1. DataInv => BytesInOrder
  BY DEF DataInv, Flow, Stream, BytesInOrder
<1> QED BY InitDataInv, NextDataInv, <1>1, PTL DEF Spec

(* What waitReadable, available and flush said still holds, signals or not *)
(* ("The return value is true when the function exits with the port in a   *)
(* readable state, false otherwise (due to timeout or select               *)
(* interruption)", serial.hpp:248).                                        *)
THEOREM SerialAnswersHold == Spec => []AnswersHold
<1>1. DataInv => AnswersHold
  BY DEF DataInv, Promise, Drained, AnswersHold
<1> QED BY InitDataInv, NextDataInv, <1>1, PTL DEF Spec
-----------------------------------------------------------------------------
(* The line                                                                *)

LFlags == {"ICANON", "ECHO", "ISIG", "IEXTEN"}
CFlags == {"CLOCAL", "CREAD", "CSTOPB", "PARENB", "PARODD", "CMSPAR", "CRTSCTS"}
IFlags == {"ICRNL", "IXON", "IXOFF"} \cup Leftovers

Termios == [speed : Nat, size : Nat, cflag : SUBSET CFlags, iflag : SUBSET IFlags,
            lflag : SUBSET LFlags, oflag : SUBSET {"OPOST"}]

(* No translation of what goes through.                                    *)
IsRaw(t) == t.lflag = {} /\ t.oflag = {} /\ "ICRNL" \notin t.iflag

(* The bits that make a parity; stick: was CMSPAR set before?              *)
ParityBits(t, parity, stick) ==
  /\ ("PARENB" \in t.cflag) <=> (parity # "none")
  /\ parity \in {"odd", "mark"} => "PARODD" \in t.cflag
  /\ parity \in {"even", "space"} => "PARODD" \notin t.cflag
  /\ parity \in {"mark", "space"} => "CMSPAR" \in t.cflag
  /\ parity \in {"even", "odd"} /\ "CMSPAR" \in t.cflag => stick

FlowBits(t, flowcontrol) ==
  /\ flowcontrol = "software" => "IXON" \in t.iflag /\ "IXOFF" \in t.iflag
  /\ flowcontrol # "software" => "IXON" \notin t.iflag
  /\ ("CRTSCTS" \in t.cflag) <=> (flowcontrol = "hardware")

(* The settings t are as c asks for.                                       *)
Settings(t, c, stick) ==
  /\ t.size = c.bytesize
  /\ ("CSTOPB" \in t.cflag) <=> (c.stopbits # "one")
  /\ FlowBits(t, c.flowcontrol)
  /\ IsRaw(t)
  /\ ParityBits(t, c.parity, stick)
  /\ ~IsCustom(c.baudrate) => t.speed = c.baudrate

LineInv ==
  /\ termios \in Termios
  /\ asked # <<>> => asked.config \in Config /\ Settings(termios, asked.config, asked.stick)

(* Raw mode (serial.cpp:67-77).                                            *)
LEMMA RawFacts ==
  ASSUME NEW t \in Termios
  PROVE  /\ Raw(t) \in Termios /\ IsRaw(Raw(t))
         /\ "CMSPAR" \in Raw(t).cflag <=> "CMSPAR" \in t.cflag
<1> DEFINE c == t.cflag \cup {"CLOCAL", "CREAD"}
           l == t.lflag \ {"ICANON", "ECHO", "ISIG", "IEXTEN"}
           o == t.oflag \ {"OPOST"}
           i == t.iflag \ {"INLCR", "IGNCR", "ICRNL", "IGNBRK", "IUCLC", "PARMRK"}
<1>0. /\ t.cflag \in SUBSET CFlags /\ t.iflag \in SUBSET IFlags /\ t.lflag \in SUBSET LFlags
      /\ t.oflag \in SUBSET {"OPOST"}
  BY DEF Termios
<1>1. Raw(t) = [t EXCEPT !.cflag = c, !.lflag = l, !.oflag = o, !.iflag = i]
  BY DEF Raw
<1>2. c \in SUBSET CFlags /\ ("CMSPAR" \in c <=> "CMSPAR" \in t.cflag)
  BY <1>0 DEF CFlags
<1>3. l = {} /\ o = {} /\ i \in SUBSET IFlags /\ "ICRNL" \notin i
  BY <1>0 DEF LFlags
<1> HIDE DEF c, l, o, i
<1>4. /\ Raw(t) \in Termios /\ Raw(t).cflag = c /\ Raw(t).lflag = l /\ Raw(t).oflag = o
      /\ Raw(t).iflag = i
  BY <1>1, <1>2, <1>3 DEF Termios
<1> QED BY <1>2, <1>3, <1>4 DEF IsRaw

(* The rate (serial.cpp:79-243).                                           *)
LEMMA SpeedFacts ==
  ASSUME NEW t \in Termios, NEW b \in Nat
  PROVE  LET u == WithSpeed(t, b)
         IN  /\ u \in Termios
             /\ u.size = t.size /\ u.cflag = t.cflag /\ u.iflag = t.iflag
             /\ u.lflag = t.lflag /\ u.oflag = t.oflag
             /\ ~IsCustom(b) => u.speed = b
<1>1. CASE IsCustom(b)
  BY <1>1 DEF WithSpeed
<1>2. CASE ~IsCustom(b)
  BY <1>2 DEF WithSpeed, Termios
<1> QED BY <1>1, <1>2

(* The size of a byte (serial.cpp:245-252).                                *)
LEMMA SizeFacts ==
  ASSUME NEW t \in Termios, NEW n \in Nat
  PROVE  LET u == WithSize(t, n)
         IN  /\ u \in Termios /\ u.size = n /\ u.speed = t.speed
             /\ u.cflag = t.cflag /\ u.iflag = t.iflag
             /\ u.lflag = t.lflag /\ u.oflag = t.oflag
BY DEF WithSize, Termios

(* The stop bits (serial.cpp:254-261).                                     *)
LEMMA StopFacts ==
  ASSUME NEW t \in Termios, NEW s
  PROVE  LET u == WithStopbits(t, s)
         IN  /\ u \in Termios /\ u.size = t.size /\ u.speed = t.speed
             /\ u.iflag = t.iflag /\ u.lflag = t.lflag /\ u.oflag = t.oflag
             /\ "CSTOPB" \in u.cflag <=> s # "one"
             /\ \A f \in CFlags : f # "CSTOPB" => (f \in u.cflag <=> f \in t.cflag)
<1> DEFINE c == IF s = "one" THEN t.cflag \ {"CSTOPB"} ELSE t.cflag \cup {"CSTOPB"}
<1>0. t.cflag \in SUBSET CFlags
  BY DEF Termios
<1>1. WithStopbits(t, s) = [t EXCEPT !.cflag = c]
  BY DEF WithStopbits
<1>2. c \in SUBSET CFlags /\ ("CSTOPB" \in c <=> s # "one")
      /\ \A f \in CFlags : f # "CSTOPB" => (f \in c <=> f \in t.cflag)
  BY <1>0 DEF CFlags
<1> HIDE DEF c
<1>3. LET u == [t EXCEPT !.cflag = c]
      IN  /\ u \in Termios /\ u.size = t.size /\ u.speed = t.speed
          /\ u.iflag = t.iflag /\ u.lflag = t.lflag /\ u.oflag = t.oflag /\ u.cflag = c
  BY <1>2 DEF Termios
<1> QED BY <1>1, <1>2, <1>3

(* Parity (serial.cpp:263-291): CMSPAR is set and never cleared.           *)
LEMMA ParityFacts ==
  ASSUME NEW t \in Termios, NEW p \in Parities
  PROVE  LET u == WithParity(t, p)
         IN  /\ u \in Termios /\ u.size = t.size /\ u.speed = t.speed
             /\ u.lflag = t.lflag /\ u.oflag = t.oflag
             /\ \A f \in {"ICRNL", "IXON", "IXOFF"} : f \in u.iflag <=> f \in t.iflag
             /\ ParityBits(u, p, "CMSPAR" \in t.cflag)
             /\ \A f \in {"CSTOPB", "CRTSCTS"} : f \in u.cflag <=> f \in t.cflag
<1> DEFINE i == t.iflag \ {"INPCK", "ISTRIP"}
           c == CASE p = "none"  -> t.cflag \ {"PARENB", "PARODD"}
                  [] p = "even"  -> (t.cflag \ {"PARODD"}) \cup {"PARENB"}
                  [] p = "odd"   -> t.cflag \cup {"PARENB", "PARODD"}
                  [] p = "mark"  -> t.cflag \cup {"PARENB", "CMSPAR", "PARODD"}
                  [] p = "space" -> (t.cflag \cup {"PARENB", "CMSPAR"}) \ {"PARODD"}
<1>0. t.cflag \in SUBSET CFlags /\ t.iflag \in SUBSET IFlags
  BY DEF Termios
<1>1. WithParity(t, p) = [t EXCEPT !.iflag = i, !.cflag = c]
  BY DEF WithParity
<1>2. i \in SUBSET IFlags /\ \A f \in {"ICRNL", "IXON", "IXOFF"} : f \in i <=> f \in t.iflag
  BY <1>0
<1>3. /\ c \in SUBSET CFlags
      /\ ("PARENB" \in c) <=> (p # "none")
      /\ p \in {"odd", "mark"} => "PARODD" \in c
      /\ p \in {"even", "space"} => "PARODD" \notin c
      /\ p \in {"mark", "space"} => "CMSPAR" \in c
      /\ p \in {"even", "odd"} /\ "CMSPAR" \in c => "CMSPAR" \in t.cflag
      /\ \A f \in {"CSTOPB", "CRTSCTS"} : f \in c <=> f \in t.cflag
  <2>1. CASE p = "none"
    <3>1. c = t.cflag \ {"PARENB", "PARODD"}
      BY <2>1
    <3> HIDE DEF c
    <3> QED BY <1>0, <2>1, <3>1
  <2>2. CASE p = "even"
    <3>1. c = (t.cflag \ {"PARODD"}) \cup {"PARENB"}
      BY <2>2
    <3> HIDE DEF c
    <3> QED BY <1>0, <2>2, <3>1 DEF CFlags
  <2>3. CASE p = "odd"
    <3>1. c = t.cflag \cup {"PARENB", "PARODD"}
      BY <2>3
    <3> HIDE DEF c
    <3> QED BY <1>0, <2>3, <3>1 DEF CFlags
  <2>4. CASE p = "mark"
    <3>1. c = t.cflag \cup {"PARENB", "CMSPAR", "PARODD"}
      BY <2>4
    <3> HIDE DEF c
    <3> QED BY <1>0, <2>4, <3>1 DEF CFlags
  <2>5. CASE p = "space"
    <3>1. c = (t.cflag \cup {"PARENB", "CMSPAR"}) \ {"PARODD"}
      BY <2>5
    <3> HIDE DEF c
    <3> QED BY <1>0, <2>5, <3>1 DEF CFlags
  <2> QED BY <2>1, <2>2, <2>3, <2>4, <2>5 DEF Parities
<1> HIDE DEF c, i
<1>4. LET u == [t EXCEPT !.iflag = i, !.cflag = c]
      IN  /\ u \in Termios /\ u.size = t.size /\ u.speed = t.speed
          /\ u.lflag = t.lflag /\ u.oflag = t.oflag /\ u.cflag = c /\ u.iflag = i
  BY <1>2, <1>3 DEF Termios
<1> QED BY <1>1, <1>2, <1>3, <1>4 DEF ParityBits

(* Flow control (serial.cpp:293-336).                                      *)
LEMMA FlowFacts ==
  ASSUME NEW t \in Termios, NEW w \in Flowcontrols
  PROVE  LET u == WithFlowcontrol(t, w)
         IN  /\ u \in Termios /\ u.size = t.size /\ u.speed = t.speed
             /\ u.lflag = t.lflag /\ u.oflag = t.oflag
             /\ "ICRNL" \in u.iflag <=> "ICRNL" \in t.iflag
             /\ FlowBits(u, w)
             /\ \A f \in {"CSTOPB", "PARENB", "PARODD", "CMSPAR"} : f \in u.cflag <=> f \in t.cflag
<1> DEFINE i == IF w = "software" THEN t.iflag \cup {"IXON", "IXOFF"}
                ELSE t.iflag \ {"IXON", "IXOFF", "IXANY"}
           c == IF w = "hardware" THEN t.cflag \cup {"CRTSCTS"} ELSE t.cflag \ {"CRTSCTS"}
<1>0. t.cflag \in SUBSET CFlags /\ t.iflag \in SUBSET IFlags
  BY DEF Termios
<1>1. WithFlowcontrol(t, w) = [t EXCEPT !.iflag = i, !.cflag = c]
  BY DEF WithFlowcontrol
<1>2. /\ i \in SUBSET IFlags
      /\ "ICRNL" \in i <=> "ICRNL" \in t.iflag
      /\ w = "software" => "IXON" \in i /\ "IXOFF" \in i
      /\ w # "software" => "IXON" \notin i
  BY <1>0 DEF IFlags
<1>3. /\ c \in SUBSET CFlags
      /\ ("CRTSCTS" \in c) <=> (w = "hardware")
      /\ \A f \in {"CSTOPB", "PARENB", "PARODD", "CMSPAR"} : f \in c <=> f \in t.cflag
  BY <1>0 DEF CFlags
<1> HIDE DEF c, i
<1>4. LET u == [t EXCEPT !.iflag = i, !.cflag = c]
      IN  /\ u \in Termios /\ u.size = t.size /\ u.speed = t.speed
          /\ u.lflag = t.lflag /\ u.oflag = t.oflag /\ u.cflag = c /\ u.iflag = i
  BY <1>2, <1>3 DEF Termios
<1> QED BY <1>1, <1>2, <1>3, <1>4 DEF FlowBits

(* A Serial that opens leaves the device with the settings it asked for,   *)
(* whatever settings it found (serial.cpp:53-347).                         *)
LEMMA ReconfigureFacts ==
  ASSUME NEW t \in Termios, NEW c \in Config
  PROVE  /\ reconfigurePort(t, c) \in Termios
         /\ Settings(reconfigurePort(t, c), c, "CMSPAR" \in t.cflag)
<1> DEFINE r1 == Raw(t)
           r2 == WithSpeed(r1, c.baudrate)
           r3 == WithSize(r2, c.bytesize)
           r4 == WithStopbits(r3, c.stopbits)
           r5 == WithParity(r4, c.parity)
           r6 == WithFlowcontrol(r5, c.flowcontrol)
<1>0. /\ c.baudrate \in Nat /\ c.bytesize \in Nat /\ c.parity \in Parities
      /\ c.flowcontrol \in Flowcontrols
  BY DEF Config
<1>1. reconfigurePort(t, c) = r6
  BY DEF reconfigurePort
<1>2. /\ r1 \in Termios /\ IsRaw(r1)
      /\ "CMSPAR" \in r1.cflag <=> "CMSPAR" \in t.cflag
  BY RawFacts
<1> HIDE DEF r1
<1>3. /\ r2 \in Termios /\ r2.cflag = r1.cflag /\ r2.iflag = r1.iflag
      /\ r2.lflag = r1.lflag /\ r2.oflag = r1.oflag
      /\ ~IsCustom(c.baudrate) => r2.speed = c.baudrate
  BY <1>0, <1>2, SpeedFacts
<1> HIDE DEF r2
<1>4. /\ r3 \in Termios /\ r3.size = c.bytesize /\ r3.speed = r2.speed
      /\ r3.cflag = r2.cflag /\ r3.iflag = r2.iflag
      /\ r3.lflag = r2.lflag /\ r3.oflag = r2.oflag
  BY <1>0, <1>3, SizeFacts
<1> HIDE DEF r3
<1>5. /\ r4 \in Termios /\ r4.size = r3.size /\ r4.speed = r3.speed
      /\ r4.iflag = r3.iflag /\ r4.lflag = r3.lflag /\ r4.oflag = r3.oflag
      /\ "CSTOPB" \in r4.cflag <=> c.stopbits # "one"
      /\ "CMSPAR" \in r4.cflag <=> "CMSPAR" \in r3.cflag
  BY <1>4, StopFacts DEF CFlags
<1> HIDE DEF r4
<1>6. /\ r5 \in Termios /\ r5.size = r4.size /\ r5.speed = r4.speed
      /\ r5.lflag = r4.lflag /\ r5.oflag = r4.oflag
      /\ "ICRNL" \in r5.iflag <=> "ICRNL" \in r4.iflag
      /\ ParityBits(r5, c.parity, "CMSPAR" \in r4.cflag)
      /\ "CSTOPB" \in r5.cflag <=> "CSTOPB" \in r4.cflag
  BY <1>0, <1>5, ParityFacts
<1> HIDE DEF r5
<1>7. /\ r6 \in Termios /\ r6.size = r5.size /\ r6.speed = r5.speed
      /\ r6.lflag = r5.lflag /\ r6.oflag = r5.oflag
      /\ "ICRNL" \in r6.iflag <=> "ICRNL" \in r5.iflag
      /\ FlowBits(r6, c.flowcontrol)
      /\ \A f \in {"CSTOPB", "PARENB", "PARODD", "CMSPAR"} : f \in r6.cflag <=> f \in r5.cflag
  BY <1>0, <1>6, FlowFacts
<1> HIDE DEF r6
<1>8. IsRaw(r6)
  BY <1>2, <1>3, <1>4, <1>5, <1>6, <1>7 DEF IsRaw
<1>9. "CMSPAR" \in r4.cflag <=> "CMSPAR" \in t.cflag
  BY <1>2, <1>3, <1>4, <1>5
<1>10. ParityBits(r6, c.parity, "CMSPAR" \in t.cflag)
  BY <1>6, <1>7, <1>9 DEF ParityBits
<1>11. /\ r6.size = c.bytesize
       /\ ("CSTOPB" \in r6.cflag) <=> (c.stopbits # "one")
       /\ ~IsCustom(c.baudrate) => r6.speed = c.baudrate
  BY <1>3, <1>4, <1>5, <1>6, <1>7
<1> QED BY <1>1, <1>7, <1>8, <1>10, <1>11 DEF Settings

(* Raw mode as asio has it (serialChannel.cpp:75).                         *)
LEMMA AsioRawFacts ==
  ASSUME NEW t \in Termios
  PROVE  /\ AsioRaw(t) \in Termios /\ IsRaw(AsioRaw(t))
         /\ "CMSPAR" \in AsioRaw(t).cflag <=> "CMSPAR" \in t.cflag
<1> DEFINE c == (t.cflag \ {"PARENB"}) \cup {"CLOCAL", "CREAD"}
           l == t.lflag \ {"ICANON", "ECHO", "ISIG", "IEXTEN"}
           o == t.oflag \ {"OPOST"}
           i == t.iflag \ {"INLCR", "IGNCR", "ICRNL", "IGNBRK", "PARMRK", "ISTRIP", "IXON"}
<1>0. /\ t.cflag \in SUBSET CFlags /\ t.iflag \in SUBSET IFlags /\ t.lflag \in SUBSET LFlags
      /\ t.oflag \in SUBSET {"OPOST"}
  BY DEF Termios
<1>1. AsioRaw(t) = [t EXCEPT !.size = 8, !.cflag = c, !.lflag = l, !.oflag = o, !.iflag = i]
  BY DEF AsioRaw
<1>2. c \in SUBSET CFlags /\ ("CMSPAR" \in c <=> "CMSPAR" \in t.cflag)
  BY <1>0 DEF CFlags
<1>3. l = {} /\ o = {} /\ i \in SUBSET IFlags /\ "ICRNL" \notin i
  BY <1>0 DEF LFlags
<1> HIDE DEF c, l, o, i
<1> DEFINE n == 8
<1>n. n \in Nat
  OBVIOUS
<1>r. AsioRaw(t) = [t EXCEPT !.size = n, !.cflag = c, !.lflag = l, !.oflag = o, !.iflag = i]
  BY <1>1
<1> HIDE DEF n
<1>4. /\ AsioRaw(t) \in Termios /\ AsioRaw(t).cflag = c /\ AsioRaw(t).lflag = l
      /\ AsioRaw(t).oflag = o /\ AsioRaw(t).iflag = i
  BY <1>r, <1>n, <1>2, <1>3 DEF Termios
<1> QED BY <1>2, <1>3, <1>4 DEF IsRaw

(* Flow control as asio has it: IXANY stays, and nothing else differs      *)
(* (serialChannel.cpp:81).                                                 *)
LEMMA AsioFlowFacts ==
  ASSUME NEW t \in Termios, NEW w \in Flowcontrols
  PROVE  LET u == WithAsioFlowcontrol(t, w)
         IN  /\ u \in Termios /\ u.size = t.size /\ u.speed = t.speed
             /\ u.lflag = t.lflag /\ u.oflag = t.oflag
             /\ "ICRNL" \in u.iflag <=> "ICRNL" \in t.iflag
             /\ FlowBits(u, w)
             /\ \A f \in {"CSTOPB", "PARENB", "PARODD", "CMSPAR"} : f \in u.cflag <=> f \in t.cflag
<1> DEFINE v == WithFlowcontrol(t, w)
           i == v.iflag \cup (t.iflag \cap {"IXANY"})
<1>1. /\ v \in Termios /\ v.size = t.size /\ v.speed = t.speed
      /\ v.lflag = t.lflag /\ v.oflag = t.oflag
      /\ "ICRNL" \in v.iflag <=> "ICRNL" \in t.iflag
      /\ FlowBits(v, w)
      /\ \A f \in {"CSTOPB", "PARENB", "PARODD", "CMSPAR"} : f \in v.cflag <=> f \in t.cflag
  BY FlowFacts
<1>2. WithAsioFlowcontrol(t, w) = [v EXCEPT !.iflag = i]
  BY DEF WithAsioFlowcontrol
<1> HIDE DEF v
<1>3. v.iflag \in SUBSET IFlags /\ t.iflag \in SUBSET IFlags
  BY <1>1 DEF Termios
<1>4. /\ i \in SUBSET IFlags
      /\ \A f \in {"ICRNL", "IXON", "IXOFF"} : f \in i <=> f \in v.iflag
  BY <1>3
<1> HIDE DEF i
<1>5. LET u == [v EXCEPT !.iflag = i]
      IN  /\ u \in Termios /\ u.size = v.size /\ u.speed = v.speed
          /\ u.lflag = v.lflag /\ u.oflag = v.oflag /\ u.cflag = v.cflag /\ u.iflag = i
  BY <1>1, <1>4 DEF Termios
<1> QED BY <1>1, <1>2, <1>4, <1>5 DEF FlowBits

(* A SerialChannel that opens leaves the settings it asked for; one that   *)
(* raises half way leaves settings all the same (serialChannel.cpp:69-82). *)
LEMMA OptionsFacts ==
  ASSUME NEW t \in Termios, NEW c \in Config, NEW k \in 0..6
  PROVE  /\ AfterOptions(t, c, k) \in Termios
         /\ k = 0 => AfterOptions(t, c, k) = t
         /\ k = 6 => Settings(AfterOptions(t, c, k), c, "CMSPAR" \in t.cflag)
<1> DEFINE t1 == IF k >= 1 THEN AsioRaw(t) ELSE t
           t2 == IF k >= 2 THEN WithSpeed(t1, c.baudrate) ELSE t1
           t3 == IF k >= 3 THEN WithSize(t2, c.bytesize) ELSE t2
           t4 == IF k >= 4 THEN WithParity(t3, c.parity) ELSE t3
           t5 == IF k >= 5 THEN WithStopbits(t4, c.stopbits) ELSE t4
           t6 == IF k >= 6 THEN WithAsioFlowcontrol(t5, c.flowcontrol) ELSE t5
<1>0. /\ c.baudrate \in Nat /\ c.bytesize \in Nat /\ c.parity \in Parities
      /\ c.flowcontrol \in Flowcontrols
  BY DEF Config
<1>1. AfterOptions(t, c, k) = t6
  BY DEF AfterOptions
<1>2. k = 0 => t6 = t
  OBVIOUS
<1>3. /\ t1 \in Termios
      /\ k = 6 => IsRaw(t1) /\ ("CMSPAR" \in t1.cflag <=> "CMSPAR" \in t.cflag)
  BY AsioRawFacts
<1> HIDE DEF t1
<1>4. /\ t2 \in Termios
      /\ k = 6 => /\ t2.cflag = t1.cflag /\ t2.iflag = t1.iflag
                  /\ t2.lflag = t1.lflag /\ t2.oflag = t1.oflag
                  /\ ~IsCustom(c.baudrate) => t2.speed = c.baudrate
  <2>1. CASE k >= 2
    <3>1. t2 = WithSpeed(t1, c.baudrate)
      BY <2>1
    <3> HIDE DEF t2
    <3> QED BY <3>1, <1>0, <1>3, SpeedFacts
  <2>2. CASE ~(k >= 2)
    BY <2>2, <1>3
  <2> QED BY <2>1, <2>2
<1> HIDE DEF t2
<1>5. /\ t3 \in Termios
      /\ k = 6 => /\ t3.size = c.bytesize /\ t3.speed = t2.speed
                  /\ t3.cflag = t2.cflag /\ t3.iflag = t2.iflag
                  /\ t3.lflag = t2.lflag /\ t3.oflag = t2.oflag
  <2>1. CASE k >= 3
    <3>1. t3 = WithSize(t2, c.bytesize)
      BY <2>1
    <3> HIDE DEF t3
    <3> QED BY <1>0, <1>4, <3>1, SizeFacts
  <2>2. CASE ~(k >= 3)
    BY <1>4, <2>2
  <2> QED BY <2>1, <2>2
<1> HIDE DEF t3
<1>6. /\ t4 \in Termios
      /\ k = 6 => /\ t4.size = t3.size /\ t4.speed = t3.speed
                  /\ t4.lflag = t3.lflag /\ t4.oflag = t3.oflag
                  /\ "ICRNL" \in t4.iflag <=> "ICRNL" \in t3.iflag
                  /\ ParityBits(t4, c.parity, "CMSPAR" \in t3.cflag)
  BY <1>0, <1>5, ParityFacts
<1> HIDE DEF t4
<1>7. /\ t5 \in Termios
      /\ k = 6 => /\ t5.size = t4.size /\ t5.speed = t4.speed
                  /\ t5.iflag = t4.iflag /\ t5.lflag = t4.lflag /\ t5.oflag = t4.oflag
                  /\ "CSTOPB" \in t5.cflag <=> c.stopbits # "one"
                  /\ \A f \in {"PARENB", "PARODD", "CMSPAR"} : f \in t5.cflag <=> f \in t4.cflag
  BY <1>6, StopFacts DEF CFlags
<1> HIDE DEF t5
<1>8. /\ t6 \in Termios
      /\ k = 6 => /\ t6.size = t5.size /\ t6.speed = t5.speed
                  /\ t6.lflag = t5.lflag /\ t6.oflag = t5.oflag
                  /\ "ICRNL" \in t6.iflag <=> "ICRNL" \in t5.iflag
                  /\ FlowBits(t6, c.flowcontrol)
                  /\ \A f \in {"CSTOPB", "PARENB", "PARODD", "CMSPAR"} :
                       f \in t6.cflag <=> f \in t5.cflag
  BY <1>0, <1>7, AsioFlowFacts
<1> HIDE DEF t6
<1>9. ASSUME k = 6
      PROVE  Settings(t6, c, "CMSPAR" \in t.cflag)
  <2>1. IsRaw(t6)
    BY <1>3, <1>4, <1>5, <1>6, <1>7, <1>8, <1>9 DEF IsRaw
  <2>2. "CMSPAR" \in t3.cflag <=> "CMSPAR" \in t.cflag
    BY <1>3, <1>4, <1>5, <1>9
  <2>3. ParityBits(t6, c.parity, "CMSPAR" \in t.cflag)
    BY <1>6, <1>7, <1>8, <1>9, <2>2 DEF ParityBits
  <2>4. /\ t6.size = c.bytesize
        /\ ("CSTOPB" \in t6.cflag) <=> (c.stopbits # "one")
        /\ ~IsCustom(c.baudrate) => t6.speed = c.baudrate
    BY <1>4, <1>5, <1>6, <1>7, <1>8, <1>9
  <2> QED BY <1>8, <1>9, <2>1, <2>3, <2>4 DEF Settings
<1> QED BY <1>1, <1>2, <1>8, <1>9

(* The constructor of Serial keeps LineInv, with whichever of its system   *)
(* calls refused (serial.cpp:350-356).                                     *)
LEMMA ConstructLine ==
  ASSUME LineInv, NEW p, NEW c \in Config, NEW k, Construct(p, c, k)
  PROVE  LineInv'
<1>1. CASE \E i \in 1..k : Steps(c)[i] = "tcsetattr"
  <2>1. /\ termios' = reconfigurePort(termios, c)
        /\ asked' = [config |-> c, stick |-> "CMSPAR" \in termios.cflag]
    BY <1>1 DEF Construct
  <2>2. asked'.config = c /\ asked'.stick = ("CMSPAR" \in termios.cflag)
    BY <2>1, Zenon
  <2>3. termios' \in Termios /\ Settings(termios', c, "CMSPAR" \in termios.cflag)
    BY <2>1, ReconfigureFacts DEF LineInv
  <2>4. Settings(termios', asked'.config, asked'.stick)
    BY <2>2, <2>3, Zenon
  <2> QED BY <2>2, <2>3, <2>4, Zenon DEF LineInv
<1>2. CASE ~ \E i \in 1..k : Steps(c)[i] = "tcsetattr"
  BY <1>2 DEF Construct, LineInv, Settings, FlowBits, ParityBits, IsRaw
<1> QED BY <1>1, <1>2

(* So does the constructor of SerialChannel (serialChannel.cpp:69-82).     *)
LEMMA ConstructChannelLine ==
  ASSUME LineInv, NEW p, NEW c \in Config, NEW k \in ChannelOutcomes(c),
         ConstructChannel(p, c, k)
  PROVE  LineInv'
<1>0. Len(ChannelSteps) = 6
  BY DEF ChannelSteps
<1>1. k \in 0..6
  BY <1>0 DEF ChannelOutcomes
<1>2. termios' = AfterOptions(termios, c, k)
  BY DEF ConstructChannel
<1>3. /\ termios' \in Termios
      /\ k = 0 => termios' = termios
      /\ k = 6 => Settings(termios', c, "CMSPAR" \in termios.cflag)
  BY <1>1, <1>2, OptionsFacts DEF LineInv
<1>4. CASE k = 6
  <2>1. asked' = [config |-> c, stick |-> "CMSPAR" \in termios.cflag]
    BY <1>0, <1>4 DEF ConstructChannel
  <2>2. asked'.config = c /\ asked'.stick = ("CMSPAR" \in termios.cflag)
    BY <2>1, Zenon
  <2>4. Settings(termios', asked'.config, asked'.stick)
    BY <1>3, <1>4, <2>2, Zenon
  <2> QED BY <1>3, <2>2, <2>4, Zenon DEF LineInv
<1>5. CASE k = 0
  <2>1. asked' = asked
    BY <1>0, <1>5 DEF ConstructChannel
  <2> QED BY <1>3, <1>5, <2>1 DEF LineInv, Settings, FlowBits, ParityBits, IsRaw
<1>6. CASE k # 0 /\ k # 6
  <2>1. asked' = <<>>
    BY <1>0, <1>6 DEF ConstructChannel
  <2> QED BY <1>3, <2>1 DEF LineInv
<1> QED BY <1>4, <1>5, <1>6

(* Actions that leave the settings alone.                                  *)
LEMMA LineAlone ==
  ASSUME LineInv, UNCHANGED line
  PROVE  LineInv'
BY DEF LineInv, line, Settings, FlowBits, ParityBits, IsRaw

(* The settings a device has before the first Serial.                      *)
LEMMA InitLineInv == Init => LineInv
<1> SUFFICES ASSUME Init PROVE LineInv
  OBVIOUS
<1>1. termios \in FoundSettings
  BY DEF Init
<1>2. /\ {{"CREAD"}} \subseteq SUBSET CFlags
      /\ {{"ICANON", "ECHO", "ISIG", "IEXTEN"}} \subseteq SUBSET LFlags
  BY DEF CFlags, LFlags
<1>3. {{"ICRNL", "IXON"} \cup f : f \in SUBSET Leftovers} \subseteq SUBSET IFlags
  BY DEF IFlags
<1>4. termios \in Termios
  BY <1>1, <1>2, <1>3 DEF FoundSettings, Termios
<1> QED BY <1>4 DEF Init, LineInv

(* Every step.                                                             *)
LEMMA NextLineInv == LineInv /\ [Next]_vars => LineInv'
<1> SUFFICES ASSUME LineInv, [Next]_vars PROVE LineInv'
  OBVIOUS
<1>0. Configs \subseteq Config /\ TalkConfigs \subseteq Config
  BY SerialAssumption
<1>1. ASSUME Configure PROVE LineInv'
  <2>1. ASSUME NEW p \in Object, NEW c \in Configs, NEW k, Construct(p, c, k)
        PROVE  LineInv'
    BY <1>0, <2>1, ConstructLine
  <2>2. ASSUME NEW p \in Object, NEW c \in Configs, NEW k \in ChannelOutcomes(c),
               ConstructChannel(p, c, k)
        PROVE  LineInv'
    BY <1>0, <2>2, ConstructChannelLine
  <2>3. ASSUME NEW p \in Object, NEW q \in Object, move(p, q) \/ swap(p, q) PROVE LineInv'
    BY <2>3, LineAlone DEF move, swap
  <2>4. ASSUME NEW p \in Object, close(p) \/ destroy(p) PROVE LineInv'
    BY <2>4, LineAlone DEF close, destroy, Let
  <2>5. ASSUME NEW p \in Object, NEW l, NEW level, sendBreak(p) \/ setLine(p, l, level)
        PROVE  LineInv'
    BY <2>5, LineAlone DEF sendBreak, setLine
  <2> QED BY <1>1, <2>1, <2>2, <2>3, <2>4, <2>5 DEF Configure
<1>2. ASSUME NEW p \in Object, Talk(p) PROVE LineInv'
  <2>1. CASE \E c \in TalkConfigs : Construct(p, c, Len(Steps(c)))
    BY <1>0, <2>1, ConstructLine
  <2>2. CASE ~ \E c \in TalkConfigs : Construct(p, c, Len(Steps(c)))
    <3>1. UNCHANGED line
      BY <1>2, <2>2 DEF Talk, close, Let, write, read, available, flushInput, flushOutput,
         Transmit, Arrive, flush, waitReadable, waitForChange, Enter, flushReturns,
         waitReadableReturns, waitForChangeReturns, MoveLine
    <3> QED BY <3>1, LineAlone
  <2> QED BY <2>1, <2>2
<1>3. CASE Interrupt(TalkSignal)
  BY <1>3, LineAlone DEF Interrupt
<1>4. CASE UNCHANGED serialVars
  BY <1>4, LineAlone DEF serialVars
<1>5. Configure \/ Talk(TalkPort) \/ Interrupt(TalkSignal) \/ UNCHANGED serialVars
  BY DEF Next, vars
<1> QED BY <1>1, <1>2, <1>3, <1>4, <1>5, TalkFacts

(* Whatever was done to the device before, by whichever Serials and        *)
(* SerialChannels, with whichever of their system calls refused, the line  *)
(* is as the last one that opened asked for (serial.hpp:129-147), up to    *)
(* the CMSPAR and the divisor that nobody takes back (serial.cpp:276-286,  *)
(* 215-221).                                                               *)
THEOREM SerialLineAsAsked == Spec => []LineAsAsked
<1>1. ASSUME LineInv, asked # <<>>
      PROVE  /\ termios.size = asked.config.bytesize
             /\ ("CSTOPB" \in termios.cflag) = (asked.config.stopbits # "one")
             /\ Flowcontrol = asked.config.flowcontrol
             /\ termios.lflag = {} /\ termios.oflag = {} /\ "ICRNL" \notin termios.iflag
             /\ \/ Parity = asked.config.parity
                \/ asked.stick /\ asked.config.parity \in {"even", "odd"}
             /\ \/ Rate = asked.config.baudrate
                \/ IsCustom(asked.config.baudrate)
                \/ asked.config.baudrate = 38400 /\ custom.spd
  <2> DEFINE c == asked.config
  <2>0. c \in Config /\ Settings(termios, c, asked.stick)
    BY <1>1 DEF LineInv
  <2> HIDE DEF c
  <2>1. termios.size = c.bytesize /\ ("CSTOPB" \in termios.cflag) = (c.stopbits # "one")
    BY <2>0 DEF Settings
  <2>2. Flowcontrol = c.flowcontrol
    BY <2>0 DEF Settings, FlowBits, Config, Flowcontrols, Flowcontrol
  <2>3. termios.lflag = {} /\ termios.oflag = {} /\ "ICRNL" \notin termios.iflag
    BY <2>0 DEF Settings, IsRaw
  <2>4. Parity = c.parity \/ (asked.stick /\ c.parity \in {"even", "odd"})
    <3>1. CASE asked.stick /\ c.parity \in {"even", "odd"}
      BY <3>1
    <3>2. CASE ~(asked.stick /\ c.parity \in {"even", "odd"})
      <4>1. /\ ("PARENB" \in termios.cflag) <=> (c.parity # "none")
            /\ c.parity \in {"odd", "mark"} => "PARODD" \in termios.cflag
            /\ c.parity \in {"even", "space"} => "PARODD" \notin termios.cflag
            /\ c.parity \in {"mark", "space"} => "CMSPAR" \in termios.cflag
            /\ c.parity \in {"even", "odd"} => "CMSPAR" \notin termios.cflag
        BY <2>0, <3>2, Zenon DEF Settings, ParityBits
      <4>2. c.parity \in {"none", "odd", "even", "mark", "space"}
        BY <2>0 DEF Config, Parities
      <4> QED BY <4>1, <4>2 DEF Parity
    <3> QED BY <3>1, <3>2
  <2>5. \/ Rate = c.baudrate
        \/ IsCustom(c.baudrate)
        \/ c.baudrate = 38400 /\ custom.spd
    <3> SUFFICES ASSUME ~IsCustom(c.baudrate), ~(c.baudrate = 38400 /\ custom.spd)
                 PROVE  Rate = c.baudrate
      OBVIOUS
    <3>1. termios.speed = c.baudrate
      BY <2>0 DEF Settings
    <3>2. ~(termios.speed = 38400 /\ custom.spd)
      BY <3>1
    <3>3. Rate = termios.speed
      BY <3>2 DEF Rate
    <3> QED BY <3>1, <3>3
  <2> QED BY <2>1, <2>2, <2>3, <2>4, <2>5 DEF c
<1>2. ASSUME LineInv PROVE LineAsAsked
  <2>1. CASE asked = <<>>
    BY <2>1, SMT DEF LineAsAsked
  <2>2. CASE asked # <<>>
    BY <1>1, <1>2, <2>2, SMT DEF LineAsAsked
  <2> QED BY <2>1, <2>2
<1>3. LineInv => LineAsAsked
  BY <1>2
<1> QED BY InitLineInv, NextLineInv, <1>3, PTL DEF Spec
-----------------------------------------------------------------------------
(***************************************************************************)
(* The files of PlatformFilesystem and the ports of enumeratePorts.        *)
(*                                                                         *)
(* The invariant of the ports: what glob found so far has every port that  *)
(* was there throughout, once, and the result and the lines being read are *)
(* those of the ports that were found, in their order.  The invariant of   *)
(* the files: a file and what the stream of any of its objects holds are   *)
(* together what the file should be.  SameAsUnbuffered says nothing of the *)
(* bytes read ahead, nor of the mark of the end, and both decide what a    *)
(* later read gives.                                                       *)
(***************************************************************************)
(* The patterns that glob has been called with.                            *)
Globbed ==
  IF task.pc = "idle" THEN {}
  ELSE IF task.pc = "glob" THEN {Patterns[i] : i \in 1..(task.pattern - 1)}
  ELSE {"ttyACM", "ttyS", "ttyUSB"}

(* What enumeratePorts has found out of a port.                            *)
PortInfo == [path : Slot, friendly_name : Seq(Nat), hardware_id : Seq(Nat)]

(* The loop is at a port.                                                  *)
Working == {"resolve", "exists", "read"}

(* How far the call is.  What it has read of a port that is there all      *)
(* along is what that port's device says.                                  *)
TaskOK ==
  /\ task.pc \in {"idle", "glob", "next", "done"} \cup Working
  /\ task.pc = "idle" => task = Idle /\ found = <<>>
  /\ task.pc = "glob" => task.pattern \in 1..3 /\ task = [pc |-> "glob", pattern |-> task.pattern]
  /\ task.pc \in {"idle", "glob"} => ports = <<>>
  /\ task.pc = "done" => Len(ports) = Len(found)
  /\ task.pc \in Working => Len(ports) < Len(found) /\ task.slot = found[Len(ports) + 1]
  /\ task.pc \in {"exists", "read"} =>
       /\ task.path \in Slot \cup {EmptyPath}
       /\ task.slot \in steady => task.path = task.slot
  /\ task.pc = "read" =>
       /\ task = [pc |-> "read", slot |-> task.slot, path |-> task.path, lines |-> task.lines]
       /\ task.lines \in Seq(Nat) /\ Len(task.lines) < Lines(task.slot)
       /\ task.slot \in steady => \A n \in 1..Len(task.lines) : task.lines[n] = device[task.slot]

(* The devices, and what is remembered of them.                            *)
DevicesOK ==
  /\ device \in [Slot -> Nat] /\ plugs \in Nat
  /\ steady \subseteq Occupied /\ seen \subseteq Slot
  /\ task.pc # "idle" => Occupied \subseteq seen

(* glob has found every port of the patterns so far that was there all     *)
(* along, and no port twice.                                               *)
FoundOK ==
  /\ found \in Seq(Slot)
  /\ \A i \in 1..Len(found) : found[i] \in seen /\ Driver[found[i]] \in Globbed
  /\ \A i, j \in 1..Len(found) : found[i] = found[j] => i = j
  /\ \A s \in steady : Driver[s] \in Globbed => \E i \in 1..Len(found) : found[i] = s

(* A port with its own description.                                        *)
OwnInfo(s) == Described(s, [n \in 1..Lines(s) |-> device[s]])

(* The result follows what was found, port by port.                        *)
ResultOK ==
  /\ ports \in Seq(PortInfo) /\ Len(ports) <= Len(found)
  /\ \A i \in 1..Len(ports) : ports[i].path = found[i]
  /\ \A i \in 1..Len(ports) : found[i] \in steady => ports[i] = OwnInfo(found[i])

PortInv == TaskOK /\ DevicesOK /\ FoundOK /\ ResultOK
-----------------------------------------------------------------------------
(* The patterns, one by one.                                               *)
LEMMA PatternsAre ==
  /\ Len(Patterns) = 3
  /\ Patterns[1] = "ttyACM" /\ Patterns[2] = "ttyS" /\ Patterns[3] = "ttyUSB"
BY DEF Patterns

(* A list of matches, in any order, has each of them, and once.            *)
LEMMA OrdersList ==
  ASSUME NEW S, IsFiniteSet(S), NEW q \in Orders(S)
  PROVE  /\ q \in Seq(S)
         /\ \A i, j \in 1..Len(q) : q[i] = q[j] => i = j
         /\ \A s \in S : \E i \in 1..Len(q) : q[i] = s
<1>1. PICK n : n = Cardinality(S)
  OBVIOUS
<1>2. n \in Nat
  BY <1>1, FS_CardinalityType
<1>3. q \in [1..n -> S] /\ \A i, j \in DOMAIN q : i # j => q[i] # q[j]
  BY <1>1 DEF Orders
<1>4. q \in Seq(S)
  BY <1>2, <1>3, SeqDef
<1>5. DOMAIN q = 1..Len(q) /\ DOMAIN q = 1..n /\ Len(q) \in Nat
  BY <1>3, <1>4, LenProperties
<1>6. q \in Injection(1..n, S)
  BY <1>3, <1>5 DEF Injection, IsInjective
<1>7. Cardinality(1..n) = n
  BY <1>2, FS_Interval
<1>8. q \in Surjection(1..n, S)
  BY <1>1, <1>6, <1>7, FS_Injection
<1>9. \A s \in S : \E i \in 1..n : q[i] = s
  BY <1>8 DEF Surjection
<1> QED
  BY <1>3, <1>4, <1>5, <1>9

(* A step that leaves the call alone, and the devices.                     *)
LEMMA PortsStutter ==
  ASSUME PortInv, UNCHANGED portVars
  PROVE  PortInv'
<1>1. UNCHANGED <<device, plugs, task, found, ports, steady, seen>>
  BY DEF portVars
<1>2. Occupied' = Occupied /\ Globbed' = Globbed
  BY <1>1 DEF Occupied, Globbed
<1>3. TaskOK'
  BY <1>1 DEF PortInv, TaskOK
<1>4. DevicesOK'
  BY <1>1, <1>2 DEF PortInv, DevicesOK
<1>5. FoundOK'
  BY <1>1, <1>2 DEF PortInv, FoundOK
<1>6. \A s \in Slot : OwnInfo(s)' = OwnInfo(s)
  BY <1>1 DEF OwnInfo
<1>7. ResultOK'
  BY <1>1 DEF PortInv, ResultOK, OwnInfo
<1> QED
  BY <1>3, <1>4, <1>5, <1>7 DEF PortInv

(* The call.                                                               *)
LEMMA BeginListKeeps ==
  ASSUME PortInv, Begin
  PROVE  PortInv'
<1>1. /\ task = Idle /\ ports = <<>> /\ steady' = Occupied /\ seen' = Occupied
      /\ UNCHANGED <<device, plugs, found, ports>>
      /\ task' = [pc |-> "glob", pattern |-> 1]
  BY DEF Begin
<1>2. task.pc = "idle" /\ found = <<>>
  BY <1>1 DEF Idle, PortInv, TaskOK
<1>3. task'.pc = "glob" /\ task'.pattern = 1
  BY <1>1
<1>4. Globbed' = {}
  BY <1>3 DEF Globbed
<1>5. Occupied' = Occupied /\ Occupied \subseteq Slot
  BY <1>1 DEF Occupied
<1>6. TaskOK'
  BY <1>1, <1>2, <1>3 DEF TaskOK, Working
<1>7. DevicesOK'
  BY <1>1, <1>5 DEF PortInv, DevicesOK
<1>8. FoundOK'
  BY <1>1, <1>2, <1>4 DEF FoundOK
<1>9. ResultOK'
  BY <1>1, <1>2 DEF PortInv, ResultOK
<1> QED
  BY <1>6, <1>7, <1>8, <1>9 DEF PortInv

(* glob of one more pattern.                                               *)
LEMMA GlobKeeps ==
  ASSUME PortInv, Glob
  PROVE  PortInv'
<1>1. /\ task.pc = "glob" /\ task.pattern \in 1..3 /\ ports = <<>>
      /\ task = [pc |-> "glob", pattern |-> task.pattern]
  BY DEF Glob, PortInv, TaskOK
<1>2. PICK p : p = task.pattern
  OBVIOUS
<1>3. /\ p \in 1..3 /\ task = [pc |-> "glob", pattern |-> p]
      /\ task' = IF p < 3 THEN [pc |-> "glob", pattern |-> p + 1] ELSE [pc |-> "next"]
      /\ UNCHANGED <<device, plugs, ports, steady, seen>>
  <2>1. [task EXCEPT !.pattern = @ + 1] = [pc |-> "glob", pattern |-> p + 1]
    <3>1. task = [pc |-> "glob", pattern |-> p]
      BY <1>1, <1>2
    <3> QED
      BY ONLY <3>1
  <2> QED
    BY <1>1, <1>2, <2>1, PatternsAre DEF Glob
<1>4. PICK q : q \in Orders(Matches(Patterns[p])) /\ found' = found \o q
  BY <1>2 DEF Glob, glob
<1>5. PICK matching : matching = Matches(Patterns[p])
  OBVIOUS
<1>6. /\ matching \subseteq Occupied /\ matching \subseteq Slot
      /\ \A s \in Occupied : s \in matching <=> Driver[s] = Patterns[p]
  BY <1>5 DEF Matches, Occupied
<1>7. IsFiniteSet(matching)
  BY <1>6, FS_Subset, PortAssumption
<1>8. /\ q \in Seq(matching) /\ Len(q) \in Nat
      /\ \A i, j \in 1..Len(q) : q[i] = q[j] => i = j
      /\ \A s \in matching : \E i \in 1..Len(q) : q[i] = s
  BY <1>4, <1>5, <1>7, OrdersList
<1>9. /\ q \in Seq(Slot) /\ \A i \in 1..Len(q) : q[i] \in matching
  BY <1>6, <1>8
<1>10. found \in Seq(Slot) /\ Len(found) \in Nat
  BY DEF PortInv, FoundOK
<1>11. /\ found' \in Seq(Slot) /\ Len(found') = Len(found) + Len(q)
       /\ \A i \in 1..(Len(found) + Len(q)) :
            found'[i] = IF i <= Len(found) THEN found[i] ELSE q[i - Len(found)]
  BY <1>4, <1>9, <1>10, ConcatProperties
<1>12. Globbed = {Patterns[i] : i \in 1..(p - 1)}
  BY <1>1, <1>2 DEF Globbed
<1>13. Patterns[p] \notin Globbed
  BY <1>3, <1>12, PatternsAre
<1>14. Globbed' = Globbed \cup {Patterns[p]}
  <2>1. CASE p < 3
    <3>1. task'.pc = "glob" /\ task'.pattern = p + 1
      BY <1>3, <2>1
    <3>2. Globbed' = {Patterns[i] : i \in 1..((p + 1) - 1)}
      BY <3>1 DEF Globbed, Patterns
    <3>3. p = 1 \/ p = 2
      BY <1>3, <2>1
    <3>4. 1..((p + 1) - 1) = (1..(p - 1)) \cup {p}
      BY <1>3
    <3> QED
      BY <3>2, <3>4, <1>12
  <2>2. CASE ~(p < 3)
    <3>1. p = 3 /\ task'.pc = "next"
      BY <1>3, <2>2
    <3>2. Globbed' = {"ttyACM", "ttyS", "ttyUSB"}
      BY <3>1 DEF Globbed
    <3>3. 1..(p - 1) = {1, 2}
      BY <3>1
    <3> QED
      BY <3>1, <3>2, <3>3, <1>12, PatternsAre
  <2> QED
    BY <2>1, <2>2
<1>15. \A i \in 1..Len(found) : found'[i] = found[i] /\ i \in 1..Len(found')
  BY <1>8, <1>10, <1>11
<1>16. \A i \in 1..Len(q) : Len(found) + i \in 1..Len(found') /\ found'[Len(found) + i] = q[i]
  <2> SUFFICES ASSUME NEW i \in 1..Len(q)
               PROVE  Len(found) + i \in 1..Len(found') /\ found'[Len(found) + i] = q[i]
    OBVIOUS
  <2>1. /\ Len(found) + i \in 1..(Len(found) + Len(q)) /\ ~(Len(found) + i <= Len(found))
        /\ (Len(found) + i) - Len(found) = i
    BY <1>8, <1>10
  <2> QED
    BY <2>1, <1>11
<1>17. \A i \in 1..Len(found') :
         \/ i \in 1..Len(found) /\ found'[i] = found[i]
         \/ i - Len(found) \in 1..Len(q) /\ found'[i] = q[i - Len(found)]
  BY <1>8, <1>10, <1>11
<1>18. Occupied' = Occupied /\ Occupied \subseteq seen
  BY <1>1, <1>3 DEF Occupied, PortInv, DevicesOK
<1>19. FoundOK'
  <2>1. ASSUME NEW i \in 1..Len(found')
        PROVE  found'[i] \in seen' /\ Driver[found'[i]] \in Globbed'
    <3>1. CASE i \in 1..Len(found) /\ found'[i] = found[i]
      BY <3>1, <1>3, <1>14 DEF PortInv, FoundOK
    <3>2. CASE i - Len(found) \in 1..Len(q) /\ found'[i] = q[i - Len(found)]
      BY <3>2, <1>3, <1>6, <1>9, <1>14, <1>18
    <3> QED
      BY <1>17, <3>1, <3>2
  <2>2. ASSUME NEW i \in 1..Len(found), NEW j \in 1..Len(q)
        PROVE  found[i] # q[j]
    <3>1. Driver[found[i]] \in Globbed /\ Driver[q[j]] = Patterns[p]
      BY <1>6, <1>9 DEF PortInv, FoundOK
    <3> QED
      BY <3>1, <1>13
  <2>3. ASSUME NEW i \in 1..Len(found'), NEW j \in 1..Len(found'), found'[i] = found'[j]
        PROVE  i = j
    <3>1. CASE /\ i \in 1..Len(found) /\ found'[i] = found[i]
               /\ j \in 1..Len(found) /\ found'[j] = found[j]
      BY <2>3, <3>1 DEF PortInv, FoundOK
    <3>2. CASE /\ i - Len(found) \in 1..Len(q) /\ found'[i] = q[i - Len(found)]
               /\ j - Len(found) \in 1..Len(q) /\ found'[j] = q[j - Len(found)]
      <4>1. i - Len(found) = j - Len(found)
        BY <2>3, <3>2, <1>8
      <4> QED
        BY <4>1, <1>10
    <3> QED
      BY <2>2, <2>3, <3>1, <3>2, <1>17
  <2>4. ASSUME NEW s \in steady', Driver[s] \in Globbed'
        PROVE  \E i \in 1..Len(found') : found'[i] = s
    <3>1. s \in Occupied /\ s \in steady
      BY <1>3 DEF PortInv, DevicesOK
    <3>2. CASE Driver[s] \in Globbed
      BY <3>1, <3>2, <1>15 DEF PortInv, FoundOK
    <3>3. CASE Driver[s] = Patterns[p]
      <4>1. s \in matching
        BY <3>1, <3>3, <1>6
      <4>2. PICK i \in 1..Len(q) : q[i] = s
        BY <4>1, <1>8
      <4> QED
        BY <4>2, <1>16
    <3> QED
      BY <2>4, <1>14, <3>2, <3>3
  <2> QED
    BY <1>11, <2>1, <2>3, <2>4 DEF FoundOK
<1>20. TaskOK'
  <2>1. CASE p < 3
    <3>1. task'.pc = "glob" /\ task'.pattern = p + 1 /\ task' = [pc |-> "glob", pattern |-> p + 1]
      BY <1>3, <2>1
    <3>2. p + 1 \in 1..3
      BY <1>3, <2>1
    <3> QED
      BY <3>1, <3>2, <1>1, <1>3 DEF TaskOK, Working
  <2>2. CASE ~(p < 3)
    <3>1. task'.pc = "next"
      BY <1>3, <2>2
    <3> QED
      BY <3>1 DEF TaskOK, Working
  <2> QED
    BY <2>1, <2>2
<1>21. DevicesOK'
  BY <1>3, <1>18 DEF PortInv, DevicesOK
<1>22. ResultOK'
  <2>1. ports' = <<>>
    BY <1>1, <1>3
  <2> QED
    BY <2>1, <1>8, <1>10, <1>11 DEF ResultOK
<1> QED
  BY <1>19, <1>20, <1>21, <1>22 DEF PortInv
(* The loop goes on to the next path, or ends.                             *)
LEMMA NextDeviceKeeps ==
  ASSUME PortInv, NextDevice
  PROVE  PortInv'
<1>1. /\ task.pc = "next" /\ UNCHANGED <<device, plugs, found, ports, steady, seen>>
      /\ task' = IF Len(ports) = Len(found) THEN [pc |-> "done"]
                 ELSE [pc |-> "resolve", slot |-> found[Len(ports) + 1]]
  BY DEF NextDevice
<1>2. Len(ports) <= Len(found) /\ Len(ports) \in Nat /\ Len(found) \in Nat
  BY DEF PortInv, ResultOK, FoundOK
<1>3. /\ task'.pc \in {"done", "resolve"}
      /\ task'.pc = "done" => Len(ports) = Len(found)
      /\ task'.pc = "resolve" => Len(ports) < Len(found) /\ task'.slot = found[Len(ports) + 1]
  BY <1>1, <1>2
<1>4. TaskOK'
  BY <1>1, <1>3 DEF TaskOK, Working
<1>5. Globbed' = Globbed /\ Occupied' = Occupied
  BY <1>1, <1>3 DEF Globbed, Occupied
<1>6. DevicesOK'
  BY <1>1, <1>5 DEF PortInv, DevicesOK
<1>7. FoundOK'
  BY <1>1, <1>5 DEF PortInv, FoundOK
<1>8. ResultOK'
  BY <1>1 DEF PortInv, ResultOK, OwnInfo
<1> QED
  BY <1>4, <1>6, <1>7, <1>8 DEF PortInv

(* get_sysfs_info finds the directory of a device that is there.           *)
LEMMA ResolveKeeps ==
  ASSUME PortInv, Resolve
  PROVE  PortInv'
<1>1. PICK p : p = IF Driver[task.slot] = "ttyS" THEN task.slot ELSE realPath(task.slot)
  OBVIOUS
<1>2. /\ task.pc = "resolve" /\ UNCHANGED <<device, plugs, found, ports, steady, seen>>
      /\ task' = [pc |-> "exists", slot |-> task.slot, path |-> p]
  BY <1>1 DEF Resolve
<1>3. Len(ports) < Len(found) /\ task.slot = found[Len(ports) + 1]
  BY <1>2 DEF PortInv, TaskOK, Working
<1>4. task.slot \in Slot
  BY <1>3 DEF PortInv, ResultOK, FoundOK
<1>5. p \in Slot \cup {EmptyPath} /\ (task.slot \in steady => p = task.slot)
  BY <1>1, <1>4 DEF realPath, PortInv, DevicesOK
<1>6. task'.pc = "exists" /\ task'.slot = task.slot /\ task'.path = p
  BY <1>2
<1>7. TaskOK'
  BY <1>2, <1>3, <1>5, <1>6 DEF TaskOK, Working
<1>8. Globbed' = Globbed /\ Occupied' = Occupied
  BY <1>2, <1>6 DEF Globbed, Occupied
<1>9. DevicesOK'
  BY <1>2, <1>8 DEF PortInv, DevicesOK
<1>10. FoundOK'
  BY <1>2, <1>8 DEF PortInv, FoundOK
<1>11. ResultOK'
  BY <1>2 DEF PortInv, ResultOK, OwnInfo
<1> QED
  BY <1>7, <1>9, <1>10, <1>11 DEF PortInv

(* The result grows by the next path's port, described as it must be if it *)
(* has been there all along.                                               *)
LEMMA EmplaceKeeps ==
  ASSUME PortInv, task.pc \in {"exists", "read"}, NEW info \in PortInfo,
         info.path = task.slot, task.slot \in steady => info = OwnInfo(task.slot),
         Emplace(info), UNCHANGED <<device, plugs, found, steady, seen>>
  PROVE  PortInv'
<1>1. ports' = Append(ports, info) /\ task' = [pc |-> "next"]
  BY DEF Emplace
<1>2. /\ Len(ports) < Len(found) /\ task.slot = found[Len(ports) + 1]
      /\ ports \in Seq(PortInfo) /\ Len(ports) \in Nat /\ Len(found) \in Nat
  BY DEF PortInv, TaskOK, Working, ResultOK, FoundOK
<1>3. /\ ports' \in Seq(PortInfo) /\ Len(ports') = Len(ports) + 1
      /\ ports'[Len(ports) + 1] = info
      /\ \A i \in 1..Len(ports) : ports'[i] = ports[i]
  BY <1>1, <1>2
<1>4. task'.pc = "next"
  BY <1>1
<1>5. TaskOK'
  BY <1>4 DEF TaskOK, Working
<1>6. Globbed' = Globbed /\ Occupied' = Occupied
  BY <1>4 DEF Globbed, Occupied
<1>7. DevicesOK'
  BY <1>6 DEF PortInv, DevicesOK
<1>8. FoundOK'
  BY <1>6 DEF PortInv, FoundOK
<1>9. ASSUME NEW s \in Slot
      PROVE  OwnInfo(s)' = OwnInfo(s)
  BY DEF OwnInfo
<1>10. ResultOK'
  <2>1. ASSUME NEW i \in 1..Len(ports')
        PROVE  /\ ports'[i].path = found[i]
               /\ found[i] \in steady => ports'[i] = OwnInfo(found[i])
    <3>1. CASE i \in 1..Len(ports)
      BY <3>1, <1>3 DEF PortInv, ResultOK
    <3>2. CASE i = Len(ports) + 1
      BY <3>2, <1>2, <1>3
    <3>3. i \in 1..Len(ports) \/ i = Len(ports) + 1
      BY <1>2, <1>3
    <3> QED
      BY <3>1, <3>2, <3>3
  <2>2. Len(ports') <= Len(found)
    BY <1>2, <1>3
  <2> QED
    BY <2>1, <2>2, <1>3 DEF ResultOK, OwnInfo
<1> QED
  BY <1>5, <1>7, <1>8, <1>10 DEF PortInv

(* A port without a description is one.                                    *)
LEMMA InfoTyped ==
  ASSUME NEW s \in Slot, NEW f \in Seq(Nat), NEW h \in Seq(Nat)
  PROVE  Info(s, f, h) \in PortInfo /\ Info(s, f, h).path = s
<1>1. PICK g : g = IF \A i \in DOMAIN f : f[i] = Empty THEN <<>> ELSE f
  OBVIOUS
<1>2. g \in Seq(Nat)
  BY <1>1
<1>3. Info(s, f, h) = [path |-> s, friendly_name |-> g, hardware_id |-> h]
  BY <1>1 DEF Info
<1> QED
  BY <1>2, <1>3 DEF PortInfo

(* The device is asked for; one that has been there all along is there.    *)
LEMMA ExistsKeeps ==
  ASSUME PortInv, Exists
  PROVE  PortInv'
<1>1. /\ task.pc = "exists" /\ UNCHANGED <<device, plugs, found, steady, seen>>
  BY DEF Exists
<1>2. PICK there \in ExistsAnswers(task.path) :
        IF there
        THEN /\ task' = [pc |-> "read", slot |-> task.slot, path |-> task.path, lines |-> <<>>]
             /\ UNCHANGED ports
        ELSE Emplace(Info(task.slot, <<>>, <<>>))
  BY DEF Exists
<1>3. /\ Len(ports) < Len(found) /\ task.slot = found[Len(ports) + 1]
      /\ task.path \in Slot \cup {EmptyPath}
      /\ task.slot \in steady => task.path = task.slot
  BY <1>1 DEF PortInv, TaskOK, Working
<1>4. task.slot \in Slot
  BY <1>3 DEF PortInv, ResultOK, FoundOK
<1>5. CASE there
  <2>1. PICK slot : slot = task.slot
    OBVIOUS
  <2>2. PICK sysfs : sysfs = task.path
    OBVIOUS
  <2>3. task' = [pc |-> "read", slot |-> slot, path |-> sysfs, lines |-> <<>>] /\ ports' = ports
    BY <1>2, <1>5, <2>1, <2>2
  <2>4. task'.pc = "read" /\ task'.slot = slot /\ task'.path = sysfs /\ task'.lines = <<>>
    BY <2>3
  <2>5. Lines(slot) \in {1, 6}
    BY DEF Lines
  <2>6. TaskOK'
    <3>1. /\ task' = [pc |-> "read", slot |-> task'.slot, path |-> task'.path, lines |-> task'.lines]
          /\ task'.lines \in Seq(Nat) /\ Len(task'.lines) = 0
      BY <2>3, <2>4
    <3>2. Len(task'.lines) < Lines(task'.slot)
      BY <3>1, <2>4, <2>5
    <3>3. Lines(task.slot)' = Lines(task'.slot)
      BY DEF Lines
    <3>4. \A n \in 1..Len(task'.lines) : task'.lines[n] = device'[task'.slot]
      BY <3>1
    <3>5. /\ Len(ports') < Len(found') /\ task'.slot = found'[Len(ports') + 1]
          /\ task'.path \in Slot \cup {EmptyPath} /\ (task'.slot \in steady' => task'.path = task'.slot)
      BY <1>1, <1>3, <2>1, <2>2, <2>3, <2>4
    <3> QED
      BY <2>4, <3>1, <3>2, <3>3, <3>4, <3>5 DEF TaskOK, Working
  <2>7. Globbed' = Globbed /\ Occupied' = Occupied
    BY <1>1, <2>4 DEF Globbed, Occupied
  <2>8. DevicesOK'
    BY <1>1, <2>4, <2>7 DEF PortInv, DevicesOK
  <2>9. FoundOK'
    BY <1>1, <2>7 DEF PortInv, FoundOK
  <2>10. ResultOK'
    BY <1>1, <2>3 DEF PortInv, ResultOK, OwnInfo
  <2> QED
    BY <2>6, <2>8, <2>9, <2>10 DEF PortInv
<1>6. CASE ~there
  <2>1. task.slot \notin steady
    <3>1. SUFFICES ASSUME task.slot \in steady PROVE FALSE
      OBVIOUS
    <3>2. device[task.slot] # None /\ task.slot # EmptyPath
      BY <3>1, <1>4, PortAssumption DEF PortInv, DevicesOK, Occupied
    <3>3. task.path = task.slot
      BY <3>1, <1>3
    <3>4. ExistsAnswers(task.path) = {device[task.slot] # None}
      BY <3>2, <3>3 DEF ExistsAnswers
    <3>5. there = (device[task.slot] # None)
      BY <3>4, <1>2
    <3> QED
      BY <3>2, <3>5, <1>6
  <2>2. PICK info : info = Info(task.slot, <<>>, <<>>)
    OBVIOUS
  <2>3. <<>> \in Seq(Nat)
    OBVIOUS
  <2>4. info \in PortInfo /\ info.path = task.slot
    BY <2>2, <2>3, <1>4, InfoTyped
  <2>5. Emplace(info)
    BY <1>2, <1>6, <2>2
  <2> QED
    BY <1>1, <2>1, <2>4, <2>5, EmplaceKeeps
<1> QED
  BY <1>5, <1>6
(* What is read of a device makes up its description.                      *)
LEMMA DescribedTyped ==
  ASSUME NEW s \in Slot, NEW texts \in Seq(Nat), Len(texts) = Lines(s)
  PROVE  Described(s, texts) \in PortInfo /\ Described(s, texts).path = s
<1>0. <<>> \in Seq(Nat)
  OBVIOUS
<1>1. CASE Driver[s] = "ttyS"
  <2>1. PICK h : h = IF texts[1] = Empty THEN <<>> ELSE texts
    OBVIOUS
  <2>2. h \in Seq(Nat) /\ Described(s, texts) = Info(s, <<>>, h)
    BY <1>0, <1>1, <2>1 DEF Described
  <2>3. PICK f : f = <<>>
    OBVIOUS
  <2>4. f \in Seq(Nat)
    BY <1>0, <2>3
  <2>5. Info(s, f, h) \in PortInfo /\ Info(s, f, h).path = s
    BY <2>2, <2>4, InfoTyped
  <2> QED
    BY <2>2, <2>3, <2>5
<1>2. CASE Driver[s] # "ttyS"
  <2>1. Len(texts) = 6
    BY <1>2 DEF Lines
  <2>2. SubSeq(texts, 1, 3) \in Seq(Nat) /\ SubSeq(texts, 4, 6) \in Seq(Nat)
    <3>1. (\A i \in 1..3 : texts[i] \in Nat) /\ (\A i \in 4..6 : texts[i] \in Nat)
      <4>1. \A i \in 1..6 : texts[i] \in Nat
        BY <2>1, ElementOfSeq
      <4>2. (\A i \in 1..3 : i \in 1..6) /\ (\A i \in 4..6 : i \in 1..6)
        OBVIOUS
      <4> QED
        BY ONLY <4>1, <4>2
    <3>2. 1 \in Int /\ 3 \in Int /\ 4 \in Int /\ 6 \in Int
      OBVIOUS
    <3> QED
      BY ONLY <3>1, <3>2, SubSeqProperties
  <2>3. PICK f : f = SubSeq(texts, 1, 3)
    OBVIOUS
  <2>4. PICK h : h = SubSeq(texts, 4, 6)
    OBVIOUS
  <2>5. f \in Seq(Nat) /\ h \in Seq(Nat)
    BY <2>2, <2>3, <2>4
  <2>6. Described(s, texts) = Info(s, f, h)
    BY <1>2, <2>3, <2>4 DEF Described
  <2> QED
    BY <2>5, <2>6, InfoTyped
<1> QED
  BY <1>1, <1>2

(* One more line is read, or the last one and the port is described.       *)
LEMMA ReadKeepsPorts ==
  ASSUME PortInv, Read
  PROVE  PortInv'
<1>1. PICK slot : slot = task.slot
  OBVIOUS
<1>2. PICK sysfs : sysfs = task.path
  OBVIOUS
<1>3. PICK had : had = task.lines
  OBVIOUS
<1>4. PICK texts : texts = Append(had, readLine(sysfs))
  OBVIOUS
<1>5. /\ task.pc = "read" /\ UNCHANGED <<device, plugs, found, steady, seen>>
      /\ IF Len(texts) < Lines(slot)
         THEN task' = [task EXCEPT !.lines = texts] /\ UNCHANGED ports
         ELSE Emplace(Described(slot, texts))
  BY <1>1, <1>2, <1>3, <1>4 DEF Read
<1>6. /\ task = [pc |-> "read", slot |-> slot, path |-> sysfs, lines |-> had]
      /\ had \in Seq(Nat) /\ Len(had) < Lines(slot)
      /\ slot \in steady => \A n \in 1..Len(had) : had[n] = device[slot]
      /\ Len(ports) < Len(found) /\ slot = found[Len(ports) + 1]
      /\ sysfs \in Slot \cup {EmptyPath}
      /\ slot \in steady => sysfs = slot
  BY <1>1, <1>2, <1>3, <1>5 DEF PortInv, TaskOK, Working
<1>7. slot \in Slot /\ device \in [Slot -> Nat]
  BY <1>6 DEF PortInv, ResultOK, FoundOK, DevicesOK
<1>8. PICK text : text = readLine(sysfs)
  OBVIOUS
<1>9. text \in Nat /\ (slot \in steady => text = device[slot])
  BY <1>6, <1>7, <1>8, PortAssumption DEF readLine, Empty
<1>10. /\ texts \in Seq(Nat) /\ Len(had) \in Nat /\ Len(texts) = Len(had) + 1
       /\ \A n \in 1..Len(had) : texts[n] = had[n]
       /\ texts[Len(had) + 1] = text
  BY <1>4, <1>6, <1>8, <1>9
<1>11. slot \in steady => \A n \in 1..Len(texts) : texts[n] = device[slot]
  <2> SUFFICES ASSUME slot \in steady, NEW n \in 1..Len(texts)
               PROVE  texts[n] = device[slot]
    OBVIOUS
  <2>1. n \in 1..Len(had) \/ n = Len(had) + 1
    BY <1>10
  <2> QED
    BY <2>1, <1>6, <1>9, <1>10
<1>12. Lines(slot) \in {1, 6}
  BY DEF Lines
<1>13. CASE Len(texts) < Lines(slot)
  <2>1. task' = [pc |-> "read", slot |-> slot, path |-> sysfs, lines |-> texts] /\ ports' = ports
    <3>1. task' = [task EXCEPT !.lines = texts] /\ ports' = ports
      BY <1>5, <1>13
    <3>2. task = [pc |-> "read", slot |-> slot, path |-> sysfs, lines |-> had]
      BY <1>6
    <3> QED
      BY ONLY <3>1, <3>2
  <2>2. task'.pc = "read" /\ task'.slot = slot /\ task'.path = sysfs /\ task'.lines = texts
    BY <2>1
  <2>3. TaskOK'
    <3>1. task' = [pc |-> "read", slot |-> task'.slot, path |-> task'.path, lines |-> task'.lines]
      BY <2>1, <2>2
    <3>2. Lines(task.slot)' = Lines(task'.slot)
      BY DEF Lines
    <3>3. /\ task'.lines \in Seq(Nat) /\ Len(task'.lines) < Lines(task'.slot)
      BY <1>10, <1>13, <2>2
    <3>4. task'.slot \in steady' => \A n \in 1..Len(task'.lines) : task'.lines[n] = device'[task'.slot]
      BY <1>5, <1>11, <2>2
    <3>5. /\ Len(ports') < Len(found') /\ task'.slot = found'[Len(ports') + 1]
          /\ task'.path \in Slot \cup {EmptyPath} /\ (task'.slot \in steady' => task'.path = task'.slot)
      BY <1>5, <1>6, <2>1, <2>2
    <3> QED
      BY <2>2, <3>1, <3>2, <3>3, <3>4, <3>5 DEF TaskOK, Working
  <2>4. Globbed' = Globbed /\ Occupied' = Occupied
    BY <1>5, <2>2 DEF Globbed, Occupied
  <2>5. DevicesOK'
    BY <1>5, <2>2, <2>4 DEF PortInv, DevicesOK
  <2>6. FoundOK'
    BY <1>5, <2>4 DEF PortInv, FoundOK
  <2>7. ResultOK'
    BY <1>5, <2>1 DEF PortInv, ResultOK, OwnInfo
  <2> QED
    BY <2>3, <2>5, <2>6, <2>7 DEF PortInv
<1>14. CASE ~(Len(texts) < Lines(slot))
  <2>1. Len(texts) = Lines(slot)
    BY <1>6, <1>10, <1>12, <1>14
  <2>2. PICK info : info = Described(slot, texts)
    OBVIOUS
  <2>3. info \in PortInfo /\ info.path = slot
    BY <1>7, <1>10, <2>1, <2>2, DescribedTyped
  <2>4. ASSUME slot \in steady
        PROVE  info = OwnInfo(slot)
    <3>1. DOMAIN texts = 1..Len(texts) /\ texts \in [1..Len(texts) -> Nat]
      BY <1>10
    <3>2. texts = [n \in 1..Lines(slot) |-> device[slot]]
      BY <3>1, <2>1, <2>4, <1>11
    <3> QED
      BY <3>2, <2>2 DEF OwnInfo
  <2>5. Emplace(info)
    BY <1>5, <1>14, <2>2
  <2> QED
    BY <1>1, <1>5, <2>3, <2>4, <2>5, EmplaceKeeps
<1> QED
  BY <1>13, <1>14
-----------------------------------------------------------------------------
(* A device is plugged in or pulled out: the ports that stay are not       *)
(* touched.                                                                *)
LEMMA DeviceChanges ==
  ASSUME PortInv, task.pc # "idle", UNCHANGED <<task, found, ports>>,
         device' \in [Slot -> Nat], plugs' \in Nat,
         steady' \subseteq steady, seen \subseteq seen', seen' \subseteq Slot,
         Occupied' \subseteq seen', steady' \subseteq Occupied',
         \A s \in steady' : device'[s] = device[s]
  PROVE  PortInv'
<1>1. Globbed' = Globbed
  BY DEF Globbed
<1>2. TaskOK'
  <2>1. Lines(task.slot)' = Lines(task.slot)
    BY DEF Lines
  <2>2. task.pc = "read" /\ task.slot \in steady'
          => \A n \in 1..Len(task.lines) : task.lines[n] = device'[task.slot]
    BY DEF PortInv, TaskOK
  <2> QED
    BY <2>1, <2>2 DEF PortInv, TaskOK
<1>3. DevicesOK'
  BY DEF DevicesOK
<1>4. FoundOK'
  BY <1>1 DEF PortInv, FoundOK
<1>5. ASSUME NEW s \in steady'
      PROVE  OwnInfo(s) = Described(s, [n \in 1..Lines(s) |-> device'[s]])
  BY <1>5 DEF OwnInfo
<1>6. ResultOK'
  <2>1. ASSUME NEW i \in 1..Len(ports), found[i] \in steady'
        PROVE  ports[i] = Described(found[i], [n \in 1..Lines(found[i]) |-> device'[found[i]]])
    <3>1. ports[i] = OwnInfo(found[i])
      BY <2>1 DEF PortInv, ResultOK
    <3> QED
      BY <3>1, <2>1, <1>5
  <2>2. \A i \in 1..Len(ports') : found'[i] \in steady' => ports'[i] = OwnInfo(found[i])'
    BY <2>1 DEF OwnInfo
  <2> QED
    BY <2>2 DEF PortInv, ResultOK
<1> QED
  BY <1>2, <1>3, <1>4, <1>6 DEF PortInv

(* Every step.                                                             *)
LEMMA PortNextKeeps ==
  ASSUME PortInv, [PortsNext]_(listVars)
  PROVE  PortInv'
<1>1. CASE UNCHANGED portVars
  BY <1>1, PortsStutter
<1>2. ASSUME NEW s \in Slot, Plug(s)
      PROVE  PortInv'
  <2>1. /\ task # Idle /\ device[s] = None /\ plugs \in Nat /\ device \in [Slot -> Nat]
        /\ device' = [device EXCEPT ![s] = plugs + 1] /\ plugs' = plugs + 1
        /\ seen' = seen \cup {s} /\ UNCHANGED <<task, found, ports, steady>>
    BY <1>2 DEF Plug, PortInv, DevicesOK
  <2>2. task.pc # "idle"
    BY <2>1 DEF PortInv, TaskOK
  <2>3. steady \subseteq Occupied /\ Occupied \subseteq seen /\ seen \subseteq Slot
    BY <2>2 DEF PortInv, DevicesOK
  <2>4. device' \in [Slot -> Nat] /\ \A t \in Slot : t # s => device'[t] = device[t]
    BY <2>1
  <2>5. Occupied' = Occupied \cup {s}
    <3>1. device'[s] = plugs + 1 /\ plugs + 1 # 0
      BY <2>1
    <3> QED
      BY <2>4, <3>1 DEF Occupied, None
  <2>6. s \notin Occupied
    BY <2>1 DEF Occupied
  <2>7. \A t \in steady' : device'[t] = device[t]
    BY <2>1, <2>3, <2>4, <2>6 DEF Occupied
  <2>8. /\ UNCHANGED <<task, found, ports>> /\ plugs' \in Nat
        /\ steady' \subseteq steady /\ seen \subseteq seen' /\ seen' \subseteq Slot
        /\ Occupied' \subseteq seen' /\ steady' \subseteq Occupied'
    BY <2>1, <2>3, <2>5
  <2> QED
    BY <2>2, <2>4, <2>7, <2>8, DeviceChanges
<1>3. ASSUME NEW s \in Slot, Unplug(s)
      PROVE  PortInv'
  <2>1. /\ task # Idle /\ plugs \in Nat /\ device \in [Slot -> Nat]
        /\ device' = [device EXCEPT ![s] = None]
        /\ steady' = steady \ {s} /\ UNCHANGED <<plugs, task, found, ports, seen>>
    BY <1>3 DEF Unplug, PortInv, DevicesOK
  <2>2. task.pc # "idle"
    BY <2>1 DEF PortInv, TaskOK
  <2>3. steady \subseteq Occupied /\ Occupied \subseteq seen /\ seen \subseteq Slot
    BY <2>2 DEF PortInv, DevicesOK
  <2>4. /\ device' \in [Slot -> Nat] /\ device'[s] = None
        /\ \A t \in Slot : t # s => device'[t] = device[t]
    BY <2>1 DEF None
  <2>5. Occupied' = Occupied \ {s}
    BY <2>4 DEF Occupied
  <2>6. \A t \in steady' : device'[t] = device[t]
    BY <2>1, <2>3, <2>4 DEF Occupied
  <2>7. /\ UNCHANGED <<task, found, ports>> /\ plugs' \in Nat
        /\ steady' \subseteq steady /\ seen \subseteq seen' /\ seen' \subseteq Slot
        /\ Occupied' \subseteq seen' /\ steady' \subseteq Occupied'
    BY <2>1, <2>3, <2>5
  <2> QED
    BY <2>2, <2>4, <2>6, <2>7, DeviceChanges
<1>4. CASE PortNext
  BY <1>2, <1>3, <1>4, BeginListKeeps, GlobKeeps, NextDeviceKeeps, ResolveKeeps, ExistsKeeps, ReadKeepsPorts
     DEF PortNext
<1>5. UNCHANGED listVars => UNCHANGED portVars
  BY DEF listVars
<1> QED
  BY <1>1, <1>4, <1>5 DEF PortsNext

(* The initial states.                                                     *)
LEMMA PortInitHolds ==
  ASSUME PortsInit
  PROVE  PortInv
<1>1. PICK taken \in SUBSET (IF program = "ports" THEN Plugged ELSE {}) :
        device \in {d \in [Slot -> 0..Cardinality(taken)] :
                      /\ \A s \in Slot : (d[s] # None) = (s \in taken)
                      /\ \A s, t \in taken : s # t => d[s] # d[t]}
  BY DEF PortsInit
<1>2. IsFiniteSet(Slot) /\ Plugged \subseteq Slot
  BY PortAssumption
<1>3. taken \subseteq Slot
  BY <1>1, <1>2
<1>4. IsFiniteSet(taken)
  BY <1>2, <1>3, FS_Subset
<1>5. Cardinality(taken) \in Nat
  BY <1>4, FS_CardinalityType
<1>6. device \in [Slot -> 0..Cardinality(taken)]
  BY <1>1
<1>7. device \in [Slot -> Nat]
  BY <1>5, <1>6
<1>8. Occupied \subseteq Slot
  BY DEF Occupied
<1>9. IsFiniteSet(Occupied)
  BY <1>2, <1>8, FS_Subset
<1>10. plugs \in Nat
  BY <1>9, FS_CardinalityType DEF PortsInit
<1>11. task = Idle /\ found = <<>> /\ ports = <<>> /\ steady = {} /\ seen = {} /\ task.pc = "idle"
  BY DEF PortsInit, Idle
<1>12. TaskOK
  BY <1>11 DEF TaskOK, Working
<1>13. DevicesOK
  BY <1>7, <1>10, <1>11 DEF DevicesOK
<1>14. FoundOK
  BY <1>11 DEF FoundOK
<1>15. ResultOK
  BY <1>11 DEF ResultOK
<1> QED
  BY <1>12, <1>13, <1>14, <1>15 DEF PortInv

(* Once the call is done the result is right.                              *)
LEMMA ResultRight ==
  ASSUME PortInv
  PROVE  PortsListed
<1> SUFFICES ASSUME task.pc = "done"
             PROVE  /\ \A s \in steady : \E i \in DOMAIN ports :
                         ports[i] = Described(s, [n \in 1..Lines(s) |-> device[s]])
                    /\ \A i \in DOMAIN ports : ports[i].path \in seen
                    /\ \A i, j \in DOMAIN ports : i # j => ports[i].path # ports[j].path
  BY DEF PortsListed
<1>1. Len(ports) = Len(found) /\ ports \in Seq(PortInfo)
  BY DEF PortInv, TaskOK, ResultOK
<1>2. DOMAIN ports = 1..Len(found)
  BY <1>1
<1>3. ASSUME NEW s \in steady
      PROVE  \E i \in 1..Len(found) : ports[i] = OwnInfo(s)
  <2>1. s \in Slot
    BY DEF PortInv, DevicesOK, Occupied
  <2>2. Driver[s] \in Globbed
    BY <2>1, PortAssumption DEF Globbed
  <2>3. PICK i \in 1..Len(found) : found[i] = s
    BY <2>2 DEF PortInv, FoundOK
  <2> QED
    BY <2>3, <1>1 DEF PortInv, ResultOK
<1>4. \A i \in 1..Len(found) : ports[i].path = found[i] /\ found[i] \in seen
  BY <1>1 DEF PortInv, ResultOK, FoundOK
<1>5. \A i, j \in 1..Len(found) : i # j => ports[i].path # ports[j].path
  BY <1>4 DEF PortInv, FoundOK
<1> QED
  BY <1>2, <1>3, <1>4, <1>5 DEF OwnInfo

(* Serial::enumeratePorts (serial_list_ports.cpp:138-160) lists every port *)
(* that is there throughout, once and with its own description, and no     *)
(* port that never was, however devices come, go and take each other's     *)
(* place between its system calls: for every finite number of slots and of *)
(* devices.                                                                *)
THEOREM PortsAreListed ==
  PortsSpec => []PortsListed
<1>1. PortsInit => PortInv
  BY PortInitHolds
<1>2. PortInv /\ [PortsNext]_(listVars) => PortInv'
  BY PortNextKeeps
<1>3. PortInv => PortsListed
  BY ResultRight
<1> QED
  BY <1>1, <1>2, <1>3, PTL DEF PortsSpec
-----------------------------------------------------------------------------
(* Files and their streams                                                 *)

ByteSeqs == Seq(Nat)

Streams ==
  [kind : {"plain", "buffered"}, file : Nat, at : Nat, mode : {"idle", "put", "got"}, base : Nat,
   buf : ByteSeqs, eof : BOOLEAN, place : Nat]

(* A stream that holds bytes back stands behind them, and one that read    *)
(* ahead stands within what it has read.                                   *)
StreamOK(s) ==
  /\ s.kind = "plain" => s.mode = "idle"
  /\ s.mode = "put" => s.buf # <<>> /\ s.at = s.base + Len(s.buf)
  /\ s.mode = "got" => s.base <= s.at /\ s.at <= s.base + Len(s.buf)
  /\ s.place = s.at

(* The types of the variables; an object's file is there.                  *)
FilesTyped ==
  /\ files \in Seq(ByteSeqs) /\ ideal \in Seq(ByteSeqs) /\ Len(ideal) = Len(files)
  /\ names \in [Path -> Nat] /\ \A p \in Path : names[p] <= Len(files)
  /\ cwd \in Dir
  /\ object \in [Handle -> {Closed} \cup Streams]
  /\ \A o \in Handle : isOpenFile(o) => object[o].file \in 1..Len(files) /\ StreamOK(object[o])
  /\ checked \in [Handle -> {NoCheck} \cup [path : Request, found : BOOLEAN]]

(* Stream s and the bytes c of its file, together, are the bytes d that    *)
(* the file should have: once what is held back is written they are the    *)
(* same, what was read ahead is still so, and the end is where it was met. *)
Faithful(s, c, d) ==
  /\ Over(c, s.base, Pending(s)) = d
  /\ s.mode = "got" => \A i \in 1..Len(s.buf) : s.base + i <= Len(c) /\ c[s.base + i] = s.buf[i]
  /\ s.eof => Len(d) <= s.at

Has(o, f) == isOpenFile(o) /\ object[o].file = f

(* A file is faithful to each of its objects, and as it should be when it  *)
(* has none.  No bytes are held back from an object that shares it.        *)
FileFaithful(f) ==
  /\ (\A o \in Handle : ~Has(o, f)) => files[f] = ideal[f]
  /\ \A o \in Handle : Has(o, f) => Faithful(object[o], files[f], ideal[f])
  /\ \A o, q \in Handle : o # q /\ Has(o, f) /\ Has(q, f) => Pending(object[o]) = <<>>

FilesFaithful == ~misread /\ \A f \in 1..Len(files) : f \notin spoiled => FileFaithful(f)

FilesInv == FilesTyped /\ FilesFaithful
-----------------------------------------------------------------------------
(* What a part of some bytes is.                                           *)
LEMMA PartIs ==
  ASSUME NEW c \in ByteSeqs, NEW x \in Nat, NEW n \in Nat
  PROVE  /\ Part(c, x, n) \in ByteSeqs
         /\ Len(Part(c, x, n)) = IF Len(c) <= x THEN 0 ELSE IF x + n < Len(c) THEN n ELSE Len(c) - x
         /\ \A i \in 1..Len(Part(c, x, n)) : Part(c, x, n)[i] = c[x + i] /\ x + i \in 1..Len(c)
<1>1. Len(c) \in Nat
  BY DEF ByteSeqs
<1>2. PICK m : m = IF x + n < Len(c) THEN x + n ELSE Len(c)
  OBVIOUS
<1>3. m \in Int /\ x + 1 \in Int /\ m <= Len(c) /\ m \in Nat
  BY <1>1, <1>2
<1>4. \A i \in (x + 1)..m : i \in 1..Len(c)
  BY <1>1, <1>3
<1>5. \A i \in (x + 1)..m : c[i] \in Nat
  BY <1>4, ElementOfSeq DEF ByteSeqs
<1>6. PICK p : p = SubSeq(c, x + 1, m)
  OBVIOUS
<1>7. /\ p \in Seq(Nat)
      /\ Len(p) = IF x + 1 <= m THEN m - (x + 1) + 1 ELSE 0
      /\ \A i \in 1..(m - (x + 1) + 1) : p[i] = c[(x + 1) + i - 1]
  BY <1>3, <1>5, <1>6, SubSeqProperties
<1>8. Part(c, x, n) = p
  BY <1>2, <1>6 DEF Part
<1>9. Len(p) = IF Len(c) <= x THEN 0 ELSE IF x + n < Len(c) THEN n ELSE Len(c) - x
  BY <1>1, <1>2, <1>3, <1>7
<1>10. ASSUME NEW i \in 1..Len(p)
       PROVE  p[i] = c[x + i] /\ x + i \in 1..Len(c)
  <2>1. i \in 1..(m - (x + 1) + 1) /\ (x + 1) + i - 1 = x + i
    <3>1. Len(p) = IF x + 1 <= m THEN m - (x + 1) + 1 ELSE 0
      BY <1>7
    <3>2. i \in Nat /\ 1 <= i /\ i <= Len(p)
      BY <3>1, <1>3
    <3> QED
      BY <3>1, <3>2, <1>3
  <2>2. x + i \in (x + 1)..m
    BY <2>1, <1>3
  <2> QED
    BY <2>1, <2>2, <1>4, <1>7
<1> QED
  BY <1>7, <1>8, <1>9, <1>10 DEF ByteSeqs

(* Two sequences of bytes are the same if they are so byte by byte.        *)
LEMMA SameBytes ==
  ASSUME NEW c \in ByteSeqs, NEW d \in ByteSeqs, Len(c) = Len(d),
         \A i \in 1..Len(c) : c[i] = d[i]
  PROVE  c = d
BY SeqEqual DEF ByteSeqs

(* What bytes with others written over them are.                           *)
LEMMA OverIs ==
  ASSUME NEW c \in ByteSeqs, NEW x \in Nat, NEW b \in ByteSeqs
  PROVE  /\ Over(c, x, b) \in ByteSeqs
         /\ b = <<>> => Over(c, x, b) = c
         /\ b # <<>> =>
              /\ Len(Over(c, x, b)) = IF x + Len(b) > Len(c) THEN x + Len(b) ELSE Len(c)
              /\ \A i \in 1..Len(Over(c, x, b)) :
                   Over(c, x, b)[i] = IF x < i /\ i <= x + Len(b) THEN b[i - x]
                                      ELSE IF i <= Len(c) THEN c[i] ELSE 0
<1>1. Len(c) \in Nat /\ Len(b) \in Nat
  BY DEF ByteSeqs
<1>2. CASE b = <<>>
  BY <1>2 DEF Over
<1>3. CASE b # <<>>
  <2>1. PICK m : m = IF x + Len(b) > Len(c) THEN x + Len(b) ELSE Len(c)
    OBVIOUS
  <2>2. m \in Nat
    BY <1>1, <2>1
  <2>3. Over(c, x, b) = [i \in 1..m |-> IF i \in x + 1..x + Len(b) THEN b[i - x]
                                        ELSE IF i <= Len(c) THEN c[i] ELSE 0]
    BY <1>3, <2>1 DEF Over, Hole
  <2>4. ASSUME NEW i \in 1..m
        PROVE  (IF i \in x + 1..x + Len(b) THEN b[i - x] ELSE IF i <= Len(c) THEN c[i] ELSE 0) \in Nat
    <3>1. CASE i \in x + 1..x + Len(b)
      <4>1. i - x \in 1..Len(b)
        BY <3>1, <1>1
      <4> QED
        BY <3>1, <4>1, ElementOfSeq DEF ByteSeqs
    <3>2. CASE i \notin x + 1..x + Len(b) /\ i <= Len(c)
      <4>1. i \in 1..Len(c)
        BY <3>2, <1>1, <2>2
      <4> QED
        BY <3>2, <4>1, ElementOfSeq DEF ByteSeqs
    <3>3. CASE i \notin x + 1..x + Len(b) /\ ~(i <= Len(c))
      BY <3>3
    <3> QED
      BY <3>1, <3>2, <3>3
  <2>5. Over(c, x, b) \in [1..m -> Nat]
    BY <2>3, <2>4
  <2>6. Over(c, x, b) \in Seq(Nat)
    BY <2>2, <2>5, SeqDef
  <2>7. DOMAIN Over(c, x, b) = 1..Len(Over(c, x, b)) /\ Len(Over(c, x, b)) \in Nat
    BY <2>6, LenProperties
  <2>8. Len(Over(c, x, b)) = m
    BY <2>2, <2>5, <2>7
  <2>9. \A i \in 1..m : i \in x + 1..x + Len(b) <=> x < i /\ i <= x + Len(b)
    BY <1>1, <2>2
  <2>10. \A i \in 1..m : Over(c, x, b)[i] = IF x < i /\ i <= x + Len(b) THEN b[i - x]
                                            ELSE IF i <= Len(c) THEN c[i] ELSE 0
    BY <2>3, <2>9
  <2> QED
    BY <1>3, <2>1, <2>6, <2>8, <2>10 DEF ByteSeqs
<1> QED
  BY <1>2, <1>3

(* Bytes written one after the other are written as one piece: what makes  *)
(* it right to hold some back.                                             *)
LEMMA OverOver ==
  ASSUME NEW c \in ByteSeqs, NEW x \in Nat, NEW p \in ByteSeqs, NEW b \in ByteSeqs
  PROVE  Over(Over(c, x, p), x + Len(p), b) = Over(c, x, p \o b)
<1>1. Len(c) \in Nat /\ Len(p) \in Nat /\ Len(b) \in Nat /\ x + Len(p) \in Nat
  BY DEF ByteSeqs
<1>2. /\ p \o b \in ByteSeqs /\ Len(p \o b) = Len(p) + Len(b)
      /\ \A i \in 1..(Len(p) + Len(b)) : (p \o b)[i] = IF i <= Len(p) THEN p[i] ELSE b[i - Len(p)]
  BY ConcatProperties DEF ByteSeqs
<1>3. CASE p = <<>>
  <2>1. Over(c, x, p) = c
    BY <1>3, OverIs
  <2>2. Len(p) = 0
    BY <1>3
  <2>3. p \o b = b
    BY <1>3, ConcatEmptySeq DEF ByteSeqs
  <2>4. x + Len(p) = x
    BY <2>2
  <2> QED
    BY <2>1, <2>3, <2>4
<1>4. CASE b = <<>>
  <2>1. p \o b = p /\ Over(c, x, p) \in ByteSeqs
    BY <1>4, OverIs DEF ByteSeqs
  <2>2. Over(Over(c, x, p), x + Len(p), b) = Over(c, x, p)
    BY <1>1, <1>4, <2>1, OverIs
  <2> QED
    BY <2>1, <2>2
<1>5. CASE p # <<>> /\ b # <<>>
  <2>1. PICK d : d = Over(c, x, p)
    OBVIOUS
  <2>2. /\ d \in ByteSeqs /\ Len(d) = IF x + Len(p) > Len(c) THEN x + Len(p) ELSE Len(c)
        /\ \A i \in 1..Len(d) : d[i] = IF x < i /\ i <= x + Len(p) THEN p[i - x]
                                       ELSE IF i <= Len(c) THEN c[i] ELSE 0
    BY <1>5, <2>1, OverIs
  <2>3. PICK e : e = Over(d, x + Len(p), b)
    OBVIOUS
  <2>4. /\ e \in ByteSeqs /\ Len(e) = IF (x + Len(p)) + Len(b) > Len(d) THEN (x + Len(p)) + Len(b) ELSE Len(d)
        /\ \A i \in 1..Len(e) :
             e[i] = IF x + Len(p) < i /\ i <= (x + Len(p)) + Len(b) THEN b[i - (x + Len(p))]
                    ELSE IF i <= Len(d) THEN d[i] ELSE 0
    BY <1>1, <1>5, <2>2, <2>3, OverIs
  <2>5. PICK q : q = p \o b
    OBVIOUS
  <2>6. /\ q \in ByteSeqs /\ Len(q) = Len(p) + Len(b) /\ q # <<>>
        /\ \A i \in 1..(Len(p) + Len(b)) : q[i] = IF i <= Len(p) THEN p[i] ELSE b[i - Len(p)]
    <3>1. Len(p) # 0
      BY <1>5 DEF ByteSeqs
    <3> QED
      BY <1>1, <1>2, <2>5, <3>1
  <2>7. PICK g : g = Over(c, x, q)
    OBVIOUS
  <2>8. /\ g \in ByteSeqs /\ Len(g) = IF x + Len(q) > Len(c) THEN x + Len(q) ELSE Len(c)
        /\ \A i \in 1..Len(g) : g[i] = IF x < i /\ i <= x + Len(q) THEN q[i - x]
                                       ELSE IF i <= Len(c) THEN c[i] ELSE 0
    BY <2>6, <2>7, OverIs
  <2>9. Len(e) = Len(g) /\ Len(d) \in Nat /\ Len(g) \in Nat
    <3>1. Len(d) \in Nat /\ Len(e) \in Nat /\ Len(g) \in Nat
      BY ONLY <2>2, <2>4, <2>8, LenProperties DEF ByteSeqs
    <3>2. CASE x + Len(p) > Len(c)
      BY <3>1, <3>2, <1>1, <2>2, <2>4, <2>6, <2>8
    <3>3. CASE ~(x + Len(p) > Len(c))
      <4>1. Len(d) = Len(c) /\ Len(q) = Len(p) + Len(b)
        BY <3>3, <2>2, <2>6
      <4>2. Len(e) = IF (x + Len(p)) + Len(b) > Len(c) THEN (x + Len(p)) + Len(b) ELSE Len(c)
        BY <4>1, <2>4
      <4>3. Len(g) = IF x + (Len(p) + Len(b)) > Len(c) THEN x + (Len(p) + Len(b)) ELSE Len(c)
        BY <4>1, <2>8
      <4> QED
        BY ONLY <4>2, <4>3, <3>1, <1>1, x \in Nat
    <3> QED
      BY <3>2, <3>3
  <2>10. ASSUME NEW i \in 1..Len(e)
         PROVE  e[i] = g[i]
    <3>1. CASE x + Len(p) < i /\ i <= x + Len(p) + Len(b)
      <4>1. i - x \in 1..(Len(p) + Len(b)) /\ ~(i - x <= Len(p)) /\ (i - x) - Len(p) = i - (x + Len(p))
        BY <3>1, <1>1, <2>9
      <4>2. e[i] = b[i - (x + Len(p))]
        BY <3>1, <2>4
      <4>3. g[i] = q[i - x]
        BY <3>1, <1>1, <2>6, <2>8, <2>9
      <4> QED
        BY <4>1, <4>2, <4>3, <2>6
    <3>2. CASE x < i /\ i <= x + Len(p)
      <4>1. i - x \in 1..(Len(p) + Len(b)) /\ i - x <= Len(p) /\ i \in 1..Len(d)
        BY <3>2, <1>1, <2>2, <2>9
      <4>2. e[i] = d[i]
        BY <3>2, <4>1, <1>1, <2>4, <2>9
      <4>3. d[i] = p[i - x]
        BY <3>2, <4>1, <2>2
      <4>4. g[i] = q[i - x]
        BY <3>2, <1>1, <2>6, <2>8, <2>9
      <4> QED
        BY <4>1, <4>2, <4>3, <4>4, <2>6
    <3>3. CASE i <= x \/ x + Len(p) + Len(b) < i
      <4>1. i \in 1..Len(g) /\ ~(x < i /\ i <= x + Len(q)) /\ ~(x < i /\ i <= x + Len(p))
            /\ ~(x + Len(p) < i /\ i <= (x + Len(p)) + Len(b))
        BY <3>3, <1>1, <2>6, <2>9
      <4>2. g[i] = IF i <= Len(c) THEN c[i] ELSE 0
        BY <4>1, <2>8
      <4>3. e[i] = IF i <= Len(d) THEN d[i] ELSE 0
        BY <4>1, <2>4
      <4>4. CASE i <= Len(d)
        <5>1. i \in 1..Len(d)
          BY <4>4, <2>9
        <5> QED
          BY <4>1, <4>2, <4>3, <4>4, <5>1, <2>2
      <4>5. CASE ~(i <= Len(d))
        <5>1. ~(i <= Len(c))
          BY <4>5, <1>1, <2>2, <2>9
        <5> QED
          BY <4>2, <4>3, <4>5, <5>1
      <4> QED
        BY <4>4, <4>5
    <3> QED
      BY <3>1, <3>2, <3>3, <1>1, <2>9
  <2>11. e = g
    BY <2>4, <2>8, <2>9, <2>10, SameBytes
  <2> QED
    BY <2>1, <2>3, <2>5, <2>7, <2>11
<1> QED
  BY <1>3, <1>4, <1>5

(* Bytes taken apart and put together again.                               *)
LEMMA TakenApart ==
  ASSUME NEW b \in ByteSeqs, NEW k \in 0..Len(b)
  PROVE  /\ SubSeq(b, 1, k) \in ByteSeqs /\ Len(SubSeq(b, 1, k)) = k
         /\ SubSeq(b, k + 1, Len(b)) \in ByteSeqs /\ Len(SubSeq(b, k + 1, Len(b))) = Len(b) - k
         /\ SubSeq(b, 1, k) \o SubSeq(b, k + 1, Len(b)) = b
         /\ k = Len(b) => SubSeq(b, 1, k) = b
<1>1. /\ Len(b) \in Nat /\ k \in Nat /\ k <= Len(b)
      /\ k \in Int /\ 1 \in Int /\ k + 1 \in Int /\ Len(b) \in Int
  BY DEF ByteSeqs
<1>2. \A i \in 1..Len(b) : b[i] \in Nat
  BY ElementOfSeq DEF ByteSeqs
<1>3. (\A i \in 1..k : b[i] \in Nat) /\ (\A i \in (k + 1)..Len(b) : b[i] \in Nat)
  BY <1>1, <1>2
<1>4. PICK p : p = SubSeq(b, 1, k)
  OBVIOUS
<1>5. PICK q : q = SubSeq(b, k + 1, Len(b))
  OBVIOUS
<1>6. /\ p \in Seq(Nat) /\ Len(p) = IF 1 <= k THEN k - 1 + 1 ELSE 0
      /\ \A i \in 1..(k - 1 + 1) : p[i] = b[1 + i - 1]
  BY <1>1, <1>3, <1>4, SubSeqProperties
<1>7. /\ q \in Seq(Nat) /\ Len(q) = IF k + 1 <= Len(b) THEN Len(b) - (k + 1) + 1 ELSE 0
      /\ \A i \in 1..(Len(b) - (k + 1) + 1) : q[i] = b[(k + 1) + i - 1]
  BY <1>1, <1>3, <1>5, SubSeqProperties
<1>8. /\ Len(p) = k /\ Len(q) = Len(b) - k
      /\ \A i \in 1..k : p[i] = b[i]
      /\ \A i \in 1..(Len(b) - k) : q[i] = b[k + i]
  <2>1. Len(p) = k /\ Len(q) = Len(b) - k
    BY <1>1, <1>6, <1>7
  <2>2. ASSUME NEW i \in 1..k
        PROVE  p[i] = b[i]
    <3>1. i \in 1..(k - 1 + 1) /\ 1 + i - 1 = i
      BY <1>1
    <3> QED
      BY <3>1, <1>6
  <2>3. ASSUME NEW i \in 1..(Len(b) - k)
        PROVE  q[i] = b[k + i]
    <3>1. i \in 1..(Len(b) - (k + 1) + 1) /\ (k + 1) + i - 1 = k + i
      BY <1>1
    <3> QED
      BY <3>1, <1>7
  <2> QED
    BY <2>1, <2>2, <2>3
<1>9. /\ p \o q \in Seq(Nat) /\ Len(p \o q) = Len(p) + Len(q)
      /\ \A i \in 1..(Len(p) + Len(q)) : (p \o q)[i] = IF i <= Len(p) THEN p[i] ELSE q[i - Len(p)]
  BY <1>6, <1>7, ConcatProperties
<1>10. PICK r : r = p \o q
  OBVIOUS
<1>11. r \in ByteSeqs /\ Len(r) = Len(b)
  BY <1>1, <1>8, <1>9, <1>10 DEF ByteSeqs
<1>12. ASSUME NEW i \in 1..Len(r)
       PROVE  r[i] = b[i]
  <2>1. i \in 1..(Len(p) + Len(q))
    BY <1>1, <1>8, <1>11
  <2>2. CASE i <= k
    BY <2>1, <2>2, <1>1, <1>8, <1>9, <1>10
  <2>3. CASE ~(i <= k)
    <3>1. i - k \in 1..(Len(b) - k) /\ k + (i - k) = i
      BY <2>1, <2>3, <1>1, <1>8
    <3>2. r[i] = q[i - k]
      BY <2>1, <2>3, <1>8, <1>9, <1>10
    <3>3. q[i - k] = b[k + (i - k)]
      BY <3>1, <1>8
    <3> QED
      BY <3>1, <3>2, <3>3
  <2> QED
    BY <2>2, <2>3
<1>13. r = b
  BY <1>11, <1>12, SameBytes
<1>14. k = Len(b) => p = b
  BY <1>6, <1>8, SameBytes DEF ByteSeqs
<1> QED
  BY <1>4, <1>5, <1>6, <1>7, <1>8, <1>10, <1>13, <1>14 DEF ByteSeqs
(* The fields of a stream.                                                 *)
LEMMA StreamFields ==
  ASSUME NEW s \in Streams
  PROVE  /\ s.kind \in {"plain", "buffered"} /\ s.file \in Nat /\ s.at \in Nat
         /\ s.mode \in {"idle", "put", "got"} /\ s.base \in Nat /\ s.buf \in ByteSeqs
         /\ s.eof \in BOOLEAN /\ s.place \in Nat
         /\ DOMAIN s = {"kind", "file", "at", "mode", "base", "buf", "eof", "place"}
         /\ s # Closed
<1>1. /\ s.kind \in {"plain", "buffered"} /\ s.file \in Nat /\ s.at \in Nat
      /\ s.mode \in {"idle", "put", "got"} /\ s.base \in Nat /\ s.buf \in ByteSeqs
      /\ s.eof \in BOOLEAN /\ s.place \in Nat
      /\ DOMAIN s = {"kind", "file", "at", "mode", "base", "buf", "eof", "place"}
  BY DEF Streams
<1>2. s.kind # "closed" /\ Closed.kind = "closed"
  BY <1>1 DEF Closed
<1> QED
  BY <1>1, <1>2

(* What a stream holds back.                                               *)
LEMMA PendingIs ==
  ASSUME NEW s \in Streams, StreamOK(s)
  PROVE  /\ Pending(s) \in ByteSeqs
         /\ s.mode = "put" => /\ Pending(s) = s.buf /\ Pending(s) # <<>>
                              /\ s.at = s.base + Len(Pending(s))
         /\ s.mode # "put" => Pending(s) = <<>>
         /\ Len(Pending(s)) \in Nat
<1>1. s.buf \in ByteSeqs /\ <<>> \in ByteSeqs
  BY StreamFields DEF ByteSeqs
<1>2. Pending(s) \in ByteSeqs
  BY <1>1 DEF Pending
<1>3. Len(Pending(s)) \in Nat
  BY <1>2, LenProperties DEF ByteSeqs
<1> QED
  BY <1>1, <1>2, <1>3 DEF Pending, StreamOK

(* A stream that fwrite has given bytes.                                   *)
LEMMA PutIs ==
  ASSUME NEW s \in Streams, StreamOK(s), s.kind = "buffered" \/ s.mode = "idle", NEW b \in ByteSeqs, b # <<>>
  PROVE  /\ Put(s, b) \in Streams
         /\ s.kind = "buffered" => StreamOK(Put(s, b))
         /\ Put(s, b).kind = s.kind /\ Put(s, b).file = s.file /\ Put(s, b).mode = "put"
         /\ Put(s, b).base = IF s.mode = "put" THEN s.base ELSE s.at
         /\ Put(s, b).buf = Pending(s) \o b /\ Put(s, b).at = s.at + Len(b)
         /\ Put(s, b).place = s.place + Len(b)
         /\ Len(Put(s, b).buf) = Len(Pending(s)) + Len(b) /\ Len(b) \in Nat \ {0}
<1>1. PICK t : t = Put(s, b)
  OBVIOUS
<1>2. PICK x : x = IF s.mode = "put" THEN s.base ELSE s.at
  OBVIOUS
<1>3. PICK p : p = Pending(s) \o b
  OBVIOUS
<1>4. /\ p \in ByteSeqs /\ Len(p) = Len(Pending(s)) + Len(b) /\ Len(b) \in Nat /\ Len(b) # 0
      /\ Len(Pending(s)) \in Nat
  <2>1. Len(b) \in Nat /\ Len(b) # 0
    BY EmptySeq, LenProperties DEF ByteSeqs
  <2>2. Pending(s) \in ByteSeqs /\ Len(Pending(s)) \in Nat
    BY PendingIs
  <2>3. Pending(s) \o b \in Seq(Nat) /\ Len(Pending(s) \o b) = Len(Pending(s)) + Len(b)
    BY <2>2, ConcatProperties DEF ByteSeqs
  <2> QED
    BY <2>1, <2>2, <2>3, <1>3 DEF ByteSeqs
<1>5. s.at \in Nat /\ s.base \in Nat /\ s.place \in Nat
  BY StreamFields
<1>6. PICK y, z : y = s.at + Len(b) /\ z = s.place + Len(b)
  OBVIOUS
<1>7. x \in Nat /\ y \in Nat /\ z \in Nat
  BY <1>2, <1>4, <1>5, <1>6
<1>8. t = [s EXCEPT !.mode = "put", !.base = x, !.buf = p, !.at = y, !.place = z]
  BY <1>1, <1>2, <1>3, <1>6 DEF Put
<1>9. /\ t \in Streams
      /\ t.kind = s.kind /\ t.file = s.file /\ t.mode = "put" /\ t.base = x /\ t.buf = p
      /\ t.at = y /\ t.place = z
  BY ONLY <1>4, <1>7, <1>8, s \in Streams DEF Streams
<1>10. y = x + Len(p) /\ p # <<>> /\ z = y
  <2>1. Len(p) # 0
    BY <1>4
  <2>2. p # <<>>
    BY <2>1, EmptySeq
  <2>3. CASE s.mode = "put"
    <3>1. x = s.base /\ s.at = s.base + Len(Pending(s)) /\ s.place = s.at
      BY <2>3, <1>2, PendingIs DEF StreamOK
    <3> QED
      BY <3>1, <2>2, <1>4, <1>5, <1>6
  <2>4. CASE s.mode # "put"
    <3>1. x = s.at /\ Len(Pending(s)) = 0 /\ s.place = s.at
      BY <2>4, <1>2, PendingIs, EmptySeq DEF StreamOK
    <3> QED
      BY <3>1, <2>2, <1>4, <1>5, <1>6
  <2> QED
    BY <2>3, <2>4
<1>11. s.kind = "buffered" => StreamOK(t)
  BY <1>9, <1>10 DEF StreamOK
<1> QED
  BY <1>1, <1>2, <1>3, <1>4, <1>6, <1>9, <1>11
(* A stream that has passed on some of the bytes it held back.             *)
LEMMA PassedIs ==
  ASSUME NEW s \in Streams, StreamOK(s), s.mode = "put", NEW k \in 0..Len(s.buf)
  PROVE  /\ Passed(s, k) \in Streams /\ StreamOK(Passed(s, k))
         /\ Passed(s, k).kind = s.kind /\ Passed(s, k).file = s.file
         /\ Passed(s, k).at = s.at /\ Passed(s, k).place = s.place /\ Passed(s, k).eof = s.eof
         /\ k = Len(s.buf) => Passed(s, k).mode = "idle"
         /\ k # Len(s.buf) => /\ Passed(s, k).mode = "put" /\ Passed(s, k).base = s.base + k
                              /\ Passed(s, k).buf = SubSeq(s.buf, k + 1, Len(s.buf))
<1>1. s.buf \in ByteSeqs /\ s.base \in Nat /\ s.at \in Nat /\ Len(s.buf) \in Nat /\ k \in Nat
  BY StreamFields, LenProperties DEF ByteSeqs
<1>2. s.place = s.at /\ s.at = s.base + Len(s.buf) /\ s.kind # "plain"
  BY DEF StreamOK
<1>3. PICK t : t = Passed(s, k)
  OBVIOUS
<1>4. CASE k = Len(s.buf)
  <2>1. t = [s EXCEPT !.mode = "idle", !.base = 0, !.buf = <<>>]
    BY <1>3, <1>4 DEF Passed
  <2>2. <<>> \in ByteSeqs /\ 0 \in Nat
    BY EmptySeq DEF ByteSeqs
  <2>3. /\ t \in Streams
        /\ t.kind = s.kind /\ t.file = s.file /\ t.mode = "idle"
        /\ t.at = s.at /\ t.place = s.place
    BY ONLY <2>1, <2>2, s \in Streams DEF Streams
  <2>4. t.eof = s.eof
    BY ONLY <2>1, s \in Streams DEF Streams
  <2>5. StreamOK(t)
    BY <2>3, <1>2 DEF StreamOK
  <2> QED
    BY <2>3, <2>4, <2>5, <1>3, <1>4
<1>5. CASE k # Len(s.buf)
  <2>1. PICK q, x : q = SubSeq(s.buf, k + 1, Len(s.buf)) /\ x = s.base + k
    OBVIOUS
  <2>2. q \in ByteSeqs /\ Len(q) = Len(s.buf) - k
    BY <2>1, <1>1, TakenApart
  <2>3. x \in Nat /\ s.at = x + Len(q) /\ Len(q) # 0
    BY <2>1, <2>2, <1>1, <1>2, <1>5
  <2>4. q # <<>>
    BY <2>3, EmptySeq
  <2>5. t = [s EXCEPT !.base = x, !.buf = q]
    BY <1>3, <1>5, <2>1 DEF Passed
  <2>6. /\ t \in Streams
        /\ t.kind = s.kind /\ t.file = s.file /\ t.mode = "put" /\ t.base = x /\ t.buf = q
        /\ t.at = s.at /\ t.place = s.place
    BY ONLY <2>2, <2>3, <2>5, s \in Streams, s.mode = "put" DEF Streams
  <2>7. t.eof = s.eof
    BY ONLY <2>5, s \in Streams DEF Streams
  <2>8. StreamOK(t)
    BY <2>3, <2>4, <2>6, <1>2 DEF StreamOK
  <2> QED
    BY <2>1, <2>6, <2>7, <2>8, <1>3, <1>5
<1> QED
  BY <1>4, <1>5

(* A stream that has passed on all of them.                                *)
LEMMA DrainedIs ==
  ASSUME NEW s \in Streams, StreamOK(s)
  PROVE  /\ Emptied(s) \in Streams /\ StreamOK(Emptied(s))
         /\ Emptied(s).kind = s.kind /\ Emptied(s).file = s.file
         /\ Emptied(s).at = s.at /\ Emptied(s).place = s.place /\ Emptied(s).eof = s.eof
         /\ s.mode = "put" => Emptied(s).mode = "idle"
         /\ s.mode # "put" => Emptied(s) = s
         /\ Pending(Emptied(s)) = <<>>
<1>1. Len(s.buf) \in Nat
  BY StreamFields, LenProperties DEF ByteSeqs
<1>2. Len(s.buf) \in 0..Len(s.buf)
  BY <1>1
<1>3. CASE s.mode = "put"
  BY <1>2, <1>3, PassedIs DEF Emptied, Pending
<1>4. CASE s.mode # "put"
  BY <1>4 DEF Emptied, Pending
<1> QED
  BY <1>3, <1>4

(* Bytes are passed on without harm, however many at a time.               *)
LEMMA PassedFaithful ==
  ASSUME NEW s \in Streams, StreamOK(s), s.mode = "put", NEW k \in 0..Len(s.buf),
         NEW c \in ByteSeqs, NEW d \in ByteSeqs, Over(c, s.base, s.buf) = d, s.eof => Len(d) <= s.at
  PROVE  Faithful(Passed(s, k), Over(c, s.base, SubSeq(s.buf, 1, k)), d)
<1>1. s.buf \in ByteSeqs /\ s.base \in Nat /\ s.at \in Nat /\ Len(s.buf) \in Nat /\ k \in Nat
  BY StreamFields, LenProperties DEF ByteSeqs
<1>2. PICK t : t = Passed(s, k)
  OBVIOUS
<1>3. PICK p, q : p = SubSeq(s.buf, 1, k) /\ q = SubSeq(s.buf, k + 1, Len(s.buf))
  OBVIOUS
<1>4. p \in ByteSeqs /\ q \in ByteSeqs /\ p \o q = s.buf /\ (k = Len(s.buf) => p = s.buf) /\ Len(p) = k
  BY <1>1, <1>3, TakenApart
<1>5. t.mode # "got" /\ (t.eof => Len(d) <= t.at)
  <2>1. t.eof = s.eof /\ t.at = s.at
    BY <1>2, PassedIs
  <2>2. t.eof => Len(d) <= t.at
    BY <2>1, Zenon
  <2>3. t.mode # "got"
    BY <1>2, PassedIs
  <2> QED
    BY <2>2, <2>3
<1>6. Over(Over(c, s.base, p), t.base, Pending(t)) = d
  <2>1. CASE k = Len(s.buf)
    <3>1. t.mode = "idle" /\ Over(c, s.base, p) = d
      BY <2>1, <1>2, <1>4, PassedIs
    <3> QED
      BY <3>1 DEF Over, Pending
  <2>2. CASE k # Len(s.buf)
    <3>1. t.base = s.base + Len(p) /\ Pending(t) = q
      BY <2>2, <1>2, <1>3, <1>4, PassedIs DEF Pending
    <3>2. Over(Over(c, s.base, p), s.base + Len(p), q) = Over(c, s.base, p \o q)
      <4>1. s.base \in Nat
        BY <1>1
      <4> QED
        BY ONLY <4>1, <1>4, c \in ByteSeqs, OverOver
    <3> QED
      BY <3>1, <3>2, <1>4
  <2> QED
    BY <2>1, <2>2
<1> QED
  BY <1>2, <1>3, <1>5, <1>6 DEF Faithful

(* fwrite does to the stream what a write does to the file.                *)
LEMMA PutFaithful ==
  ASSUME NEW s \in Streams, StreamOK(s), s.kind = "buffered" \/ s.mode = "idle",
         NEW b \in ByteSeqs, b # <<>>,
         NEW c \in ByteSeqs, NEW d \in ByteSeqs, Faithful(s, c, d)
  PROVE  /\ Over(c, Put(s, b).base, Put(s, b).buf) = Over(d, s.place, b)
         /\ Over(d, s.place, b) \in ByteSeqs
         /\ Put(s, b).eof => Len(Over(d, s.place, b)) <= Put(s, b).at
<1>1. s.base \in Nat /\ s.at \in Nat /\ s.place = s.at /\ Len(d) \in Nat /\ Len(b) \in Nat
  BY StreamFields, LenProperties DEF StreamOK, ByteSeqs
<1>2. PICK t : t = Put(s, b)
  OBVIOUS
<1>3. /\ t.base = (IF s.mode = "put" THEN s.base ELSE s.at)
      /\ t.buf = Pending(s) \o b /\ t.at = s.at + Len(b)
  BY <1>2, PutIs
<1>4. Over(c, s.base, Pending(s)) = d
  BY DEF Faithful
<1>5. Over(c, t.base, t.buf) = Over(d, s.place, b)
  <2>1. CASE s.mode = "put"
    <3>1. Pending(s) \in ByteSeqs /\ s.at = s.base + Len(Pending(s))
      BY <2>1, PendingIs
    <3>2. Over(Over(c, s.base, Pending(s)), s.base + Len(Pending(s)), b)
            = Over(c, s.base, Pending(s) \o b)
      <4>1. s.base \in Nat /\ Pending(s) \in ByteSeqs
        BY <3>1, <1>1
      <4> QED
        BY ONLY <4>1, c \in ByteSeqs, b \in ByteSeqs, OverOver
    <3> QED
      BY <2>1, <3>1, <3>2, <1>1, <1>3, <1>4
  <2>2. CASE s.mode # "put"
    <3>1. Pending(s) = <<>>
      BY <2>2 DEF Pending
    <3>2. c = d
      BY <3>1, <1>4 DEF Over
    <3>3. t.buf = b
      BY <3>1, <1>3, ConcatEmptySeq DEF ByteSeqs
    <3> QED
      BY <2>2, <3>2, <3>3, <1>1, <1>3
  <2> QED
    BY <2>1, <2>2
<1>6. t.eof => s.eof
  BY <1>2, s \in Streams DEF Put, Streams
<1>7. s.eof => Len(d) <= s.at
  BY DEF Faithful
<1>8. Over(d, s.place, b) \in ByteSeqs
      /\ Len(Over(d, s.place, b)) = IF s.place + Len(b) > Len(d) THEN s.place + Len(b) ELSE Len(d)
  BY <1>1, OverIs
<1>9. Len(d) <= s.at => Len(Over(d, s.place, b)) <= t.at
  BY <1>1, <1>3, <1>8
<1> QED
  BY <1>2, <1>5, <1>6, <1>7, <1>8, <1>9

(* A stream that is drained leaves the file as it should be.               *)
LEMMA DrainedFaithful ==
  ASSUME NEW s \in Streams, StreamOK(s), NEW c \in ByteSeqs, NEW d \in ByteSeqs, Faithful(s, c, d)
  PROVE  /\ Over(c, s.base, SubSeq(Pending(s), 1, Len(Pending(s)))) = d
         /\ Faithful(Emptied(s), d, d)
<1>1. Over(c, s.base, Pending(s)) = d
  BY DEF Faithful
<1>2. Pending(s) \in ByteSeqs /\ Len(Pending(s)) \in 0..Len(Pending(s))
  BY PendingIs
<1>3. SubSeq(Pending(s), 1, Len(Pending(s))) = Pending(s)
  BY <1>2, TakenApart
<1>4. PICK t : t = Emptied(s)
  OBVIOUS
<1>5. Pending(t) = <<>> /\ t.at = s.at
  BY <1>4, DrainedIs
<1>6. t.eof = s.eof
  BY <1>4, DrainedIs
<1>7. t.eof => Len(d) <= t.at
  <2>1. s.eof => Len(d) <= s.at
    BY DEF Faithful
  <2> QED
    BY <2>1, <1>5, <1>6, Zenon
<1>8. t.mode = "got" => \A i \in 1..Len(t.buf) : t.base + i <= Len(d) /\ d[t.base + i] = t.buf[i]
  <2>1. CASE s.mode = "put"
    BY <2>1, <1>4, DrainedIs
  <2>2. CASE s.mode # "put"
    <3>1. t = s /\ c = d
      BY <2>2, <1>1, <1>4, DrainedIs DEF Pending, Over
    <3> QED
      BY <3>1 DEF Faithful
  <2> QED
    BY <2>1, <2>2
<1>9. Over(d, t.base, Pending(t)) = d
  BY <1>5 DEF Over
<1> QED
  BY <1>1, <1>3, <1>4, <1>7, <1>8, <1>9 DEF Faithful
(* The bytes that are read ahead follow the position.                      *)
LEMMA AheadIs ==
  ASSUME NEW s \in Streams, StreamOK(s), NEW c \in ByteSeqs
  PROVE  /\ Ahead(s) \in ByteSeqs
         /\ Faithful(s, c, c) =>
              \A i \in 1..Len(Ahead(s)) : s.at + i \in 1..Len(c) /\ Ahead(s)[i] = c[s.at + i]
<1>1. s.buf \in ByteSeqs /\ s.base \in Nat /\ s.at \in Nat /\ Len(s.buf) \in Nat /\ Len(c) \in Nat
  BY StreamFields, LenProperties DEF ByteSeqs
<1>2. BufferSize \in Nat
  BY FilesAssumption
<1>3. CASE s.mode = "got"
  <2>1. PICK x : x = s.at - s.base
    OBVIOUS
  <2>2. x \in Nat /\ s.base + x = s.at
    BY <1>1, <1>3, <2>1 DEF StreamOK
  <2>3. PICK p : p = Part(s.buf, x, BufferSize)
    OBVIOUS
  <2>4. p \in ByteSeqs /\ \A i \in 1..Len(p) : p[i] = s.buf[x + i] /\ x + i \in 1..Len(s.buf)
    <3>1. s.buf \in ByteSeqs /\ x \in Nat /\ BufferSize \in Nat
      BY <1>1, <1>2, <2>2
    <3> QED
      BY ONLY <3>1, <2>3, PartIs
  <2>5. Ahead(s) = p
    BY <1>3, <2>1, <2>3 DEF Ahead
  <2>6. ASSUME Faithful(s, c, c), NEW i \in 1..Len(p)
        PROVE  s.at + i \in 1..Len(c) /\ p[i] = c[s.at + i]
    <3>1. p[i] = s.buf[x + i] /\ x + i \in 1..Len(s.buf)
      BY <2>4
    <3>2. s.base + (x + i) <= Len(c) /\ c[s.base + (x + i)] = s.buf[x + i]
      BY <2>6, <3>1, <1>3 DEF Faithful
    <3>3. Len(p) \in Nat
      BY <2>4, LenProperties DEF ByteSeqs
    <3>4. s.base + (x + i) = s.at + i
      BY <3>3, <1>1, <2>2
    <3> QED
      BY <3>1, <3>2, <3>3, <3>4, <1>1
  <2> QED
    BY <2>4, <2>5, <2>6
<1>4. CASE s.mode # "got"
  <2>1. Ahead(s) = <<>> /\ Len(<<>>) = 0 /\ <<>> \in ByteSeqs
    BY <1>4, EmptySeq DEF Ahead, ByteSeqs
  <2> QED
    BY <2>1
<1> QED
  BY <1>3, <1>4

(* The bytes p are those of c that follow the offset x.                    *)
Follow(p, c, x) == \A i \in 1..Len(p) : x + i \in 1..Len(c) /\ p[i] = c[x + i]

(* The bytes that follow an offset, fetched in two pieces.                 *)
LEMMA PiecesIs ==
  ASSUME NEW c \in ByteSeqs, NEW x \in Nat, NEW p \in ByteSeqs, NEW q \in ByteSeqs,
         Follow(p, c, x), Follow(q, c, x + Len(p))
  PROVE  Follow(p \o q, c, x)
<1>0. /\ \A i \in 1..Len(p) : x + i \in 1..Len(c) /\ p[i] = c[x + i]
      /\ \A i \in 1..Len(q) : (x + Len(p)) + i \in 1..Len(c) /\ q[i] = c[(x + Len(p)) + i]
  BY DEF Follow
<1>1. Len(p) \in Nat /\ Len(q) \in Nat /\ Len(c) \in Nat
  BY LenProperties DEF ByteSeqs
<1>2. PICK r : r = p \o q
  OBVIOUS
<1>3. /\ r \in ByteSeqs /\ Len(r) = Len(p) + Len(q)
      /\ \A i \in 1..(Len(p) + Len(q)) : r[i] = IF i <= Len(p) THEN p[i] ELSE q[i - Len(p)]
  BY <1>2, ConcatProperties DEF ByteSeqs
<1>4. ASSUME NEW i \in 1..Len(r)
      PROVE  x + i \in 1..Len(c) /\ r[i] = c[x + i]
  <2>1. i \in 1..(Len(p) + Len(q))
    BY <1>3
  <2>2. CASE i <= Len(p)
    <3>1. i \in 1..Len(p)
      BY <2>1, <2>2, <1>1
    <3> QED
      BY <3>1, <2>1, <2>2, <1>0, <1>3
  <2>3. CASE ~(i <= Len(p))
    <3>1. i - Len(p) \in 1..Len(q) /\ (x + Len(p)) + (i - Len(p)) = x + i
      BY <2>1, <2>3, <1>1
    <3>2. r[i] = q[i - Len(p)]
      BY <2>1, <2>3, <1>3
    <3>3. /\ (x + Len(p)) + (i - Len(p)) \in 1..Len(c)
          /\ q[i - Len(p)] = c[(x + Len(p)) + (i - Len(p))]
      BY <3>1, <1>0
    <3> QED
      BY <3>1, <3>2, <3>3
  <2> QED
    BY <2>2, <2>3
<1> QED
  BY <1>2, <1>3, <1>4 DEF Follow

(* The stream that a read leaves.                                          *)
Advanced(r) == [r.stream EXCEPT !.place = @ + Len(r.given)]

(* What fread gives, and the stream it leaves.                             *)
LEMMA FreadIs ==
  ASSUME NEW s \in Streams, StreamOK(s), s.kind = "buffered",
         NEW c \in ByteSeqs, NEW n \in Lengths,
         NEW r, r = fread(s, n, c)
  PROVE  /\ Advanced(r) \in Streams /\ StreamOK(Advanced(r))
         /\ Advanced(r).file = s.file /\ Advanced(r).mode = "got"
         /\ Faithful(s, c, c) /\ s.mode # "put"
              => r.given = Part(c, s.place, n) /\ Faithful(Advanced(r), c, c)
<1>0. PICK t : t = Advanced(r)
  OBVIOUS
<1>1. s.at \in Nat /\ s.place = s.at /\ Len(c) \in Nat /\ s.file \in Nat
  BY StreamFields, LenProperties DEF ByteSeqs, StreamOK
<1>2. n \in Nat /\ n >= 1 /\ n <= BufferSize /\ BufferSize \in Nat
  BY FilesAssumption
<1>3. PICK p : p = Ahead(s)
  OBVIOUS
<1>4. PICK q : q = IF Len(p) >= n \/ s.eof THEN <<>> ELSE Part(c, s.at + Len(p), BufferSize)
  OBVIOUS
<1>5. PICK b : b = p \o q
  OBVIOUS
<1>6. PICK g : g = Part(b, 0, n)
  OBVIOUS
<1>7. r = [given |-> g,
           stream |-> [s EXCEPT !.mode = "got", !.base = s.at, !.buf = b,
                                !.at = @ + Len(g), !.eof = @ \/ Len(g) < n]]
  BY <1>3, <1>4, <1>5, <1>6, Zenon DEF fread
<1>8. PICK e : e = (s.eof \/ Len(g) < n)
  OBVIOUS
<1>9. e \in BOOLEAN
  BY <1>8, Zenon
<1>10. PICK y : y = s.at + Len(g)
  OBVIOUS
<1>11. r.given = g /\ r.stream = [s EXCEPT !.mode = "got", !.base = s.at, !.buf = b, !.at = y, !.eof = e]
  <2>1. r.given = g
    BY <1>7
  <2>2. r.stream = [s EXCEPT !.mode = "got", !.base = s.at, !.buf = b,
                             !.at = @ + Len(g), !.eof = @ \/ Len(g) < n]
    BY <1>7
  <2>3. r.stream = [s EXCEPT !.mode = "got", !.base = s.at, !.buf = b, !.at = y, !.eof = e]
    BY <2>2, <1>8, <1>9, <1>10, s \in Streams DEF Streams
  <2> QED
    BY <2>1, <2>3
<1>12. p \in ByteSeqs /\ Len(p) \in Nat
  BY <1>3, AheadIs, LenProperties DEF ByteSeqs
<1>13. /\ q \in ByteSeqs /\ Len(q) \in Nat
       /\ \A i \in 1..Len(q) : (s.at + Len(p)) + i \in 1..Len(c) /\ q[i] = c[(s.at + Len(p)) + i]
  <2>1. s.at + Len(p) \in Nat
    BY <1>1, <1>12
  <2>2. PICK m : m = Part(c, s.at + Len(p), BufferSize)
    OBVIOUS
  <2>3. /\ m \in ByteSeqs
        /\ \A i \in 1..Len(m) : m[i] = c[(s.at + Len(p)) + i] /\ (s.at + Len(p)) + i \in 1..Len(c)
    BY <2>1, <2>2, <1>2, PartIs
  <2>4. <<>> \in ByteSeqs /\ Len(<<>>) = 0
    BY EmptySeq DEF ByteSeqs
  <2>5. q = <<>> \/ q = m
    BY <1>4, <2>2
  <2>6. /\ q \in ByteSeqs
        /\ \A i \in 1..Len(q) : (s.at + Len(p)) + i \in 1..Len(c) /\ q[i] = c[(s.at + Len(p)) + i]
    BY <2>3, <2>4, <2>5
  <2> QED
    BY <2>6, LenProperties DEF ByteSeqs
<1>14. b \in ByteSeqs /\ Len(b) = Len(p) + Len(q)
  BY <1>5, <1>12, <1>13, ConcatProperties DEF ByteSeqs
<1>15. /\ g \in ByteSeqs /\ Len(g) = IF n < Len(b) THEN n ELSE Len(b)
       /\ \A i \in 1..Len(g) : g[i] = b[i] /\ i \in 1..Len(b)
  <2>1. /\ g \in ByteSeqs /\ Len(g) = IF Len(b) <= 0 THEN 0 ELSE IF 0 + n < Len(b) THEN n ELSE Len(b) - 0
        /\ \A i \in 1..Len(g) : g[i] = b[0 + i] /\ 0 + i \in 1..Len(b)
    <3>1. b \in ByteSeqs /\ 0 \in Nat /\ n \in Nat
      BY <1>2, <1>14
    <3> QED
      BY ONLY <3>1, <1>6, PartIs
  <2>2. Len(g) \in Nat /\ \A i \in 1..Len(g) : 0 + i = i
    BY <2>1, LenProperties DEF ByteSeqs
  <2> QED
    BY <2>1, <2>2, <1>2, <1>12, <1>13, <1>14
<1>16. Len(g) \in Nat /\ y \in Nat /\ Len(b) \in Nat
  BY <1>1, <1>2, <1>10, <1>12, <1>13, <1>14, <1>15
<1>17. /\ t \in Streams
       /\ t.kind = s.kind /\ t.file = s.file /\ t.mode = "got" /\ t.base = s.at /\ t.buf = b
       /\ t.at = y /\ t.place = y
  <2>1. PICK u : u = r.stream
    OBVIOUS
  <2>2. u \in Streams /\ u.place = s.place /\ u.kind = s.kind /\ u.file = s.file /\ u.mode = "got"
        /\ u.base = s.at /\ u.buf = b /\ u.at = y
    BY ONLY <2>1, <1>1, <1>9, <1>11, <1>14, <1>16, s \in Streams DEF Streams
  <2>3. t = [u EXCEPT !.place = y]
    <3>1. t = [u EXCEPT !.place = u.place + Len(r.given)]
      BY <2>1, <1>0 DEF Advanced
    <3>2. u.place + Len(r.given) = y
      BY <2>2, <1>1, <1>10, <1>11
    <3> QED
      BY <3>1, <3>2
  <2> QED
    BY ONLY <2>2, <2>3, <1>16 DEF Streams
<1>18. t.eof = e
  <2>1. r.stream.eof = e
    BY ONLY <1>11, s \in Streams DEF Streams
  <2>2. DOMAIN r.stream = DOMAIN s
    BY ONLY <1>11
  <2>3. t.eof = r.stream.eof
    BY <2>2, <1>0 DEF Streams, Advanced
  <2> QED
    BY <2>1, <2>3
<1>19. StreamOK(t)
  <2>1. s.at <= y /\ y <= s.at + Len(b)
    BY <1>1, <1>2, <1>10, <1>15, <1>16
  <2> QED
    BY <2>1, <1>17 DEF StreamOK
<1>20. ASSUME Faithful(s, c, c), s.mode # "put"
       PROVE  g = Part(c, s.place, n) /\ Faithful(t, c, c)
  <2>1. \A i \in 1..Len(p) : s.at + i \in 1..Len(c) /\ p[i] = c[s.at + i]
    BY <1>20, <1>3, AheadIs
  <2>2. \A i \in 1..Len(b) : s.at + i \in 1..Len(c) /\ b[i] = c[s.at + i]
    <3>1. PICK x : x = s.at
      OBVIOUS
    <3>2. x \in Nat /\ Follow(p, c, x) /\ Follow(q, c, x + Len(p))
      BY <3>1, <2>1, <1>1, <1>13 DEF Follow
    <3>3. Follow(p \o q, c, x)
      <4>1. p \in ByteSeqs /\ q \in ByteSeqs /\ c \in ByteSeqs
        BY <1>12, <1>13
      <4> QED
        BY ONLY <4>1, <3>2, PiecesIs
    <3> QED
      BY <3>1, <3>3, <1>5 DEF Follow
  <2>3. PICK w : w = Part(c, s.at, n)
    OBVIOUS
  <2>4. /\ w \in ByteSeqs
        /\ Len(w) = IF Len(c) <= s.at THEN 0 ELSE IF s.at + n < Len(c) THEN n ELSE Len(c) - s.at
        /\ \A i \in 1..Len(w) : w[i] = c[s.at + i] /\ s.at + i \in 1..Len(c)
    <3>1. c \in ByteSeqs /\ s.at \in Nat /\ n \in Nat
      BY <1>1, <1>2
    <3> QED
      BY ONLY <3>1, <2>3, PartIs
  <2>5. s.eof => Len(c) <= s.at
    BY <1>20 DEF Faithful
  <2>6. Len(b) = 0 \/ s.at + Len(b) <= Len(c)
    <3>1. CASE Len(b) # 0
      <4>1. Len(b) \in 1..Len(b)
        BY <3>1, <1>16
      <4> QED
        BY <4>1, <2>2, <1>1, <1>16
    <3> QED
      BY <3>1
  <2>7. Len(g) = Len(w)
    <3>1. CASE Len(c) <= s.at
      <4>1. Len(b) = 0
        BY <3>1, <2>6, <1>1, <1>16
      <4> QED
        BY <3>1, <4>1, <2>4, <1>2, <1>15
    <3>2. CASE ~(Len(c) <= s.at) /\ Len(p) >= n
      <4>1. Len(b) >= n
        BY <3>2, <1>2, <1>12, <1>13, <1>14
      <4>2. s.at + n <= Len(c)
        BY <4>1, <2>6, <1>1, <1>2, <1>16
      <4> QED
        BY <3>2, <4>1, <4>2, <2>4, <1>1, <1>2, <1>15, <1>16
    <3>3. CASE ~(Len(c) <= s.at) /\ ~(Len(p) >= n)
      <4>1. q = Part(c, s.at + Len(p), BufferSize)
        <5>1. ~s.eof
          BY <3>3, <2>5
        <5> QED
          BY <3>3, <5>1, <1>4
      <4>2. s.at + Len(p) \in Nat
        BY <1>1, <1>12
      <4>3. Len(q) = IF Len(c) <= s.at + Len(p) THEN 0
                     ELSE IF (s.at + Len(p)) + BufferSize < Len(c) THEN BufferSize
                     ELSE Len(c) - (s.at + Len(p))
        BY <4>1, <4>2, <1>2, PartIs
      <4>4. s.at + Len(p) <= Len(c)
        <5>1. CASE Len(p) = 0
          BY <5>1, <3>3, <1>1
        <5>2. CASE Len(p) # 0
          <6>1. Len(p) \in 1..Len(p)
            BY <5>2, <1>12
          <6> QED
            BY <6>1, <2>1
        <5> QED
          BY <5>1, <5>2
      <4>5. CASE (s.at + Len(p)) + BufferSize < Len(c)
        <5>1. Len(b) = Len(p) + BufferSize
          BY <4>3, <4>5, <4>4, <1>1, <1>2, <1>12, <1>14
        <5>2. s.at + n < Len(c) /\ n <= Len(b)
          BY <4>5, <5>1, <1>1, <1>2, <1>12
        <5> QED
          BY <5>2, <3>3, <2>4, <1>1, <1>2, <1>15, <1>16
      <4>6. CASE ~((s.at + Len(p)) + BufferSize < Len(c))
        <5>1. Len(b) = Len(c) - s.at
          BY <4>3, <4>4, <4>6, <1>1, <1>2, <1>12, <1>14
        <5> QED
          BY <5>1, <3>3, <2>4, <1>1, <1>2, <1>15, <1>16
      <4> QED
        BY <4>5, <4>6
    <3> QED
      BY <3>1, <3>2, <3>3
  <2>8. \A i \in 1..Len(g) : g[i] = w[i]
    BY <2>2, <2>4, <2>7, <1>15
  <2>9. g = w
    BY <2>4, <2>7, <2>8, <1>15, SameBytes
  <2>10. t.eof => Len(c) <= t.at
    <3>1. Len(g) < n => Len(c) <= y
      BY <2>4, <2>7, <1>1, <1>2, <1>10
    <3>2. Len(c) <= s.at => Len(c) <= y
      BY <1>1, <1>10, <1>16
    <3>3. e => Len(c) <= y
      BY <3>1, <3>2, <2>5, <1>8
    <3>4. t.at = y
      BY <1>17
    <3> QED
      BY ONLY <3>3, <3>4, <1>18, Zenon
  <2>11. \A i \in 1..Len(t.buf) : t.base + i <= Len(c) /\ c[t.base + i] = t.buf[i]
    BY <2>2, <1>1, <1>17
  <2>12. Over(c, t.base, Pending(t)) = c
    BY <1>17 DEF Pending, Over
  <2> QED
    BY <2>3, <2>9, <2>10, <2>11, <2>12, <1>1 DEF Faithful
<1> QED
  BY <1>0, <1>11, <1>17, <1>19, <1>20
(* Whom a step on one object and its file leaves faithful: the file must   *)
(* stay as the object knows it, and as others do if it has any.            *)
LEMMA StreamStep ==
  ASSUME FilesInv, NEW o \in Handle, isOpenFile(o), NEW f, f = object[o].file,
         NEW t, t = Closed \/ (t \in Streams /\ t.file = f /\ StreamOK(t)),
         NEW c \in ByteSeqs, NEW d \in ByteSeqs,
         object' = [object EXCEPT ![o] = t],
         files' = [files EXCEPT ![f] = c], ideal' = [ideal EXCEPT ![f] = d],
         spoiled \subseteq spoiled', ~misread',
         f \notin spoiled' => IF t = Closed THEN c = d ELSE Faithful(t, c, d),
         f \notin spoiled' => \A q \in Handle : q # o /\ Has(q, f)
           => c = files[f] /\ d = ideal[f] /\ (t # Closed => Pending(t) = <<>>),
         UNCHANGED <<names, cwd, checked>>
  PROVE  FilesInv'
<1>1. /\ files \in Seq(ByteSeqs) /\ ideal \in Seq(ByteSeqs) /\ Len(ideal) = Len(files)
      /\ object \in [Handle -> {Closed} \cup Streams]
      /\ \A q \in Handle : isOpenFile(q) => object[q].file \in 1..Len(files) /\ StreamOK(object[q])
  BY DEF FilesInv, FilesTyped
<1>2. f \in 1..Len(files) /\ f \in 1..Len(ideal)
  BY <1>1
<1>3. /\ files' \in Seq(ByteSeqs) /\ Len(files') = Len(files)
      /\ ideal' \in Seq(ByteSeqs) /\ Len(ideal') = Len(ideal)
  BY <1>1, <1>2, ExceptSeq
<1>4. /\ files'[f] = c /\ \A g \in 1..Len(files) : g # f => files'[g] = files[g]
      /\ ideal'[f] = d /\ \A g \in 1..Len(files) : g # f => ideal'[g] = ideal[g]
  <2>1. DOMAIN files = 1..Len(files) /\ DOMAIN ideal = 1..Len(files)
    BY <1>1, LenProperties
  <2> QED
    BY <2>1, <1>2
<1>5. object'[o] = t /\ \A q \in Handle : q # o => object'[q] = object[q]
  BY <1>1
<1>6. object' \in [Handle -> {Closed} \cup Streams]
  BY <1>1
<1>7. t # Closed => t \in Streams /\ t.file = f /\ StreamOK(t)
  OBVIOUS
<1>8. \A q \in Handle : isOpenFile(q)' => object'[q].file \in 1..Len(files') /\ StreamOK(object'[q])
  BY <1>1, <1>2, <1>3, <1>5, <1>7 DEF isOpenFile
<1>9. FilesTyped'
  <2>1. \A p \in Path : names'[p] <= Len(files')
    BY <1>3 DEF FilesInv, FilesTyped
  <2>2. /\ names' \in [Path -> Nat] /\ cwd' \in Dir
        /\ checked' \in [Handle -> {NoCheck} \cup [path : Request, found : BOOLEAN]]
    BY DEF FilesInv, FilesTyped
  <2> QED
    BY <2>1, <2>2, <1>1, <1>3, <1>6, <1>8 DEF FilesTyped
<1>10. \A q \in Handle, g \in 1..Len(files) : q # o => (Has(q, g)' <=> Has(q, g))
  BY <1>5 DEF Has, isOpenFile
<1>11. \A g \in 1..Len(files) : Has(o, g)' <=> t # Closed /\ g = f
  BY <1>5, <1>7 DEF Has, isOpenFile
<1>12. ASSUME NEW g \in 1..Len(files'), g \notin spoiled'
       PROVE  FileFaithful(g)'
  <2>1. g \in 1..Len(files) /\ g \notin spoiled
    BY <1>3, <1>12
  <2>2. /\ (\A q \in Handle : ~Has(q, g)) => files[g] = ideal[g]
        /\ \A q \in Handle : Has(q, g) => Faithful(object[q], files[g], ideal[g])
        /\ \A q, r \in Handle : q # r /\ Has(q, g) /\ Has(r, g) => Pending(object[q]) = <<>>
    BY <2>1 DEF FilesInv, FilesFaithful, FileFaithful
  <2>3. CASE g = f
    <3>1. \A q \in Handle : q # o /\ Has(q, f)'
            => c = files[f] /\ d = ideal[f] /\ (t # Closed => Pending(t) = <<>>)
      BY <2>1, <2>3, <1>10, <1>12
    <3>2. (\A q \in Handle : ~Has(q, f)') => c = d
      <4>1. CASE t = Closed
        BY <4>1, <2>3, <1>12
      <4>2. CASE t # Closed
        BY <4>2, <2>1, <2>3, <1>11
      <4> QED
        BY <4>1, <4>2
    <3>3. ASSUME NEW q \in Handle, Has(q, f)'
          PROVE  Faithful(object'[q], c, d)
      <4>1. CASE q = o
        BY <4>1, <3>3, <2>1, <2>3, <1>5, <1>11, <1>12
      <4>2. CASE q # o
        <5>1. Has(q, f) /\ c = files[f] /\ d = ideal[f] /\ object'[q] = object[q]
          BY <4>2, <3>1, <3>3, <2>1, <2>3, <1>5, <1>10
        <5> QED
          BY <5>1, <2>2, <2>3
      <4> QED
        BY <4>1, <4>2
    <3>4. ASSUME NEW q \in Handle, NEW r \in Handle, q # r, Has(q, f)', Has(r, f)'
          PROVE  Pending(object'[q]) = <<>>
      <4>1. CASE q = o
        <5>1. t # Closed /\ object'[q] = t
          BY <4>1, <3>4, <2>1, <2>3, <1>5, <1>11
        <5> QED
          BY <5>1, <4>1, <3>1, <3>4
      <4>2. CASE q # o
        <5>1. Has(q, f) /\ object'[q] = object[q]
          BY <4>2, <3>4, <2>1, <2>3, <1>5, <1>10
        <5>2. Has(r, f)
          <6>1. CASE r = o
            BY <6>1 DEF Has
          <6>2. CASE r # o
            BY <6>2, <3>4, <2>1, <2>3, <1>10
          <6> QED
            BY <6>1, <6>2
        <5> QED
          BY <5>1, <5>2, <3>4, <2>2, <2>3
      <4> QED
        BY <4>1, <4>2
    <3> QED
      BY <3>2, <3>3, <3>4, <2>3, <1>4 DEF FileFaithful
  <2>4. CASE g # f
    <3>1. \A q \in Handle : Has(q, g)' <=> Has(q, g)
      <4>1. ~Has(o, g)
        BY <2>4 DEF Has
      <4> QED
        BY <4>1, <2>1, <2>4, <1>10, <1>11
    <3>2. \A q \in Handle : Has(q, g) => object'[q] = object[q]
      BY <2>4, <1>5 DEF Has
    <3>3. files'[g] = files[g] /\ ideal'[g] = ideal[g]
      BY <2>1, <2>4, <1>4
    <3> QED
      BY <3>1, <3>2, <3>3, <2>2 DEF FileFaithful
  <2> QED
    BY <2>3, <2>4
<1> QED
  BY <1>9, <1>12 DEF FilesInv, FilesFaithful
(* An object that is open, and its file.                                   *)
LEMMA OpenIs ==
  ASSUME FilesInv, NEW o \in Handle, isOpenFile(o), NEW s, s = object[o], NEW f, f = s.file
  PROVE  /\ s \in Streams /\ StreamOK(s) /\ f \in 1..Len(files) /\ Has(o, f)
         /\ files[f] \in ByteSeqs /\ ideal[f] \in ByteSeqs
         /\ f \notin spoiled => Faithful(s, files[f], ideal[f])
         /\ f \notin spoiled => \A q \in Handle : q # o /\ Has(q, f) => Pending(s) = <<>>
         /\ ~misread
<1>1. /\ files \in Seq(ByteSeqs) /\ ideal \in Seq(ByteSeqs) /\ Len(ideal) = Len(files)
      /\ object \in [Handle -> {Closed} \cup Streams]
      /\ \A q \in Handle : isOpenFile(q) => object[q].file \in 1..Len(files) /\ StreamOK(object[q])
  BY DEF FilesInv, FilesTyped
<1>2. s \in Streams /\ StreamOK(s) /\ f \in 1..Len(files) /\ Has(o, f)
  BY <1>1 DEF isOpenFile, Has
<1>3. files[f] \in ByteSeqs /\ ideal[f] \in ByteSeqs
  BY <1>1, <1>2, ElementOfSeq
<1>4. f \notin spoiled => FileFaithful(f)
  BY <1>2 DEF FilesInv, FilesFaithful
<1> QED
  BY <1>2, <1>3, <1>4 DEF FileFaithful, FilesInv, FilesFaithful

(* A write that two objects see spoils the file.                           *)
LEMMA EyesAlone ==
  ASSUME NEW o \in Handle, isOpenFile(o), object[o].file \notin Eyes(object[o])
  PROVE  \A q \in Handle : q # o => ~Has(q, object[o].file)
<1>1. PICK f : f = object[o].file
  OBVIOUS
<1>2. SUFFICES ASSUME NEW q \in Handle, q # o, Has(q, f)
               PROVE  FALSE
  BY <1>1
<1>3. Sharing(f) \subseteq Handle /\ o \in Sharing(f) /\ q \in Sharing(f)
  BY <1>1, <1>2 DEF Sharing, Has
<1>4. IsFiniteSet(Sharing(f))
  BY <1>3, FS_Subset, FilesAssumption
<1>5. IsFiniteSet({o}) /\ Cardinality({o}) = 1
  BY FS_Singleton
<1>6. Cardinality({o} \cup {q}) = 2
  <2>1. q \notin {o}
    BY <1>2
  <2>2. Cardinality({o} \cup {q}) = Cardinality({o}) + 1
    BY <2>1, <1>5, FS_AddElement
  <2>3. PICK m : m = Cardinality({o})
    OBVIOUS
  <2>4. m = 1 /\ Cardinality({o} \cup {q}) = m + 1
    BY ONLY <2>2, <2>3, <1>5
  <2> QED
    BY ONLY <2>4
<1>7. Cardinality({o} \cup {q}) <= Cardinality(Sharing(f))
  BY <1>3, <1>4, FS_Subset
<1>8. Cardinality(Sharing(f)) \in Nat
  BY <1>4, FS_CardinalityType
<1>9. Cardinality(Sharing(f)) > 1
  BY <1>6, <1>7, <1>8
<1> QED
  BY <1>1, <1>9 DEF Eyes

(* The bytes a client writes.                                              *)
LEMMA DataIs ==
  ASSUME NEW b \in Data
  PROVE  b \in ByteSeqs /\ b # <<>> /\ Len(b) \in Nat
<1>1. b \in ByteSeqs /\ b # <<>>
  BY FilesAssumption DEF ByteSeqs
<1> QED
  BY <1>1, LenProperties DEF ByteSeqs

(* What is written through a stream, passed on or held back.               *)
LEMMA BufferedWriteKeeps ==
  ASSUME FilesInv, NEW o \in Handle, NEW b \in Data, BufferedWrite(o, b)
  PROVE  FilesInv'
<1>1. PICK s : s = object[o]
  OBVIOUS
<1>2. PICK f : f = s.file
  OBVIOUS
<1>3. isOpenFile(o) /\ s.kind = "buffered"
  BY <1>1 DEF BufferedWrite
<1>4. /\ s \in Streams /\ StreamOK(s) /\ f \in 1..Len(files)
      /\ files[f] \in ByteSeqs /\ ideal[f] \in ByteSeqs
      /\ f \notin spoiled => Faithful(s, files[f], ideal[f])
      /\ ~misread
  BY <1>1, <1>2, <1>3, OpenIs
<1>5. PICK t : t = Put(s, b)
  OBVIOUS
<1>6. b \in ByteSeqs /\ b # <<>>
  BY DataIs
<1>7. t \in Streams /\ StreamOK(t) /\ t.file = f /\ t.mode = "put"
  BY <1>2, <1>3, <1>4, <1>5, <1>6, PutIs
<1>8. PICK k \in 0..Len(t.buf) :
        /\ files' = Flushed(t, k)
        /\ object' = [object EXCEPT ![o] = Passed(t, k)]
  BY <1>1, <1>5 DEF BufferedWrite
<1>9. /\ ideal' = [ideal EXCEPT ![f] = Over(ideal[f], s.place, b)]
      /\ spoiled' = spoiled \cup Eyes(s)
      /\ UNCHANGED <<names, cwd, checked, misread>>
  BY <1>1, <1>2 DEF BufferedWrite
<1>10. PICK u : u = Passed(t, k)
  OBVIOUS
<1>11. u \in Streams /\ StreamOK(u) /\ u.file = f
  BY <1>7, <1>8, <1>10, PassedIs
<1>12. PICK c : c = Over(files[f], t.base, SubSeq(t.buf, 1, k))
  OBVIOUS
<1>13. PICK d : d = Over(ideal[f], s.place, b)
  OBVIOUS
<1>14. c \in ByteSeqs /\ d \in ByteSeqs
  <2>1. t.buf \in ByteSeqs /\ t.base \in Nat /\ s.place \in Nat
    BY <1>4, <1>7, StreamFields
  <2>2. SubSeq(t.buf, 1, k) \in ByteSeqs
    BY <2>1, <1>8, TakenApart
  <2> QED
    BY <2>1, <2>2, <1>4, <1>6, <1>12, <1>13, OverIs
<1>15. files' = [files EXCEPT ![f] = c] /\ ideal' = [ideal EXCEPT ![f] = d]
  BY <1>7, <1>8, <1>9, <1>12, <1>13 DEF Flushed, Pending
<1>16. ASSUME f \notin spoiled'
       PROVE  Faithful(u, c, d) /\ \A q \in Handle : q # o => ~Has(q, f)
  <2>1. f \notin spoiled /\ f \notin Eyes(s)
    BY <1>9, <1>16
  <2>2. Faithful(s, files[f], ideal[f])
    BY <2>1, <1>4
  <2>3. Over(files[f], t.base, t.buf) = d /\ (t.eof => Len(d) <= t.at)
    BY <2>2, <1>3, <1>4, <1>5, <1>6, <1>13, PutFaithful
  <2>4. Faithful(u, c, d)
    BY <2>3, <1>4, <1>7, <1>8, <1>10, <1>12, <1>14, PassedFaithful
  <2> QED
    BY <2>1, <2>4, <1>1, <1>2, <1>3, EyesAlone
<1>17. u # Closed
  BY <1>11, StreamFields
<1>18. object' = [object EXCEPT ![o] = u] /\ spoiled \subseteq spoiled' /\ ~misread'
  BY <1>4, <1>8, <1>9, <1>10
<1>19. UNCHANGED <<names, cwd, checked>>
  BY <1>9
<1> QED
  BY <1>1, <1>2, <1>3, <1>11, <1>14, <1>15, <1>16, <1>17, <1>18, <1>19, StreamStep

(* What a refusal costs is not promised, only that the stream is in order. *)
LEMMA BufferedWriteRefusedKeeps ==
  ASSUME FilesInv, NEW o \in Handle, NEW b \in Data, BufferedWriteRefused(o, b)
  PROVE  FilesInv'
<1>1. PICK s : s = object[o]
  OBVIOUS
<1>2. PICK f : f = s.file
  OBVIOUS
<1>3. isOpenFile(o) /\ s.kind = "buffered"
  BY <1>1 DEF BufferedWriteRefused
<1>4. /\ s \in Streams /\ StreamOK(s) /\ f \in 1..Len(files)
      /\ files[f] \in ByteSeqs /\ ideal[f] \in ByteSeqs /\ ~misread
  BY <1>1, <1>2, <1>3, OpenIs
<1>5. PICK t : t = Put(s, b)
  OBVIOUS
<1>6. b \in ByteSeqs /\ b # <<>>
  BY DataIs
<1>7. t \in Streams /\ StreamOK(t) /\ t.file = f /\ t.mode = "put"
  BY <1>2, <1>3, <1>4, <1>5, <1>6, PutIs
<1>8. PICK k \in Taken(t) :
        /\ Refused(t, k)
        /\ files' = Flushed(t, k)
        /\ object' = [object EXCEPT ![o] = [Emptied(t) EXCEPT !.at = t.base + k, !.place = t.base + k]]
        /\ Count(t, k)
  BY <1>1, <1>5 DEF BufferedWriteRefused
<1>9. Pending(t) = t.buf /\ t.buf \in ByteSeqs /\ Len(t.buf) \in Nat /\ t.base \in Nat
  BY <1>7, StreamFields, LenProperties DEF Pending, ByteSeqs
<1>10. k \in 0..Len(t.buf) /\ k \in Nat /\ f \in spoiled' /\ spoiled \subseteq spoiled'
  BY <1>7, <1>8, <1>9 DEF Taken, Refused, Count
<1>11. PICK u, x : u = [Emptied(t) EXCEPT !.at = t.base + k, !.place = t.base + k] /\ x = t.base + k
  OBVIOUS
<1>12. u \in Streams /\ StreamOK(u) /\ u.file = f
  <2>1. PICK v : v = Emptied(t)
    OBVIOUS
  <2>2. v \in Streams /\ v.file = f /\ v.mode = "idle" /\ x \in Nat
    BY <2>1, <1>7, <1>9, <1>10, <1>11, DrainedIs
  <2>3. u = [v EXCEPT !.at = x, !.place = x]
    BY <2>1, <1>11
  <2>4. u \in Streams /\ u.file = f /\ u.mode = "idle" /\ u.at = x /\ u.place = x
    BY ONLY <2>2, <2>3 DEF Streams
  <2> QED
    BY <2>4 DEF StreamOK
<1>13. PICK c : c = Over(files[f], t.base, SubSeq(t.buf, 1, k))
  OBVIOUS
<1>14. c \in ByteSeqs
  <2>1. SubSeq(t.buf, 1, k) \in ByteSeqs
    BY <1>9, <1>10, TakenApart
  <2> QED
    BY <2>1, <1>4, <1>9, <1>13, OverIs
<1>15. files' = [files EXCEPT ![f] = c]
  BY <1>7, <1>8, <1>9, <1>13 DEF Flushed
<1>16. UNCHANGED <<names, cwd, checked, ideal, misread>>
  BY DEF BufferedWriteRefused
<1>17. PICK d : d = ideal[f]
  OBVIOUS
<1>18. ideal' = [ideal EXCEPT ![f] = d]
  BY <1>16, <1>17 DEF FilesInv, FilesTyped
<1>19. object' = [object EXCEPT ![o] = u] /\ ~misread' /\ d \in ByteSeqs
  BY <1>4, <1>8, <1>11, <1>16, <1>17
<1> QED
  BY <1>1, <1>2, <1>3, <1>10, <1>12, <1>14, <1>15, <1>16, <1>18, <1>19, StreamStep
(* What is written past streams, as far as the kernel takes it.            *)
LEMMA PlainWriteKeeps ==
  ASSUME FilesInv, NEW o \in Handle, NEW b \in Data, PlainWrite(o, b)
  PROVE  FilesInv'
<1>1. PICK s : s = object[o]
  OBVIOUS
<1>2. PICK f : f = s.file
  OBVIOUS
<1>3. isOpenFile(o) /\ s.kind = "plain"
  BY <1>1 DEF PlainWrite
<1>4. /\ s \in Streams /\ StreamOK(s) /\ f \in 1..Len(files)
      /\ files[f] \in ByteSeqs /\ ideal[f] \in ByteSeqs
      /\ f \notin spoiled => Faithful(s, files[f], ideal[f])
      /\ ~misread
  BY <1>1, <1>2, <1>3, OpenIs
<1>5. PICK t : t = Put(s, b)
  OBVIOUS
<1>6. b \in ByteSeqs /\ b # <<>> /\ Len(b) \in Nat
  BY DataIs
<1>7. s.mode = "idle" /\ s.place = s.at /\ s.at \in Nat /\ Pending(s) = <<>>
  BY <1>3, <1>4, StreamFields DEF StreamOK, Pending
<1>8. t \in Streams /\ t.file = f /\ t.mode = "put" /\ t.base = s.at /\ t.buf = b
  <2>1. <<>> \o b = b
    BY <1>6, ConcatEmptySeq DEF ByteSeqs
  <2> QED
    <3>1. /\ t \in Streams /\ t.file = s.file /\ t.mode = "put" /\ t.buf = Pending(s) \o b
          /\ t.base = IF s.mode = "put" THEN s.base ELSE s.at
      BY <1>4, <1>5, <1>6, <1>7, PutIs
    <3>2. s.mode # "put"
      BY <1>7
    <3> QED
      BY <3>1, <3>2, <2>1, <1>2, <1>7
<1>9. Pending(t) = b
  BY <1>8 DEF Pending
<1>10. PICK k \in Taken(t) :
         /\ k > 0
         /\ files' = Flushed(t, k)
         /\ object' = [object EXCEPT ![o].at = @ + k, ![o].place = @ + k]
         /\ ideal' = [ideal EXCEPT ![s.file] = Over(@, s.place, SubSeq(b, 1, k))]
  BY <1>1, <1>5 DEF PlainWrite
<1>11. k \in 0..Len(b) /\ k \in Nat
  BY <1>6, <1>9, <1>10 DEF Taken
<1>12. PICK w : w = SubSeq(b, 1, k)
  OBVIOUS
<1>13. w \in ByteSeqs /\ Len(w) = k /\ w # <<>>
  <2>1. w \in ByteSeqs /\ Len(w) = k
    BY <1>6, <1>11, <1>12, TakenApart
  <2>2. Len(w) # 0
    BY <2>1, <1>10, <1>11
  <2> QED
    BY <2>1, <2>2, EmptySeq
<1>14. PICK c : c = Over(files[f], s.at, w)
  OBVIOUS
<1>15. PICK d : d = Over(ideal[f], s.at, w)
  OBVIOUS
<1>16. c \in ByteSeqs /\ d \in ByteSeqs
  BY <1>4, <1>7, <1>13, <1>14, <1>15, OverIs
<1>17. files' = [files EXCEPT ![f] = c] /\ ideal' = [ideal EXCEPT ![f] = d]
  BY <1>2, <1>7, <1>8, <1>9, <1>10, <1>12, <1>14, <1>15 DEF Flushed
<1>18. PICK y : y = s.at + k
  OBVIOUS
<1>19. PICK u : u = [s EXCEPT !.at = y, !.place = y]
  OBVIOUS
<1>20. y \in Nat
  BY <1>7, <1>11, <1>18
<1>21. /\ u \in Streams /\ u.file = f /\ u.mode = "idle" /\ u.at = y /\ u.place = y /\ u.base = s.base
       /\ u.buf = s.buf
  BY ONLY <1>2, <1>4, <1>7, <1>19, <1>20 DEF Streams
<1>22. StreamOK(u) /\ u # Closed /\ Pending(u) = <<>>
  BY <1>21, StreamFields DEF StreamOK, Pending
<1>23. object' = [object EXCEPT ![o] = u]
  <2>1. [s EXCEPT !.at = @ + k, !.place = @ + k] = u
    BY <1>4, <1>7, <1>18, <1>19 DEF Streams
  <2>2. object \in [Handle -> {Closed} \cup Streams]
    BY DEF FilesInv, FilesTyped
  <2>3. object' = [object EXCEPT ![o] = [s EXCEPT !.at = @ + k, !.place = @ + k]]
    BY <2>2, <1>1, <1>4, <1>10 DEF Streams
  <2> QED
    BY <2>1, <2>3
<1>24. spoiled' = spoiled \cup Eyes(s) /\ UNCHANGED <<names, cwd, checked, misread>>
  BY <1>1 DEF PlainWrite
<1>25. ASSUME f \notin spoiled'
       PROVE  Faithful(u, c, d) /\ \A q \in Handle : q # o => ~Has(q, f)
  <2>1. f \notin spoiled /\ f \notin Eyes(s)
    BY <1>24, <1>25
  <2>2. Faithful(s, files[f], ideal[f])
    BY <2>1, <1>4
  <2>3. files[f] = ideal[f]
    BY <2>2, <1>7 DEF Faithful, Over
  <2>4. Over(c, u.base, Pending(u)) = d
    BY <2>3, <1>14, <1>15, <1>22 DEF Over
  <2>5. Len(ideal[f]) <= s.at => Len(d) <= u.at
    <3>1. Len(d) = IF s.at + k > Len(ideal[f]) THEN s.at + k ELSE Len(ideal[f])
      BY <1>4, <1>7, <1>13, <1>15, OverIs
    <3>2. Len(ideal[f]) \in Nat
      BY <1>4, LenProperties DEF ByteSeqs
    <3> QED
      BY <3>1, <3>2, <1>7, <1>11, <1>18, <1>21
  <2>6. u.eof => s.eof
    BY ONLY <1>4, <1>19 DEF Streams
  <2>7. s.eof => Len(ideal[f]) <= s.at
    BY <2>2 DEF Faithful
  <2>8. u.eof => Len(d) <= u.at
    BY <2>5, <2>6, <2>7
  <2>9. Faithful(u, c, d)
    BY <2>4, <2>8, <1>21 DEF Faithful
  <2> QED
    BY <2>1, <2>9, <1>1, <1>2, <1>3, EyesAlone
<1>26. spoiled \subseteq spoiled' /\ ~misread'
  BY <1>4, <1>24
<1>27. UNCHANGED <<names, cwd, checked>>
  BY <1>24
<1> QED
  BY <1>1, <1>2, <1>3, <1>16, <1>17, <1>21, <1>22, <1>23, <1>25, <1>26, <1>27, StreamStep

(* What flushing a stream does to its file.                                *)
LEMMA FlushIs ==
  ASSUME FilesInv, NEW o \in Handle, isOpenFile(o), NEW s, s = object[o], NEW f, f = s.file,
         NEW k \in Taken(s)
  PROVE  \E c \in ByteSeqs :
           /\ Flushed(s, k) = [files EXCEPT ![f] = c] /\ Flushed(s, k)[f] = c
           /\ ~Refused(s, k) /\ f \notin spoiled =>
                /\ c = ideal[f] /\ Faithful(Emptied(s), c, c)
                /\ \A q \in Handle : q # o /\ Has(q, f) => c = files[f]
<1>1. /\ s \in Streams /\ StreamOK(s) /\ f \in 1..Len(files)
      /\ files[f] \in ByteSeqs /\ ideal[f] \in ByteSeqs
      /\ f \notin spoiled => Faithful(s, files[f], ideal[f])
      /\ f \notin spoiled => \A q \in Handle : q # o /\ Has(q, f) => Pending(s) = <<>>
  BY OpenIs
<1>2. Pending(s) \in ByteSeqs /\ Len(Pending(s)) \in Nat /\ s.base \in Nat
  BY <1>1, PendingIs, StreamFields
<1>3. k \in 0..Len(Pending(s))
  BY <1>2 DEF Taken
<1>4. PICK w : w = SubSeq(Pending(s), 1, k)
  OBVIOUS
<1>5. w \in ByteSeqs
  BY <1>2, <1>3, <1>4, TakenApart
<1>6. PICK c : c = Over(files[f], s.base, w)
  OBVIOUS
<1>7. c \in ByteSeqs
  BY <1>1, <1>2, <1>5, <1>6, OverIs
<1>8. Flushed(s, k) = [files EXCEPT ![f] = c]
  BY <1>4, <1>6 DEF Flushed
<1>9. DOMAIN files = 1..Len(files)
  BY LenProperties DEF FilesInv, FilesTyped
<1>10. Flushed(s, k)[f] = c
  BY <1>1, <1>8, <1>9
<1>11. ASSUME ~Refused(s, k), f \notin spoiled
       PROVE  /\ c = ideal[f] /\ Faithful(Emptied(s), c, c)
              /\ \A q \in Handle : q # o /\ Has(q, f) => c = files[f]
  <2>1. k = Len(Pending(s))
    BY <1>2, <1>3, <1>11 DEF Refused
  <2>2. c = ideal[f] /\ Faithful(Emptied(s), c, c)
    BY <2>1, <1>1, <1>4, <1>6, <1>11, DrainedFaithful
  <2>3. Pending(s) = <<>> => c = files[f]
    <3>1. Faithful(s, files[f], ideal[f])
      BY <1>1, <1>11
    <3> QED
      BY <3>1, <2>2 DEF Faithful, Over
  <2> QED
    BY <2>2, <2>3, <1>1, <1>11
<1> QED
  BY <1>7, <1>8, <1>10, <1>11
(* A read through a stream gives what the file should have there.          *)
LEMMA BufferedReadKeeps ==
  ASSUME FilesInv, NEW o \in Handle, NEW n \in Lengths, BufferedRead(o, n)
  PROVE  FilesInv'
<1>1. PICK s : s = object[o]
  OBVIOUS
<1>2. PICK f : f = s.file
  OBVIOUS
<1>3. isOpenFile(o) /\ s.kind = "buffered"
  BY <1>1 DEF BufferedRead
<1>4. s \in Streams /\ StreamOK(s) /\ f \in 1..Len(files) /\ ideal[f] \in ByteSeqs /\ ~misread
  BY <1>1, <1>2, <1>3, OpenIs
<1>5. PICK v : v = Emptied(s)
  OBVIOUS
<1>6. /\ v \in Streams /\ StreamOK(v) /\ v.kind = s.kind /\ v.file = f /\ v.place = s.place
      /\ v.mode # "put" /\ Pending(v) = <<>>
  <2>1. /\ v \in Streams /\ StreamOK(v) /\ v.kind = s.kind /\ v.file = f /\ v.place = s.place
        /\ Pending(v) = <<>>
    BY <1>2, <1>4, <1>5, DrainedIs
  <2>2. v.mode # "put"
    BY <1>4, <1>5, DrainedIs
  <2> QED
    BY <2>1, <2>2
<1>7. PICK k \in Taken(s) :
        /\ files' = Flushed(s, k)
        /\ Count(s, k)
        /\ \/ /\ ~Refused(s, k)
              /\ misread' = (misread \/ Misread(s, n, fread(v, n, Flushed(s, k)[f]).given))
              /\ object' = [object EXCEPT ![o] =
                   [fread(v, n, Flushed(s, k)[f]).stream EXCEPT
                      !.place = @ + Len(fread(v, n, Flushed(s, k)[f]).given)]]
           \/ /\ Refused(s, k)
              /\ misread' = misread
              /\ object' = [object EXCEPT ![o] = [v EXCEPT !.eof = TRUE]]
  BY <1>1, <1>2, <1>5 DEF BufferedRead
<1>8. PICK c \in ByteSeqs :
        /\ Flushed(s, k) = [files EXCEPT ![f] = c] /\ Flushed(s, k)[f] = c
        /\ ~Refused(s, k) /\ f \notin spoiled =>
             /\ c = ideal[f] /\ Faithful(v, c, c)
             /\ \A q \in Handle : q # o /\ Has(q, f) => c = files[f]
  <2>1. k \in Taken(s)
    BY <1>7
  <2>2. \E c \in ByteSeqs :
          /\ Flushed(s, k) = [files EXCEPT ![f] = c] /\ Flushed(s, k)[f] = c
          /\ ~Refused(s, k) /\ f \notin spoiled =>
               /\ c = ideal[f] /\ Faithful(Emptied(s), c, c)
               /\ \A q \in Handle : q # o /\ Has(q, f) => c = files[f]
    BY ONLY <2>1, <1>1, <1>2, <1>3, FilesInv, o \in Handle, FlushIs
  <2> QED
    BY <2>2, <1>5
<1>9. PICK d : d = ideal[f]
  OBVIOUS
<1>10. d \in ByteSeqs /\ UNCHANGED <<names, cwd, checked, ideal>>
  BY <1>4, <1>9 DEF BufferedRead
<1>11. ideal' = [ideal EXCEPT ![f] = d] /\ files' = [files EXCEPT ![f] = c]
  BY <1>7, <1>8, <1>9, <1>10 DEF FilesInv, FilesTyped
<1>12. spoiled \subseteq spoiled' /\ (Refused(s, k) => f \in spoiled')
  BY <1>2, <1>7 DEF Count
<1>13. UNCHANGED <<names, cwd, checked>>
  BY <1>10
<1>14. CASE ~Refused(s, k)
  <2>1. PICK r : r = fread(v, n, c)
    OBVIOUS
  <2>2. PICK t : t = Advanced(r)
    OBVIOUS
  <2>3. /\ t \in Streams /\ StreamOK(t) /\ t.file = f /\ t.mode = "got"
        /\ Faithful(v, c, c) => r.given = Part(c, v.place, n) /\ Faithful(t, c, c)
    <3>1. v.kind = "buffered"
      BY <1>3, <1>6
    <3>2. /\ t \in Streams /\ StreamOK(t) /\ t.file = v.file /\ t.mode = "got"
          /\ Faithful(v, c, c) /\ v.mode # "put"
               => r.given = Part(c, v.place, n) /\ Faithful(t, c, c)
      <4>1. /\ v \in Streams /\ StreamOK(v) /\ v.kind = "buffered" /\ c \in ByteSeqs /\ n \in Lengths
            /\ r = fread(v, n, c)
        BY <3>1, <2>1, <1>6
      <4>2. /\ Advanced(r) \in Streams /\ StreamOK(Advanced(r))
            /\ Advanced(r).file = v.file /\ Advanced(r).mode = "got"
            /\ Faithful(v, c, c) /\ v.mode # "put"
                 => r.given = Part(c, v.place, n) /\ Faithful(Advanced(r), c, c)
        BY <4>1, FreadIs
      <4> QED
        BY <4>2, <2>2
    <3> QED
      BY <3>2, <1>6
  <2>4. object' = [object EXCEPT ![o] = t] /\ misread' = (misread \/ Misread(s, n, r.given))
    BY <2>1, <2>2, <1>7, <1>8, <1>14 DEF Advanced
  <2>5. ASSUME f \notin spoiled
        PROVE  Faithful(t, c, d) /\ r.given = Part(d, s.place, n)
               /\ \A q \in Handle : q # o /\ Has(q, f) => c = files[f]
    BY <2>3, <2>5, <1>6, <1>8, <1>9, <1>14
  <2>6. ~Misread(s, n, r.given)
    BY <2>5, <1>2, <1>9 DEF Misread
  <2>7. ~misread' /\ t # Closed /\ Pending(t) = <<>>
    BY <2>3, <2>4, <2>6, <1>4, StreamFields DEF Pending
  <2>8. f \notin spoiled' => f \notin spoiled
    BY <1>12
  <2>9. f \notin spoiled' => IF t = Closed THEN c = d ELSE Faithful(t, c, d)
    BY <2>5, <2>7, <2>8
  <2>10. f \notin spoiled' => \A q \in Handle : q # o /\ Has(q, f)
           => c = files[f] /\ d = ideal[f] /\ (t # Closed => Pending(t) = <<>>)
    BY <2>5, <2>7, <2>8, <1>9
  <2>11. f = object[o].file /\ object' = [object EXCEPT ![o] = t] /\ spoiled \subseteq spoiled'
    BY <2>4, <1>1, <1>2, <1>12
  <2> QED
    BY ONLY <2>3, <2>7, <2>9, <2>10, <2>11, <1>3, <1>10, <1>11, <1>13, c \in ByteSeqs, o \in Handle,
            FilesInv, StreamStep
<1>15. CASE Refused(s, k)
  <2>1. PICK t : t = [v EXCEPT !.eof = TRUE]
    OBVIOUS
  <2>2. /\ t \in Streams /\ t.file = f /\ t.kind = v.kind /\ t.mode = v.mode /\ t.base = v.base
        /\ t.buf = v.buf /\ t.at = v.at /\ t.place = v.place
    BY ONLY <2>1, <1>6 DEF Streams
  <2>3. StreamOK(t)
    BY <2>2, <1>6 DEF StreamOK
  <2>4. object' = [object EXCEPT ![o] = t] /\ ~misread'
    BY <2>1, <1>4, <1>7, <1>15
  <2> QED
    BY <2>2, <2>3, <2>4, <1>1, <1>2, <1>3, <1>10, <1>11, <1>12, <1>13, <1>15, StreamStep
<1> QED
  BY <1>14, <1>15

(* So does a read from the descriptor.                                     *)
LEMMA PlainReadKeeps ==
  ASSUME FilesInv, NEW o \in Handle, NEW n \in Lengths, PlainRead(o, n)
  PROVE  FilesInv'
<1>1. PICK s : s = object[o]
  OBVIOUS
<1>2. PICK f : f = s.file
  OBVIOUS
<1>3. isOpenFile(o) /\ s.kind = "plain"
  BY <1>1 DEF PlainRead
<1>4. /\ s \in Streams /\ StreamOK(s) /\ f \in 1..Len(files)
      /\ files[f] \in ByteSeqs /\ ideal[f] \in ByteSeqs
      /\ f \notin spoiled => Faithful(s, files[f], ideal[f])
      /\ ~misread
  BY <1>1, <1>2, <1>3, OpenIs
<1>5. s.mode = "idle" /\ s.place = s.at /\ s.at \in Nat /\ n \in Nat
  BY <1>3, <1>4, StreamFields, FilesAssumption DEF StreamOK
<1>6. PICK c, d : c = files[f] /\ d = ideal[f]
  OBVIOUS
<1>7. PICK g : g = Part(c, s.at, n)
  OBVIOUS
<1>8. g \in ByteSeqs /\ Len(g) \in Nat
  <2>1. g \in ByteSeqs
    BY <1>4, <1>5, <1>6, <1>7, PartIs
  <2> QED
    BY <2>1, LenProperties DEF ByteSeqs
<1>9. /\ misread' = (misread \/ Misread(s, n, g))
      /\ object' = [object EXCEPT ![o].at = @ + Len(g), ![o].place = @ + Len(g)]
      /\ UNCHANGED <<names, files, cwd, checked, ideal, spoiled>>
  BY <1>1, <1>2, <1>6, <1>7 DEF PlainRead
<1>10. PICK y : y = s.at + Len(g)
  OBVIOUS
<1>11. PICK u : u = [s EXCEPT !.at = y, !.place = y]
  OBVIOUS
<1>12. y \in Nat
  BY <1>5, <1>8, <1>10
<1>13. /\ u \in Streams /\ u.file = f /\ u.mode = "idle" /\ u.at = y /\ u.place = y /\ u.base = s.base
       /\ u.buf = s.buf
  BY ONLY <1>2, <1>4, <1>5, <1>11, <1>12 DEF Streams
<1>14. StreamOK(u) /\ u # Closed /\ Pending(u) = <<>>
  BY <1>13, StreamFields DEF StreamOK, Pending
<1>15. object' = [object EXCEPT ![o] = u]
  <2>1. [s EXCEPT !.at = @ + Len(g), !.place = @ + Len(g)] = u
    BY <1>4, <1>5, <1>10, <1>11 DEF Streams
  <2>2. object \in [Handle -> {Closed} \cup Streams]
    BY DEF FilesInv, FilesTyped
  <2>3. object' = [object EXCEPT ![o] = [s EXCEPT !.at = @ + Len(g), !.place = @ + Len(g)]]
    BY <2>2, <1>1, <1>4, <1>9 DEF Streams
  <2> QED
    BY <2>1, <2>3
<1>16. ASSUME f \notin spoiled
       PROVE  Faithful(u, c, d) /\ c = d
  <2>1. Faithful(s, c, d)
    BY <1>4, <1>6, <1>16
  <2>2. c = d
    BY <2>1, <1>5 DEF Faithful, Pending, Over
  <2>3. Over(c, u.base, Pending(u)) = d
    BY <2>2, <1>14 DEF Over
  <2>4. u.eof => s.eof
    BY ONLY <1>4, <1>11 DEF Streams
  <2>5. s.eof => Len(d) <= s.at
    BY <2>1 DEF Faithful
  <2>6. Len(d) \in Nat
    BY <1>4, <1>6, LenProperties DEF ByteSeqs
  <2>7. Len(d) <= s.at => Len(d) <= u.at
    BY <2>6, <1>5, <1>8, <1>10, <1>13
  <2>8. u.eof => Len(d) <= u.at
    BY <2>4, <2>5, <2>7
  <2> QED
    BY <2>2, <2>3, <2>8, <1>13 DEF Faithful
<1>17. ~Misread(s, n, g)
  BY <1>2, <1>5, <1>6, <1>7, <1>16 DEF Misread
<1>18. files' = [files EXCEPT ![f] = c] /\ ideal' = [ideal EXCEPT ![f] = d] /\ c \in ByteSeqs /\ d \in ByteSeqs
  BY <1>4, <1>6, <1>9 DEF FilesInv, FilesTyped
<1>19. ~misread' /\ spoiled' = spoiled /\ UNCHANGED <<names, cwd, checked>>
  BY <1>4, <1>9, <1>17
<1> QED
  BY <1>1, <1>2, <1>3, <1>6, <1>13, <1>14, <1>15, <1>16, <1>18, <1>19, StreamStep

(* fclose writes what is held back, and the file is as it should be.       *)
LEMMA closeKeeps ==
  ASSUME FilesInv, NEW o \in Handle, closeFile(o)
  PROVE  FilesInv'
<1>1. PICK s : s = object[o]
  OBVIOUS
<1>2. PICK f : f = s.file
  OBVIOUS
<1>3. isOpenFile(o)
  BY DEF closeFile
<1>4. s \in Streams /\ StreamOK(s) /\ f \in 1..Len(files) /\ ideal[f] \in ByteSeqs /\ ~misread
  BY <1>1, <1>2, <1>3, OpenIs
<1>5. PICK k \in Taken(s) : files' = Flushed(s, k) /\ Count(s, k)
  BY <1>1 DEF closeFile
<1>6. PICK c \in ByteSeqs :
        /\ Flushed(s, k) = [files EXCEPT ![f] = c]
        /\ ~Refused(s, k) /\ f \notin spoiled =>
             /\ c = ideal[f]
             /\ \A q \in Handle : q # o /\ Has(q, f) => c = files[f]
  BY <1>1, <1>2, <1>3, <1>5, FlushIs
<1>7. object' = [object EXCEPT ![o] = Closed] /\ UNCHANGED <<names, cwd, checked, ideal, misread>>
  BY DEF closeFile
<1>8. PICK d : d = ideal[f]
  OBVIOUS
<1>9. ideal' = [ideal EXCEPT ![f] = d] /\ files' = [files EXCEPT ![f] = c] /\ d \in ByteSeqs
  BY <1>4, <1>5, <1>6, <1>7, <1>8 DEF FilesInv, FilesTyped
<1>10. spoiled \subseteq spoiled' /\ (Refused(s, k) => f \in spoiled')
  BY <1>2, <1>5 DEF Count
<1>11. ~misread' /\ UNCHANGED <<names, cwd, checked>>
  BY <1>4, <1>7
<1>12. PICK t : t = Closed
  OBVIOUS
<1>13. f \notin spoiled' => IF t = Closed THEN c = d ELSE Faithful(t, c, d)
  BY <1>6, <1>8, <1>10, <1>12
<1>14. f \notin spoiled' => \A q \in Handle : q # o /\ Has(q, f)
         => c = files[f] /\ d = ideal[f] /\ (t # Closed => Pending(t) = <<>>)
  BY <1>6, <1>8, <1>10, <1>12
<1>15. f = object[o].file /\ object' = [object EXCEPT ![o] = t] /\ spoiled \subseteq spoiled'
  BY <1>1, <1>2, <1>7, <1>10, <1>12
<1> QED
  BY ONLY <1>3, <1>9, <1>11, <1>12, <1>13, <1>14, <1>15, c \in ByteSeqs, o \in Handle, FilesInv, StreamStep
(* A seek leads where it would without a buffer.                           *)
LEMMA seekKeeps ==
  ASSUME FilesInv, NEW o \in Handle, NEW offset \in Offsets,
         NEW whence \in {"Set", "Current", "End"}, seek(o, offset, whence)
  PROVE  FilesInv'
<1>1. PICK s : s = object[o]
  OBVIOUS
<1>2. PICK f : f = s.file
  OBVIOUS
<1>3. isOpenFile(o)
  BY DEF seek
<1>4. s \in Streams /\ StreamOK(s) /\ f \in 1..Len(files) /\ ideal[f] \in ByteSeqs /\ ~misread
  BY <1>1, <1>2, <1>3, OpenIs
<1>5. PICK v : v = Emptied(s)
  OBVIOUS
<1>6. v \in Streams /\ StreamOK(v) /\ v.file = f /\ Pending(v) = <<>> /\ v.mode # "put"
  <2>1. v \in Streams /\ StreamOK(v) /\ v.file = f /\ Pending(v) = <<>>
    BY <1>2, <1>4, <1>5, DrainedIs
  <2>2. v.mode # "put"
    BY <1>4, <1>5, DrainedIs
  <2> QED
    BY <2>1, <2>2
<1>7. PICK ideally : ideally = Target(offset, whence, s.place, Len(ideal[f]))
  OBVIOUS
<1>8. PICK k \in Taken(s) :
        /\ files' = Flushed(s, k)
        /\ Count(s, k)
        /\ LET to == Target(offset, whence, s.at, Len(Flushed(s, k)[f])) IN
           \/ object' = [object EXCEPT ![o] = v]
           \/ /\ ~Refused(s, k) /\ ~(to < 0)
              /\ \E keeps \in {FALSE, v.mode = "got" /\ to \in v.base..v.base + Len(v.buf)} :
                   object' = [object EXCEPT ![o] =
                     [v EXCEPT !.at = to, !.place = IF f \in spoiled THEN to ELSE ideally, !.eof = FALSE,
                               !.mode = IF keeps THEN @ ELSE "idle",
                               !.base = IF keeps THEN @ ELSE 0, !.buf = IF keeps THEN @ ELSE <<>>]]
  BY <1>1, <1>2, <1>5, <1>7, Zenon DEF seek
<1>9. PICK c \in ByteSeqs :
        /\ Flushed(s, k) = [files EXCEPT ![f] = c] /\ Flushed(s, k)[f] = c
        /\ ~Refused(s, k) /\ f \notin spoiled =>
             /\ c = ideal[f] /\ Faithful(v, c, c)
             /\ \A q \in Handle : q # o /\ Has(q, f) => c = files[f]
  <2>1. k \in Taken(s)
    BY <1>8
  <2>2. \E c \in ByteSeqs :
          /\ Flushed(s, k) = [files EXCEPT ![f] = c] /\ Flushed(s, k)[f] = c
          /\ ~Refused(s, k) /\ f \notin spoiled =>
               /\ c = ideal[f] /\ Faithful(Emptied(s), c, c)
               /\ \A q \in Handle : q # o /\ Has(q, f) => c = files[f]
    BY ONLY <2>1, <1>1, <1>2, <1>3, FilesInv, o \in Handle, FlushIs
  <2> QED
    BY <2>2, <1>5
<1>10. PICK d : d = ideal[f]
  OBVIOUS
<1>11. d \in ByteSeqs /\ UNCHANGED <<names, cwd, checked, ideal>> /\ ~misread'
  BY <1>4, <1>10 DEF seek
<1>12. ideal' = [ideal EXCEPT ![f] = d] /\ files' = [files EXCEPT ![f] = c]
  BY <1>8, <1>9, <1>10, <1>11 DEF FilesInv, FilesTyped
<1>13. spoiled \subseteq spoiled' /\ (Refused(s, k) => f \in spoiled')
  BY <1>2, <1>8 DEF Count
<1>14. UNCHANGED <<names, cwd, checked>>
  BY <1>11
<1>15. f = object[o].file
  BY <1>1, <1>2
<1>16. f \notin spoiled' => ~Refused(s, k) /\ f \notin spoiled
  BY <1>13
<1>17. CASE object' = [object EXCEPT ![o] = v]
  <2>1. v # Closed
    BY <1>6, StreamFields
  <2>2. f \notin spoiled' => IF v = Closed THEN c = d ELSE Faithful(v, c, d)
    BY <2>1, <1>9, <1>10, <1>16
  <2>3. f \notin spoiled' => \A q \in Handle : q # o /\ Has(q, f)
          => c = files[f] /\ d = ideal[f] /\ (v # Closed => Pending(v) = <<>>)
    BY <1>6, <1>9, <1>10, <1>16
  <2> QED
    BY ONLY <2>2, <2>3, <1>3, <1>6, <1>11, <1>12, <1>13, <1>14, <1>15, <1>17,
            c \in ByteSeqs, o \in Handle, FilesInv, StreamStep
<1>18. CASE ~(object' = [object EXCEPT ![o] = v])
  <2>1. PICK x : x = Target(offset, whence, s.at, Len(c))
    OBVIOUS
  <2>2. PICK keeps \in {FALSE, v.mode = "got" /\ x \in v.base..v.base + Len(v.buf)} :
          object' = [object EXCEPT ![o] =
            [v EXCEPT !.at = x, !.place = IF f \in spoiled THEN x ELSE ideally, !.eof = FALSE,
                      !.mode = IF keeps THEN @ ELSE "idle",
                      !.base = IF keeps THEN @ ELSE 0, !.buf = IF keeps THEN @ ELSE <<>>]]
    BY <2>1, <1>8, <1>9, <1>18
  <2>3. ~Refused(s, k) /\ ~(x < 0)
    BY <2>1, <1>8, <1>9, <1>18
  <2>4. x \in Nat
    <3>1. Len(c) \in Nat /\ s.at \in Nat /\ offset \in Int
      BY <1>4, StreamFields, LenProperties, FilesAssumption DEF ByteSeqs
    <3> QED
      BY <3>1, <2>1, <2>3 DEF Target
  <2>5. x = IF f \in spoiled THEN x ELSE ideally
    <3>1. CASE f \notin spoiled
      <4>1. c = ideal[f] /\ s.place = s.at
        BY <3>1, <2>3, <1>4, <1>9 DEF StreamOK
      <4> QED
        BY <3>1, <4>1, <2>1, <1>7
    <3> QED
      BY <3>1
  <2>6. PICK t : t = [v EXCEPT !.at = x, !.place = x, !.eof = FALSE,
                                !.mode = IF keeps THEN @ ELSE "idle",
                                !.base = IF keeps THEN @ ELSE 0, !.buf = IF keeps THEN @ ELSE <<>>]
    OBVIOUS
  <2>7. object' = [object EXCEPT ![o] = t]
    BY <2>2, <2>5, <2>6
  <2>8. /\ t \in Streams /\ t.file = f /\ t.kind = v.kind /\ t.at = x /\ t.place = x
        /\ IF keeps THEN t.mode = v.mode /\ t.base = v.base /\ t.buf = v.buf ELSE t.mode = "idle"
    <3>1. <<>> \in ByteSeqs /\ FALSE \in BOOLEAN
      BY EmptySeq DEF ByteSeqs
    <3>2. CASE keeps
      <4>1. t = [v EXCEPT !.at = x, !.place = x, !.eof = FALSE,
                          !.mode = v.mode, !.base = v.base, !.buf = v.buf]
        BY <3>2, <2>6, <1>6 DEF Streams
      <4>2. t \in Streams /\ t.file = f /\ t.kind = v.kind /\ t.at = x /\ t.place = x
            /\ t.mode = v.mode /\ t.base = v.base /\ t.buf = v.buf
        BY ONLY <4>1, <3>1, <2>4, <1>6 DEF Streams
      <4> QED
        BY <3>2, <4>2
    <3>3. CASE ~keeps
      <4>1. t = [v EXCEPT !.at = x, !.place = x, !.eof = FALSE,
                          !.mode = "idle", !.base = 0, !.buf = <<>>]
        BY <3>3, <2>6
      <4>2. t \in Streams /\ t.file = f /\ t.kind = v.kind /\ t.at = x /\ t.place = x /\ t.mode = "idle"
        BY ONLY <4>1, <3>1, <2>4, <1>6 DEF Streams
      <4> QED
        BY <3>3, <4>2
    <3> QED
      BY <3>2, <3>3
  <2>9. ~t.eof
    BY <2>6, <1>6 DEF Streams
  <2>10. keeps => v.mode = "got" /\ x \in v.base..v.base + Len(v.buf)
    BY <2>2
  <2>11. StreamOK(t) /\ Pending(t) = <<>> /\ t # Closed
    <3>1. v.base \in Nat /\ Len(v.buf) \in Nat
      BY <1>6, StreamFields, LenProperties DEF ByteSeqs
    <3>2. t # Closed
      BY <2>8, StreamFields
    <3>3. CASE keeps
      BY <3>1, <3>2, <3>3, <2>8, <2>10, <1>6 DEF StreamOK, Pending
    <3>4. CASE ~keeps
      BY <3>2, <3>4, <2>8 DEF StreamOK, Pending
    <3> QED
      BY <3>3, <3>4
  <2>12. ASSUME f \notin spoiled'
         PROVE  Faithful(t, c, d)
    <3>1. c = d /\ Faithful(v, c, c)
      BY <2>12, <1>9, <1>10, <1>16
    <3>2. Over(c, t.base, Pending(t)) = d
      BY <3>1, <2>11 DEF Over
    <3>3. t.mode = "got" => \A i \in 1..Len(t.buf) : t.base + i <= Len(c) /\ c[t.base + i] = t.buf[i]
      <4>1. CASE keeps
        BY <4>1, <3>1, <2>8 DEF Faithful
      <4>2. CASE ~keeps
        BY <4>2, <2>8
      <4> QED
        BY <4>1, <4>2
    <3> QED
      BY <3>2, <3>3, <2>9 DEF Faithful
  <2>13. f \notin spoiled' => IF t = Closed THEN c = d ELSE Faithful(t, c, d)
    BY <2>11, <2>12
  <2>14. f \notin spoiled' => \A q \in Handle : q # o /\ Has(q, f)
           => c = files[f] /\ d = ideal[f] /\ (t # Closed => Pending(t) = <<>>)
    BY <2>11, <1>9, <1>10, <1>16
  <2> QED
    BY ONLY <2>7, <2>8, <2>11, <2>13, <2>14, <1>3, <1>11, <1>12, <1>13, <1>14, <1>15,
            c \in ByteSeqs, o \in Handle, FilesInv, StreamStep
<1> QED
  BY <1>17, <1>18
(* A path that a client uses leads somewhere.                              *)
LEMMA PathIs ==
  ASSUME FilesInv, NEW p \in Request
  PROVE  /\ pathString(p) \in Path /\ names[pathString(p)] \in 0..Len(files)
         /\ exists(p) => names[pathString(p)] \in 1..Len(files)
<1>1. cwd \in Dir /\ p \in [dir : Dir \cup {"."}, name : Name]
  BY FilesAssumption DEF FilesInv, FilesTyped
<1>2. pathString(p) \in Path
  <2>1. CASE p.dir = "."
    BY <2>1, <1>1 DEF pathString, Path
  <2>2. CASE p.dir # "."
    BY <2>2, <1>1 DEF pathString, Path
  <2> QED
    BY <2>1, <2>2
<1>3. names[pathString(p)] \in Nat /\ names[pathString(p)] <= Len(files) /\ Len(files) \in Nat
  BY <1>2, LenProperties DEF FilesInv, FilesTyped
<1> QED
  BY <1>2, <1>3 DEF exists, None

(* The stream of an object that was just opened.                           *)
LEMMA FreshIs ==
  ASSUME NEW class \in {"plain", "buffered"}, NEW f \in Nat
  PROVE  /\ Fresh(class, f) \in Streams /\ StreamOK(Fresh(class, f)) /\ Fresh(class, f) # Closed
         /\ Fresh(class, f).file = f /\ Pending(Fresh(class, f)) = <<>>
         /\ \A c \in ByteSeqs : Faithful(Fresh(class, f), c, c)
<1>1. PICK t : t = Fresh(class, f)
  OBVIOUS
<1>2. <<>> \in ByteSeqs /\ FALSE \in BOOLEAN
  BY EmptySeq DEF ByteSeqs
<1>3. /\ t \in Streams /\ t.file = f /\ t.mode = "idle" /\ t.at = 0 /\ t.place = 0
  BY <1>1, <1>2 DEF Fresh, Streams
<1>4. ~t.eof
  BY <1>1 DEF Fresh
<1>5. StreamOK(t) /\ Pending(t) = <<>> /\ t # Closed
  BY <1>3, StreamFields DEF StreamOK, Pending
<1>6. \A c \in ByteSeqs : Faithful(t, c, c)
  BY <1>3, <1>4, <1>5 DEF Faithful, Over
<1> QED
  BY <1>1, <1>3, <1>5, <1>6

(* A file that a step leaves to its objects.                               *)
LEMMA Elsewhere ==
  ASSUME FilesInv, NEW g \in 1..Len(files), g \notin spoiled,
         files'[g] = files[g], ideal'[g] = ideal[g],
         \A q \in Handle : (Has(q, g)' <=> Has(q, g)) /\ (Has(q, g) => object'[q] = object[q])
  PROVE  FileFaithful(g)'
<1>1. FileFaithful(g)
  BY DEF FilesInv, FilesFaithful
<1> QED
  BY <1>1 DEF FileFaithful

(* Neither checking nor changing directory, nor a name that goes, touches  *)
(* files and objects.                                                      *)
LEMMA NamesStep ==
  ASSUME FilesInv, UNCHANGED <<files, object, ideal, spoiled, misread>>,
         names' \in [Path -> Nat], \A p \in Path : names'[p] <= Len(files),
         cwd' \in Dir, checked' \in [Handle -> {NoCheck} \cup [path : Request, found : BOOLEAN]]
  PROVE  FilesInv'
<1>1. FilesTyped'
  BY DEF FilesInv, FilesTyped, isOpenFile
<1>2. ASSUME NEW g \in 1..Len(files'), g \notin spoiled'
      PROVE  FileFaithful(g)'
  <2>1. \A q \in Handle : (Has(q, g)' <=> Has(q, g)) /\ (Has(q, g) => object'[q] = object[q])
    BY DEF Has, isOpenFile
  <2> QED
    BY <2>1, <1>2, Elsewhere
<1> QED
  BY <1>1, <1>2 DEF FilesInv, FilesFaithful

(* An object that is opened on a file nobody holds bytes back for.         *)
LEMMA OpensStep ==
  ASSUME FilesInv, NEW o \in Handle, ~isOpenFile(o), NEW class \in {"plain", "buffered"}, NEW f,
         object' = [object EXCEPT ![o] = Fresh(class, f)],
         \/ f \in 1..Len(files) /\ UNCHANGED <<files, ideal>>
         \/ f = Len(files) + 1 /\ files' = Append(files, <<>>) /\ ideal' = Append(ideal, <<>>),
         names' \in [Path -> Nat], \A p \in Path : names'[p] <= Len(files'),
         UNCHANGED <<cwd, misread>>,
         checked' = [checked EXCEPT ![o] = NoCheck],
         spoiled \subseteq spoiled',
         f \notin spoiled' => \A q \in Handle : Has(q, f) => Pending(object[q]) = <<>>
  PROVE  FilesInv'
<1>1. /\ files \in Seq(ByteSeqs) /\ ideal \in Seq(ByteSeqs) /\ Len(ideal) = Len(files)
      /\ object \in [Handle -> {Closed} \cup Streams]
      /\ \A q \in Handle : isOpenFile(q) => object[q].file \in 1..Len(files) /\ StreamOK(object[q])
      /\ checked \in [Handle -> {NoCheck} \cup [path : Request, found : BOOLEAN]]
      /\ cwd \in Dir
  BY DEF FilesInv, FilesTyped
<1>2. Len(files) \in Nat /\ <<>> \in ByteSeqs
  BY <1>1, LenProperties, EmptySeq DEF ByteSeqs
<1>3. /\ files' \in Seq(ByteSeqs) /\ ideal' \in Seq(ByteSeqs) /\ Len(ideal') = Len(files')
      /\ Len(files') \in Nat /\ Len(files) <= Len(files') /\ f \in 1..Len(files')
      /\ \A g \in 1..Len(files) : files'[g] = files[g] /\ ideal'[g] = ideal[g]
      /\ \A g \in 1..Len(files') : g \in 1..Len(files) \/ (g = f /\ files'[g] = <<>> /\ ideal'[g] = <<>>)
  <2>1. CASE f \in 1..Len(files) /\ UNCHANGED <<files, ideal>>
    BY <2>1, <1>1, <1>2
  <2>2. CASE f = Len(files) + 1 /\ files' = Append(files, <<>>) /\ ideal' = Append(ideal, <<>>)
    <3>1. /\ files' \in Seq(ByteSeqs) /\ Len(files') = Len(files) + 1
          /\ \A g \in 1..Len(files) : files'[g] = files[g]
          /\ files'[Len(files) + 1] = <<>>
      BY <2>2, <1>1, <1>2, AppendProperties
    <3>2. /\ ideal' \in Seq(ByteSeqs) /\ Len(ideal') = Len(ideal) + 1
          /\ \A g \in 1..Len(ideal) : ideal'[g] = ideal[g]
          /\ ideal'[Len(ideal) + 1] = <<>>
      BY <2>2, <1>1, <1>2, AppendProperties
    <3> QED
      BY <3>1, <3>2, <2>2, <1>1, <1>2
  <2> QED
    BY <2>1, <2>2
<1>4. PICK t : t = Fresh(class, f)
  OBVIOUS
<1>5. /\ t \in Streams /\ StreamOK(t) /\ t # Closed /\ t.file = f /\ Pending(t) = <<>>
      /\ \A c \in ByteSeqs : Faithful(t, c, c)
  <2>1. f \in Nat
    BY <1>3
  <2> QED
    BY <2>1, <1>4, FreshIs
<1>6. object'[o] = t /\ \A q \in Handle : q # o => object'[q] = object[q]
  BY <1>1, <1>4
<1>7. object' \in [Handle -> {Closed} \cup Streams]
  BY <1>1, <1>4, <1>5
<1>8. \A q \in Handle : isOpenFile(q)' => object'[q].file \in 1..Len(files') /\ StreamOK(object'[q])
  <2>1. \A q \in Handle : q # o /\ isOpenFile(q)'
          => object'[q].file \in 1..Len(files') /\ StreamOK(object'[q])
    BY <1>1, <1>2, <1>3, <1>6 DEF isOpenFile
  <2> QED
    BY <2>1, <1>3, <1>5, <1>6
<1>9. checked' \in [Handle -> {NoCheck} \cup [path : Request, found : BOOLEAN]]
  BY <1>1, Zenon
<1>10. FilesTyped'
  BY <1>1, <1>3, <1>7, <1>8, <1>9 DEF FilesTyped
<1>11. \A q \in Handle, g \in 1..Len(files') : q # o => (Has(q, g)' <=> Has(q, g))
  BY <1>6 DEF Has, isOpenFile
<1>12. \A g \in 1..Len(files') : ~Has(o, g) /\ (Has(o, g)' <=> g = f)
  BY <1>5, <1>6 DEF Has, isOpenFile
<1>13. ASSUME NEW g \in 1..Len(files'), g \notin spoiled'
       PROVE  FileFaithful(g)'
  <2>1. CASE g # f
    <3>1. g \in 1..Len(files) /\ g \notin spoiled /\ files'[g] = files[g] /\ ideal'[g] = ideal[g]
      BY <2>1, <1>3, <1>13
    <3>2. \A q \in Handle : (Has(q, g)' <=> Has(q, g)) /\ (Has(q, g) => object'[q] = object[q])
      BY <2>1, <1>6, <1>11, <1>12
    <3> QED
      BY <3>1, <3>2, Elsewhere
  <2>2. CASE g = f
    <3>1. \A q \in Handle : Has(q, f)' /\ q # o
            => Has(q, f) /\ object'[q] = object[q] /\ Pending(object'[q]) = <<>>
      BY <2>2, <1>3, <1>6, <1>11, <1>13
    <3>2. /\ files'[f] = ideal'[f] /\ files'[f] \in ByteSeqs
          /\ \A q \in Handle : Has(q, f)' /\ q # o => Faithful(object'[q], files'[f], ideal'[f])
      <4>1. CASE f \in 1..Len(files)
        <5>1. FileFaithful(f) /\ files'[f] = files[f] /\ ideal'[f] = ideal[f] /\ files[f] \in ByteSeqs
          BY <4>1, <2>2, <1>1, <1>3, <1>13, ElementOfSeq DEF FilesInv, FilesFaithful
        <5>2. \A q \in Handle : Has(q, f) => Faithful(object[q], files[f], ideal[f])
          BY <5>1 DEF FileFaithful
        <5>3. files[f] = ideal[f]
          <6>1. CASE \A q \in Handle : ~Has(q, f)
            BY <6>1, <5>1 DEF FileFaithful
          <6>2. CASE \E q \in Handle : Has(q, f)
            <7>1. PICK q \in Handle : Has(q, f)
              BY <6>2
            <7>2. Over(files[f], object[q].base, <<>>) = ideal[f]
              BY <7>1, <5>2, <2>2, <1>13 DEF Faithful
            <7> QED
              BY <7>2 DEF Over
          <6> QED
            BY <6>1, <6>2
        <5> QED
          BY <3>1, <5>1, <5>2, <5>3
      <4>2. CASE f \notin 1..Len(files)
        <5>1. \A q \in Handle : ~Has(q, f)
          BY <4>2, <1>1 DEF Has
        <5> QED
          BY <4>2, <5>1, <3>1, <2>2, <1>2, <1>3
      <4> QED
        BY <4>1, <4>2
    <3>3. Has(o, f)' /\ Faithful(object'[o], files'[f], ideal'[f]) /\ Pending(object'[o]) = <<>>
      BY <3>2, <2>2, <1>5, <1>6, <1>12
    <3>4. \A q \in Handle : Has(q, f)' => Faithful(object'[q], files'[f], ideal'[f])
      BY <3>2, <3>3
    <3>5. \A q \in Handle : Has(q, f)' => Pending(object'[q]) = <<>>
      BY <3>1, <3>3
    <3>6. files'[f] = ideal'[f]
      BY <3>2
    <3> QED
      BY <3>4, <3>5, <3>6, <2>2 DEF FileFaithful
  <2> QED
    BY <2>1, <2>2
<1> QED
  BY <1>10, <1>13 DEF FilesInv, FilesFaithful
(* The path that a client checked.                                         *)
LEMMA CheckedIs ==
  ASSUME FilesInv, NEW o \in Handle, checked[o] # NoCheck
  PROVE  checked[o].path \in Request
<1>1. checked[o] \in [path : Request, found : BOOLEAN]
  BY Zenon DEF FilesInv, FilesTyped
<1> QED
  BY <1>1

(* A new file is empty, and its only object at the start of it.            *)
LEMMA FileAdded ==
  ASSUME FilesInv, NEW o \in Handle, ~isOpenFile(o), NEW bind, NewFile(o, bind),
         UNCHANGED <<cwd, spoiled, misread>>
  PROVE  FilesInv'
<1>1. PICK f : f = Len(files) + 1
  OBVIOUS
<1>2. /\ files' = Append(files, <<>>) /\ ideal' = Append(ideal, <<>>)
      /\ names' = [p \in Path |-> IF p \in bind THEN f ELSE names[p]]
      /\ object' = [object EXCEPT ![o] = Fresh("buffered", f)]
      /\ checked' = [checked EXCEPT ![o] = NoCheck]
  BY <1>1 DEF NewFile, Opens
<1>3. /\ files \in Seq(ByteSeqs) /\ names \in [Path -> Nat] /\ \A p \in Path : names[p] <= Len(files)
      /\ \A q \in Handle : isOpenFile(q) => object[q].file \in 1..Len(files)
  BY DEF FilesInv, FilesTyped
<1>4. Len(files) \in Nat /\ Len(files') = Len(files) + 1
  <2>1. <<>> \in ByteSeqs
    BY EmptySeq DEF ByteSeqs
  <2> QED
    BY <2>1, <1>2, <1>3, AppendProperties, LenProperties
<1>5. names' \in [Path -> Nat] /\ \A p \in Path : names'[p] <= Len(files')
  <2>1. f \in Nat /\ f <= Len(files')
    BY <1>1, <1>4
  <2>2. \A p \in Path : names[p] \in Nat /\ names[p] <= Len(files')
    BY <1>3, <1>4
  <2> QED
    BY <2>1, <2>2, <1>2
<1>6. \A q \in Handle : ~Has(q, f)
  BY <1>1, <1>3, <1>4 DEF Has
<1>7. spoiled \subseteq spoiled' /\ UNCHANGED <<cwd, misread>>
  OBVIOUS
<1>8. "buffered" \in {"plain", "buffered"}
  OBVIOUS
<1> QED
  BY <1>1, <1>2, <1>5, <1>6, <1>7, <1>8, OpensStep

(* A file is made, with a name or without, or create fails.                *)
LEMMA createKeeps ==
  ASSUME FilesInv, NEW o \in Handle, create(o) \/ createTemp(o)
  PROVE  FilesInv'
<1>1. ~isOpenFile(o) /\ UNCHANGED <<cwd, spoiled, misread>>
  BY DEF create, createTemp
<1>2. CASE \E bind : NewFile(o, bind)
  BY <1>1, <1>2, FileAdded
<1>3. CASE Fails(o)
  <2>1. checked' \in [Handle -> {NoCheck} \cup [path : Request, found : BOOLEAN]]
    BY <1>3, Zenon DEF Fails, FilesInv, FilesTyped
  <2>2. /\ UNCHANGED <<files, object, ideal, spoiled, misread>> /\ names' = names /\ cwd' = cwd
    BY <1>1, <1>3 DEF Fails
  <2>3. names' \in [Path -> Nat] /\ (\A p \in Path : names'[p] <= Len(files)) /\ cwd' \in Dir
    BY <2>2 DEF FilesInv, FilesTyped
  <2> QED
    BY <2>1, <2>2, <2>3, NamesStep
<1>4. Fails(o) \/ \E bind : NewFile(o, bind)
  BY DEF create, createTemp
<1> QED
  BY <1>2, <1>3, <1>4

(* A file is opened that others may have open, or open fails.              *)
LEMMA openKeeps ==
  ASSUME FilesInv, NEW o \in Handle, NEW class \in {"plain", "buffered"},
         open(o, class)
  PROVE  FilesInv'
<1>1. PICK p : p = checked[o].path
  OBVIOUS
<1>2. p \in Request /\ ~isOpenFile(o) /\ UNCHANGED <<cwd, misread>>
  BY <1>1, CheckedIs DEF open
<1>3. CASE Fails(o) /\ UNCHANGED spoiled
  <2>1. checked' \in [Handle -> {NoCheck} \cup [path : Request, found : BOOLEAN]]
    BY <1>3, Zenon DEF Fails, FilesInv, FilesTyped
  <2>2. /\ UNCHANGED <<files, object, ideal, spoiled, misread>> /\ names' = names /\ cwd' = cwd
    BY <1>2, <1>3 DEF Fails
  <2>3. names' \in [Path -> Nat] /\ (\A q \in Path : names'[q] <= Len(files)) /\ cwd' \in Dir
    BY <2>2 DEF FilesInv, FilesTyped
  <2> QED
    BY <2>1, <2>2, <2>3, NamesStep
<1>4. CASE /\ exists(p) /\ Opens(o, class, names[pathString(p)])
           /\ UNCHANGED <<names, files, ideal>>
           /\ spoiled' = spoiled \cup
                {object[q].file : q \in {q \in Sharing(names[pathString(p)]) :
                                            Pending(object[q]) # <<>>}}
  <2>1. PICK f : f = names[pathString(p)]
    OBVIOUS
  <2>2. f \in 1..Len(files)
    BY <2>1, <1>2, <1>4, PathIs
  <2>3. object' = [object EXCEPT ![o] = Fresh(class, f)] /\ checked' = [checked EXCEPT ![o] = NoCheck]
    BY <2>1, <1>4 DEF Opens
  <2>4. names' \in [Path -> Nat] /\ \A q \in Path : names'[q] <= Len(files')
    BY <1>4 DEF FilesInv, FilesTyped
  <2>5. ASSUME f \notin spoiled', NEW q \in Handle, Has(q, f)
        PROVE  Pending(object[q]) = <<>>
    <3>1. SUFFICES ASSUME Pending(object[q]) # <<>>
                   PROVE  FALSE
      OBVIOUS
    <3>2. q \in {r \in Sharing(f) : Pending(object[r]) # <<>>} /\ object[q].file = f
      BY <3>1, <2>5 DEF Sharing, Has
    <3> QED
      BY <3>2, <2>1, <2>5, <1>4
  <2>6. spoiled \subseteq spoiled' /\ UNCHANGED <<cwd, misread>> /\ UNCHANGED <<files, ideal>>
    BY <1>2, <1>4
  <2> QED
    BY ONLY <2>2, <2>3, <2>4, <2>5, <2>6, <1>2, FilesInv, o \in Handle, class \in {"plain", "buffered"},
            OpensStep
<1> QED
  BY <1>1, <1>3, <1>4 DEF open

(* What changes names, the directory or what a client knows of them.       *)
LEMMA NamesKeep ==
  ASSUME FilesInv,
         \/ \E o \in Handle, p \in Request : Check(o, p)
         \/ \E p \in Request : unlink(p)
         \/ \E d \in Dir : setWorkingDirectory(d)
  PROVE  FilesInv'
<1>1. /\ names \in [Path -> Nat] /\ \A p \in Path : names[p] <= Len(files)
      /\ cwd \in Dir /\ checked \in [Handle -> {NoCheck} \cup [path : Request, found : BOOLEAN]]
      /\ Len(files) \in Nat
  BY LenProperties DEF FilesInv, FilesTyped
<1>2. ASSUME NEW o \in Handle, NEW p \in Request, Check(o, p)
      PROVE  FilesInv'
  <2>1. [path |-> p, found |-> exists(p)] \in [path : Request, found : BOOLEAN]
    BY Zenon DEF exists
  <2>2. checked' = [checked EXCEPT ![o] = [path |-> p, found |-> exists(p)]]
    BY <1>2 DEF Check
  <2>3. checked' \in [Handle -> {NoCheck} \cup [path : Request, found : BOOLEAN]]
    BY <2>1, <2>2, <1>1, Zenon
  <2>4. UNCHANGED <<files, object, ideal, spoiled, misread>> /\ names' = names /\ cwd' = cwd
    BY <1>2 DEF Check
  <2> QED
    BY <2>3, <2>4, <1>1, NamesStep
<1>3. ASSUME NEW p \in Request, unlink(p)
      PROVE  FilesInv'
  <2>1. names' = [names EXCEPT ![pathString(p)] = None]
    BY <1>3 DEF unlink
  <2>2. names' \in [Path -> Nat] /\ \A q \in Path : names'[q] <= Len(files)
    <3>1. PICK x : x = pathString(p)
      OBVIOUS
    <3>2. names' = [names EXCEPT ![x] = 0] /\ x \in Path
      BY <3>1, <2>1, PathIs DEF None
    <3> QED
      BY <3>2, <1>1
  <2>3. /\ UNCHANGED <<files, object, ideal, spoiled, misread>> /\ cwd' = cwd
        /\ checked' = checked
    BY <1>3 DEF unlink
  <2> QED
    BY <2>2, <2>3, <1>1, NamesStep
<1>4. ASSUME NEW d \in Dir, setWorkingDirectory(d)
      PROVE  FilesInv'
  <2>1. UNCHANGED <<files, object, ideal, spoiled, misread>> /\ cwd' = d
        /\ names' = names /\ checked' = checked
    BY <1>4 DEF setWorkingDirectory
  <2> QED
    BY <2>1, <1>1, NamesStep
<1> QED
  BY <1>2, <1>3, <1>4

(* Objects that swap take their streams with them.                         *)
LEMMA swapKeeps ==
  ASSUME FilesInv, NEW o \in Handle, NEW q \in Handle \ {o}, swapFiles(o, q)
  PROVE  FilesInv'
<1>1. object \in [Handle -> {Closed} \cup Streams]
  BY DEF FilesInv, FilesTyped
<1>2. /\ object' = [object EXCEPT ![o] = object[q], ![q] = object[o]]
      /\ UNCHANGED <<names, files, cwd, checked, ideal, spoiled, misread>>
  BY DEF swapFiles
<1>3. PICK m : m = [r \in Handle |-> IF r = o THEN q ELSE IF r = q THEN o ELSE r]
  OBVIOUS
<1>4. \A r \in Handle : m[r] \in Handle /\ m[m[r]] = r
  BY <1>3
<1>5. \A r \in Handle : object'[r] = object[m[r]]
  BY <1>1, <1>2, <1>3
<1>6. object' \in [Handle -> {Closed} \cup Streams]
  BY <1>1, <1>2
<1>7. \A r \in Handle : isOpenFile(r)' => object'[r].file \in 1..Len(files') /\ StreamOK(object'[r])
  <2>1. \A r \in Handle : isOpenFile(r) => object[r].file \in 1..Len(files) /\ StreamOK(object[r])
    BY DEF FilesInv, FilesTyped
  <2> QED
    BY <2>1, <1>2, <1>4, <1>5 DEF isOpenFile
<1>8. FilesTyped'
  BY <1>2, <1>6, <1>7 DEF FilesInv, FilesTyped
<1>9. ASSUME NEW g \in 1..Len(files'), g \notin spoiled'
      PROVE  FileFaithful(g)'
  <2>1. FileFaithful(g)
    BY <1>2, <1>9 DEF FilesInv, FilesFaithful
  <2>2. \A r \in Handle : Has(r, g)' <=> Has(m[r], g)
    BY <1>5 DEF Has, isOpenFile
  <2>3. (\A r \in Handle : ~Has(r, g)') => \A r \in Handle : ~Has(r, g)
    BY <2>2, <1>4
  <2>4. \A r \in Handle : Has(r, g)' => Faithful(object'[r], files'[g], ideal'[g])
    BY <2>1, <2>2, <1>2, <1>4, <1>5 DEF FileFaithful
  <2>5. \A r, u \in Handle : r # u /\ Has(r, g)' /\ Has(u, g)' => Pending(object'[r]) = <<>>
    <3>1. SUFFICES ASSUME NEW r \in Handle, NEW u \in Handle, r # u, Has(r, g)', Has(u, g)'
                   PROVE  Pending(object'[r]) = <<>>
      OBVIOUS
    <3>2. m[r] \in Handle /\ m[u] \in Handle /\ m[r] # m[u] /\ Has(m[r], g) /\ Has(m[u], g)
      BY <3>1, <2>2, <1>4
    <3>3. Pending(object[m[r]]) = <<>>
      BY <3>2, <2>1 DEF FileFaithful
    <3> QED
      BY <3>3, <1>5
  <2>6. (\A r \in Handle : ~Has(r, g)') => files'[g] = ideal'[g]
    BY <2>1, <2>3, <1>2 DEF FileFaithful
  <2> QED
    BY <2>4, <2>5, <2>6 DEF FileFaithful
<1>10. ~misread'
  BY <1>2 DEF FilesInv, FilesFaithful
<1> QED
  BY <1>8, <1>9, <1>10 DEF FilesInv, FilesFaithful

(* Every step of the files.                                                *)
LEMMA FilesNextKeeps ==
  ASSUME FilesInv, FilesNext
  PROVE  FilesInv'
<1>1. CASE \/ \E o \in Handle, p \in Request : Check(o, p)
           \/ \E p \in Request : unlink(p)
           \/ \E d \in Dir : setWorkingDirectory(d)
  BY <1>1, NamesKeep
<1>2. CASE \E o \in Handle : create(o) \/ createTemp(o)
  BY <1>2, createKeeps
<1>3. CASE \E o \in Handle : \E class \in {"plain", "buffered"} : open(o, class)
  BY <1>3, openKeeps
<1>4. CASE \E o \in Handle : \E b \in Data : BufferedWrite(o, b)
  BY <1>4, BufferedWriteKeeps
<1>5. CASE \E o \in Handle : \E b \in Data : BufferedWriteRefused(o, b)
  BY <1>5, BufferedWriteRefusedKeeps
<1>6. CASE \E o \in Handle : \E b \in Data : PlainWrite(o, b)
  BY <1>6, PlainWriteKeeps
<1>7. CASE \E o \in Handle : \E n \in Lengths : BufferedRead(o, n)
  BY <1>7, BufferedReadKeeps
<1>8. CASE \E o \in Handle : \E n \in Lengths : PlainRead(o, n)
  BY <1>8, PlainReadKeeps
<1>9. CASE \E o \in Handle : \E offset \in Offsets, whence \in {"Set", "Current", "End"} :
             seek(o, offset, whence)
  BY <1>9, seekKeeps
<1>10. CASE \E o \in Handle : closeFile(o)
  BY <1>10, closeKeeps
<1>11. CASE \E o \in Handle : \E q \in Handle \ {o} : swapFiles(o, q)
  BY <1>11, swapKeeps
<1> QED
  BY <1>1, <1>2, <1>3, <1>4, <1>5, <1>6, <1>7, <1>8, <1>9, <1>10, <1>11, Zenon DEF FilesNext

(* The initial states: no file, no object.                                 *)
LEMMA FilesInitHolds ==
  ASSUME FilesInit
  PROVE  FilesInv
<1>1. /\ names = [p \in Path |-> 0] /\ files = <<>> /\ ideal = <<>>
      /\ object = [o \in Handle |-> Closed] /\ ~misread
  BY DEF FilesInit, None
<1>2. files \in Seq(ByteSeqs) /\ ideal \in Seq(ByteSeqs) /\ Len(files) = 0 /\ Len(ideal) = 0
  BY <1>1, EmptySeq
<1>3. cwd \in Dir
  BY FilesAssumption DEF FilesInit
<1>4. checked \in [Handle -> {NoCheck} \cup [path : Request, found : BOOLEAN]]
  BY Zenon DEF FilesInit
<1>5. object \in [Handle -> {Closed} \cup Streams] /\ \A o \in Handle : ~isOpenFile(o)
  BY <1>1 DEF isOpenFile
<1>6. names \in [Path -> Nat] /\ \A p \in Path : names[p] <= Len(files)
  BY <1>1, <1>2
<1>7. FilesTyped
  BY <1>2, <1>3, <1>4, <1>5, <1>6 DEF FilesTyped
<1> QED
  BY <1>1, <1>2, <1>7 DEF FilesInv, FilesFaithful

(* The invariant is what the property promises.                            *)
LEMMA FaithfulIsSame ==
  ASSUME FilesInv
  PROVE  SameAsUnbuffered
<1>1. ~misread
  BY DEF FilesInv, FilesFaithful
<1>2. DOMAIN files = 1..Len(files)
  BY LenProperties DEF FilesInv, FilesTyped
<1>3. ASSUME NEW f \in DOMAIN files \ spoiled
      PROVE  /\ Sharing(f) = {} => files[f] = ideal[f]
             /\ \A p \in Request : exists(p) /\ names[pathString(p)] = f /\ Sharing(f) = {}
                                     => getFileSize(p) = Len(ideal[f])
             /\ \A o \in Sharing(f) :
                  /\ tell(o) = object[o].place
                  /\ Pending(object[o]) # <<>> => Over(files[f], object[o].base, object[o].buf) = ideal[f]
  <2>1. FileFaithful(f)
    BY <1>2, <1>3 DEF FilesInv, FilesFaithful
  <2>2. Sharing(f) = {} => files[f] = ideal[f]
    BY <2>1 DEF FileFaithful, Sharing, Has
  <2>3. \A p \in Request : exists(p) /\ names[pathString(p)] = f /\ Sharing(f) = {}
                             => getFileSize(p) = Len(ideal[f])
    BY <2>2 DEF getFileSize
  <2>4. ASSUME NEW o \in Sharing(f)
        PROVE  /\ tell(o) = object[o].place
               /\ Pending(object[o]) # <<>> => Over(files[f], object[o].base, object[o].buf) = ideal[f]
    <3>1. o \in Handle /\ isOpenFile(o) /\ Has(o, f)
      BY <2>4 DEF Sharing, Has
    <3>2. StreamOK(object[o]) /\ Faithful(object[o], files[f], ideal[f])
      BY <3>1, <2>1 DEF FilesInv, FilesTyped, FileFaithful
    <3> QED
      BY <3>2 DEF StreamOK, Faithful, Pending, tell
  <2> QED
    BY <2>2, <2>3, <2>4
<1> QED
  BY <1>1, <1>3 DEF SameAsUnbuffered
(* An object is opened by making a file or opening one, or it gets the     *)
(* stream of another.                                                      *)
LEMMA WhoOpens ==
  ASSUME FilesNext, NEW o \in Handle, ~isOpenFile(o), isOpenFile(o)', FilesInv
  PROVE  \/ create(o) \/ createTemp(o)
         \/ \E class \in {"plain", "buffered"} : open(o, class)
         \/ \E q \in Handle \ {o} : swapFiles(q, o)
<1>1. object \in [Handle -> {Closed} \cup Streams] /\ object[o] = Closed /\ object'[o] # Closed
  BY DEF FilesInv, FilesTyped, isOpenFile
<1>2. ASSUME NEW q \in Handle, q # o, NEW t, object' = [object EXCEPT ![q] = t]
      PROVE  FALSE
  BY <1>1, <1>2
<1>3. object' # object
  BY <1>1
<1>4. ASSUME NEW q \in Handle, \E p \in Request : Check(q, p)
      PROVE  FALSE
  BY <1>3, <1>4 DEF Check
<1>5. (~\E p \in Request : unlink(p)) /\ (~\E d \in Dir : setWorkingDirectory(d))
  BY <1>3 DEF unlink, setWorkingDirectory
<1>6. ASSUME NEW q \in Handle,
             create(q) \/ createTemp(q) \/ \E class \in {"plain", "buffered"} : open(q, class)
      PROVE  q = o
  <2>1. \E t : object' = [object EXCEPT ![q] = t]
    <3>1. Fails(q) => object' = object
      BY DEF Fails
    <3>2. \A class, f : Opens(q, class, f) => \E t : object' = [object EXCEPT ![q] = t]
      BY DEF Opens
    <3>3. ASSUME Fails(q) \/ (\E bind : NewFile(q, bind)) \/ \E class, f : Opens(q, class, f)
          PROVE  \E t : object' = [object EXCEPT ![q] = t]
      BY <3>1, <3>2, <3>3, <1>3 DEF NewFile
    <3>4. Fails(q) \/ (\E bind : NewFile(q, bind)) \/ \E class, f : Opens(q, class, f)
      BY <1>6 DEF create, createTemp, open
    <3> QED
      BY <3>3, <3>4
  <2> QED
    BY <2>1, <1>2
<1>7. ASSUME NEW q \in Handle, isOpenFile(q), NEW t, object' = [object EXCEPT ![q] = t]
      PROVE  FALSE
  BY <1>1, <1>2, <1>7 DEF isOpenFile
<1>8. ASSUME NEW q \in Handle, NEW b \in Data, BufferedWrite(q, b) \/ BufferedWriteRefused(q, b)
      PROVE  FALSE
  <2>1. isOpenFile(q) /\ \E t : object' = [object EXCEPT ![q] = t]
    BY <1>8, Zenon DEF BufferedWrite, BufferedWriteRefused
  <2> QED
    BY <2>1, <1>7
<1>9. ASSUME NEW q \in Handle, isOpenFile(q), NEW n,
             object' = [object EXCEPT ![q].at = @ + n, ![q].place = @ + n]
      PROVE  FALSE
  <2>1. q # o
    BY <1>1, <1>9 DEF isOpenFile
  <2> QED
    BY <2>1, <1>1, <1>9
<1>10. ASSUME NEW q \in Handle, NEW b \in Data, PlainWrite(q, b)
       PROVE  FALSE
  <2>1. isOpenFile(q) /\ \E n : object' = [object EXCEPT ![q].at = @ + n, ![q].place = @ + n]
    BY <1>10, Zenon DEF PlainWrite
  <2> QED
    BY <2>1, <1>9
<1>11. ASSUME NEW q \in Handle, NEW n \in Lengths, BufferedRead(q, n)
       PROVE  FALSE
  <2>1. isOpenFile(q) /\ \E t : object' = [object EXCEPT ![q] = t]
    BY <1>11, Zenon DEF BufferedRead
  <2> QED
    BY <2>1, <1>7
<1>12. ASSUME NEW q \in Handle, NEW n \in Lengths, PlainRead(q, n)
       PROVE  FALSE
  <2>1. isOpenFile(q) /\ \E m : object' = [object EXCEPT ![q].at = @ + m, ![q].place = @ + m]
    BY <1>12, Zenon DEF PlainRead
  <2> QED
    BY <2>1, <1>9
<1>13. ASSUME NEW q \in Handle, NEW offset \in Offsets, NEW whence \in {"Set", "Current", "End"},
              seek(q, offset, whence)
       PROVE  FALSE
  <2>1. isOpenFile(q) /\ \E t : object' = [object EXCEPT ![q] = t]
    BY <1>13, Zenon DEF seek
  <2> QED
    BY <2>1, <1>7
<1>14. ASSUME NEW q \in Handle, closeFile(q)
       PROVE  FALSE
  BY <1>7, <1>14 DEF closeFile
<1>15. ASSUME NEW q \in Handle, NEW r \in Handle \ {q}, swapFiles(q, r)
       PROVE  r = o
  <2>1. isOpenFile(q) /\ object' = [object EXCEPT ![q] = object[r], ![r] = object[q]]
    BY <1>15 DEF swapFiles
  <2> QED
    BY <2>1, <1>1 DEF isOpenFile
<1>16. PICK q \in Handle :
         \/ create(q) \/ createTemp(q)
         \/ \E class \in {"plain", "buffered"} : open(q, class)
         \/ \E r \in Handle \ {q} : swapFiles(q, r)
  BY <1>4, <1>5, <1>8, <1>10, <1>11, <1>12, <1>13, <1>14, Zenon DEF FilesNext
<1>17. CASE create(q) \/ createTemp(q) \/ \E class \in {"plain", "buffered"} : open(q, class)
  <2>1. q = o
    BY <1>6, <1>17
  <2> QED
    BY <2>1, <1>17
<1>18. CASE \E r \in Handle \ {q} : swapFiles(q, r)
  <2>1. PICK r \in Handle \ {q} : swapFiles(q, r)
    BY <1>18
  <2>2. r = o /\ q \in Handle \ {o}
    BY <2>1, <1>15
  <2> QED
    BY <2>1, <2>2
<1> QED
  BY <1>16, <1>17, <1>18

(* What opening an object leaves alone.                                    *)
LEMMA OpeningKeeps ==
  ASSUME FilesInv, FilesNext, NEW o \in Handle, ~isOpenFile(o), isOpenFile(o)'
  PROVE  /\ \A f \in DOMAIN files : files'[f] = files[f]
         /\ \A p \in Path : names[p] # None => names'[p] = names[p]
         /\ checked[o] # NoCheck /\ ~checked[o].found
              => \A q \in Handle \ {o} : object'[q] # Closed => object'[q].file # object'[o].file
<1>1. /\ files \in Seq(ByteSeqs) /\ names \in [Path -> Nat]
      /\ object \in [Handle -> {Closed} \cup Streams] /\ object[o] = Closed /\ object'[o] # Closed
      /\ \A q \in Handle : isOpenFile(q) => object[q].file \in 1..Len(files)
      /\ DOMAIN files = 1..Len(files) /\ Len(files) \in Nat
  BY LenProperties DEF FilesInv, FilesTyped, isOpenFile
<1>2. ASSUME NEW bind, NewFile(o, bind)
      PROVE  /\ \A f \in DOMAIN files : files'[f] = files[f]
             /\ \A q \in Handle \ {o} : object'[q] # Closed => object'[q].file # object'[o].file
             /\ names' = [p \in Path |-> IF p \in bind THEN Len(files) + 1 ELSE names[p]]
  <2>1. PICK t : t = Fresh("buffered", Len(files) + 1)
    OBVIOUS
  <2>2. /\ files' = Append(files, <<>>) /\ object' = [object EXCEPT ![o] = t]
        /\ names' = [p \in Path |-> IF p \in bind THEN Len(files) + 1 ELSE names[p]]
    BY <2>1, <1>2 DEF NewFile, Opens
  <2>3. <<>> \in ByteSeqs
    BY EmptySeq DEF ByteSeqs
  <2>4. \A f \in 1..Len(files) : files'[f] = files[f]
    BY <2>2, <2>3, <1>1, AppendProperties
  <2>5. object'[o] = t /\ t.file = Len(files) + 1 /\ \A q \in Handle \ {o} : object'[q] = object[q]
    BY <2>1, <2>2, <1>1 DEF Fresh
  <2>6. \A q \in Handle \ {o} : object[q] # Closed => object[q].file # Len(files) + 1
    BY <1>1 DEF isOpenFile
  <2> QED
    BY <2>2, <2>4, <2>5, <2>6, <1>1
<1>3. ASSUME Fails(o)
      PROVE  FALSE
  BY <1>1, <1>3 DEF Fails
<1>4. CASE create(o)
  <2>1. PICK x : x = pathString(checked[o].path)
    OBVIOUS
  <2>2. NewFile(o, {x}) /\ names[x] = None
    BY <2>1, <1>3, <1>4 DEF create, exists
  <2>3. \A p \in Path : names[p] # None => names'[p] = names[p]
    BY <2>2, <1>2
  <2> QED
    BY <2>2, <2>3, <1>2
<1>5. CASE createTemp(o)
  <2>1. NewFile(o, {})
    BY <1>5 DEF createTemp
  <2>2. \A p \in Path : names'[p] = names[p]
    BY <2>1, <1>2
  <2> QED
    BY <2>1, <2>2, <1>2
<1>6. CASE \E class \in {"plain", "buffered"} : open(o, class)
  <2>1. UNCHANGED <<names, files>> /\ checked[o].found
    BY <1>3, <1>6 DEF open
  <2> QED
    BY <2>1
<1>7. CASE \E q \in Handle \ {o} : swapFiles(q, o)
  <2>1. UNCHANGED <<names, files>> /\ checked[o] = NoCheck
    BY <1>7 DEF swapFiles
  <2> QED
    BY <2>1
<1> QED
  BY <1>4, <1>5, <1>6, <1>7, WhoOpens

(* Beside the files there are only the ports, which leave them alone.      *)
LEMMA NextIs ==
  ASSUME [PortsNext]_(listVars)
  PROVE  FilesNext \/ UNCHANGED fileVars
BY DEF PortsNext, listVars

(* The invariant of the files holds in every behaviour.                    *)
LEMMA FilesAlways ==
  PortsSpec => []FilesInv
<1>1. PortsInit => FilesInv
  BY FilesInitHolds DEF PortsInit
<1>2. FilesInv /\ [PortsNext]_(listVars) => FilesInv'
  <2>1. SUFFICES ASSUME FilesInv, [PortsNext]_(listVars)
                 PROVE  FilesInv'
    OBVIOUS
  <2>2. CASE FilesNext
    BY <2>1, <2>2, FilesNextKeeps
  <2>3. CASE UNCHANGED fileVars
    <3>1. UNCHANGED <<names, files, cwd, object, checked, ideal, spoiled, misread>>
      BY <2>3 DEF fileVars
    <3>2. /\ names' \in [Path -> Nat] /\ (\A p \in Path : names'[p] <= Len(files))
          /\ cwd' \in Dir /\ checked' \in [Handle -> {NoCheck} \cup [path : Request, found : BOOLEAN]]
      BY <3>1, <2>1 DEF FilesInv, FilesTyped
    <3> QED
      BY <3>1, <3>2, <2>1, NamesStep
  <2> QED
    BY <2>1, <2>2, <2>3, NextIs
<1> QED
  BY <1>1, <1>2, PTL DEF PortsSpec

(* A BufferedFile is a file: what its reads give, where it stands and what *)
(* it leaves behind is what reads, writes and seeks without a buffer would *)
(* have come to (platformFilesystem.cpp:53-130), for any bytes, offsets    *)
(* and lengths, any number of objects and files, and any choice of the     *)
(* stream as to when it passes bytes on and what it keeps of what it read. *)
THEOREM BufferedIsUnbuffered ==
  PortsSpec => []SameAsUnbuffered
<1>1. PortsSpec => []FilesInv
  BY FilesAlways
<1>2. FilesInv => SameAsUnbuffered
  BY FaithfulIsSame
<1> QED
  BY <1>1, <1>2, PTL

(* create, open and createTemp (platformFilesystem.cpp:136-157, 235-244)   *)
(* harm no file and no name that is there, whatever happened since         *)
(* exists(), and what create makes is its own.                             *)
THEOREM CreatingHarmsNone ==
  PortsSpec => CreateKeeps
<1>1. PortsSpec => []FilesInv
  BY FilesAlways
<1>2. FilesInv /\ [PortsNext]_(listVars) =>
        [\A o \in Handle :
           ~isOpenFile(o) /\ isOpenFile(o)'
             => /\ \A f \in DOMAIN files : files'[f] = files[f]
                /\ \A p \in Path : names[p] # None => names'[p] = names[p]
                /\ checked[o] # NoCheck /\ ~checked[o].found
                     => \A q \in Handle \ {o} :
                          object'[q] # Closed => object'[q].file # object'[o].file]_(fileVars)
  BY NextIs, OpeningKeeps
<1> QED
  BY <1>1, <1>2, PTL DEF PortsSpec, CreateKeeps
=============================================================================
