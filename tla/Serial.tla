-------------------------------- MODULE Serial --------------------------------
(***************************************************************************)
(* Serial (src/src/io/serial.cpp): a serial port opened as a File, its     *)
(* line settings, its control lines and the calls that wait.  The settings *)
(* belong to the device: a Serial changes the ones it finds there and they *)
(* stay after it is gone, for the next one to find.                        *)
(*                                                                         *)
(* The process also handles signals (module SignalDispatcher), whose       *)
(* sa_flags of 0 make every blocking call return early.                    *)
(***************************************************************************)
EXTENDS SignalDispatcher, FiniteSets

CONSTANTS
  Object,      \* places for Serial objects
  Configs,     \* arguments of the constructor: [baudrate, bytesize, parity, stopbits, flowcontrol]
  Refusals,    \* system calls of the constructor that may be refused
  ModemLines,  \* the lines the other end moves, of CTS, DSR, RI and CD
  Leftovers,   \* iflags that another program may have left set
  Clients,     \* what the client of a behaviour may be doing
  TalkConfigs, \* bound: configurations of a client that talks
  MaxBytes,    \* bound: bytes written, and bytes that arrive
  MaxMoves     \* bound: changes of the modem lines

(* The rates with a Bxxx constant, as far as they are used here.           *)
StandardRates == {0, 9600, 38400}

(* serial_struct::baud_base of a usual UART.                               *)
BaudBase == 115200

Flowcontrols == {"none", "software", "hardware"}
Parities == {"none", "odd", "even", "mark", "space"}
Config == [baudrate : Nat, bytesize : 5..8, parity : Parities,
           stopbits : {"one", "two", "one_point_five"}, flowcontrol : Flowcontrols]

ControlLines == {"RTS", "DTR", "BRK"}

ASSUME SerialAssumption ==
  /\ Configs \subseteq Config
  /\ Refusals \subseteq {"open", "tcgetattr", "TIOCGSERIAL", "TIOCSSERIAL", "tcsetattr"}
  /\ ModemLines \subseteq {"CTS", "DSR", "RI", "CD"}
  /\ Clients \subseteq {"configures", "talks", "attaches"}
  /\ TalkConfigs \subseteq Configs
  /\ Object # {} /\ Signal # {} /\ Function # {}
  /\ MaxBytes \in Nat /\ MaxMoves \in Nat

VARIABLES
  client,    \* what this client is doing
  port,      \* object -> "none", "closed", "open", or "channel" (a SerialChannel)
  termios,   \* the device's settings: [speed, size, cflag, iflag, lflag, oflag]
  custom,    \* its serial_struct: [spd (is ASYNC_SPD_CUST set?), divisor]
  asked,     \* the last Serial that opened: [config, stick (was CMSPAR set?)], <<>> before
  control,   \* control lines raised
  modem,     \* modem lines raised
  moves,     \* changes of the modem lines so far
  output,    \* bytes written and not transmitted
  sent,      \* bytes transmitted
  input,     \* bytes that arrived and were not read
  got,       \* bytes read
  dropped,   \* bytes discarded by flushOutput and flushInput: [out, in]
  position,  \* the ByteReader of the client: bytes it has given to write
  arrived,   \* bytes that arrived
  call,      \* the call a thread is blocked in: [op, ...]
  promised,  \* bytes that waitReadable or available found, nothing read since
  drained    \* how the last flush returned: [early, left], <<>> until it does

line == <<termios, custom, asked>>
lines == <<control, modem, moves>>
data == <<output, sent, input, got, dropped, position, arrived>>
answers == <<call, promised, drained>>
serialVars == <<client, port, line, lines, data, answers>>
vars == <<serialVars, signalVars>>

NoCall == [op |-> "none"]

(* The settings of a device that no Serial has opened yet.                 *)
FoundSettings ==
  [speed : {9600}, size : {8}, cflag : {{"CREAD"}},
   iflag : {{"ICRNL", "IXON"} \cup f : f \in SUBSET Leftovers},
   lflag : {{"ICANON", "ECHO", "ISIG", "IEXTEN"}}, oflag : {{"OPOST"}}]

Init ==
  /\ client \in Clients
  /\ port = [p \in Object |-> "none"]
  /\ termios \in FoundSettings
  /\ custom = [spd |-> FALSE, divisor |-> 0]
  /\ asked = <<>>
  /\ control = {} /\ modem = {} /\ moves = 0
  /\ output = <<>> /\ sent = <<>> /\ input = <<>> /\ got = <<>>
  /\ dropped = [out |-> {}, in |-> {}]
  /\ position = 0 /\ arrived = 0
  /\ call = NoCall /\ promised = 0 /\ drained = <<>>
  /\ SignalInit
  /\ client # "attaches" => before = [s \in Signal |-> "SIG_DFL"]
-----------------------------------------------------------------------------
(* reconfigurePort                                                         *)

(* Raw mode, no echo, binary.                                              *)
Raw(t) ==
  [t EXCEPT !.cflag = @ \cup {"CLOCAL", "CREAD"},
            !.lflag = @ \ {"ICANON", "ECHO", "ISIG", "IEXTEN"},
            !.oflag = @ \ {"OPOST"},
            !.iflag = @ \ {"INLCR", "IGNCR", "ICRNL", "IGNBRK", "IUCLC", "PARMRK"}]

(* The switch over the rates: one that has no constant leaves the speed of *)
(* the termios alone, and gives the driver a divisor instead.              *)
IsCustom(baudrate) == baudrate \notin StandardRates
WithSpeed(t, baudrate) == IF IsCustom(baudrate) THEN t ELSE [t EXCEPT !.speed = baudrate]
CustomDivisor(baudrate) == [spd |-> TRUE, divisor |-> BaudBase \div baudrate]

(* Variant, as others below, for a mistake that the properties must        *)
(* notice: the bits of CSIZE are not cleared first.                        *)
WithSizeAdded(t, bytesize) ==
  LET a == t.size - 5
      b == bytesize - 5
      bit(n, k) == (n \div k) % 2
      or(k) == IF bit(a, k) + bit(b, k) > 0 THEN k ELSE 0
  IN  [t EXCEPT !.size = 5 + or(1) + or(2)]

WithSize(t, bytesize) == [t EXCEPT !.size = bytesize]

WithStopbits(t, stopbits) ==
  [t EXCEPT !.cflag = IF stopbits = "one" THEN @ \ {"CSTOPB"} ELSE @ \cup {"CSTOPB"}]

WithParity(t, parity) ==
  [t EXCEPT !.iflag = @ \ {"INPCK", "ISTRIP"},
            !.cflag = CASE parity = "none"  -> @ \ {"PARENB", "PARODD"}
                        [] parity = "even"  -> (@ \ {"PARODD"}) \cup {"PARENB"}
                        [] parity = "odd"   -> @ \cup {"PARENB", "PARODD"}
                        [] parity = "mark"  -> @ \cup {"PARENB", "CMSPAR", "PARODD"}
                        [] parity = "space" -> (@ \cup {"PARENB", "CMSPAR"}) \ {"PARODD"}]

WithFlowcontrol(t, flowcontrol) ==
  [t EXCEPT !.iflag = IF flowcontrol = "software"
                      THEN @ \cup {"IXON", "IXOFF"} ELSE @ \ {"IXON", "IXOFF", "IXANY"},
            !.cflag = IF flowcontrol = "hardware"
                      THEN @ \cup {"CRTSCTS"} ELSE @ \ {"CRTSCTS"}]

reconfigurePort(t, c) ==
  WithFlowcontrol(
    WithParity(
      WithStopbits(WithSize(WithSpeed(Raw(t), c.baudrate), c.bytesize), c.stopbits),
      c.parity),
    c.flowcontrol)

(* The system calls of the constructor, in order.                          *)
Steps(c) ==
  IF IsCustom(c.baudrate)
  THEN <<"open", "tcgetattr", "TIOCGSERIAL", "TIOCSSERIAL", "tcsetattr">>
  ELSE <<"open", "tcgetattr", "tcsetattr">>

(* How many of them succeed before one is refused.                         *)
Outcomes(c) ==
  {k \in 0..Len(Steps(c)) : k < Len(Steps(c)) => Steps(c)[k + 1] \in Refusals}

(* Who has the device open, and what the driver does at open(2) and when a *)
(* speed is set: it raises RTS and DTR, and lowers them for B0.            *)
Holds(p) == port[p] \in {"open", "channel"}
RaisedAt(t) ==
  IF t.speed = 0 THEN control \ {"RTS", "DTR"} ELSE control \cup {"RTS", "DTR"}

(* The descriptor was opened, and is closed again.                         *)
Withdrawn ==
  IF termios.speed # 0 /\ \E q \in Object : Holds(q) THEN RaisedAt(termios) ELSE control

(* Serial(...).  The refused one raises IOException, and ~File closes the  *)
(* descriptor; what was done before it stays done.  open(2) is tried again *)
(* when a signal interrupts it.                                            *)
Construct(p, c, k) ==
  LET Did(step) == \E i \in 1..k : Steps(c)[i] = step
  IN  /\ port[p] = "none"
      /\ custom' = IF Did("TIOCSSERIAL") THEN CustomDivisor(c.baudrate) ELSE custom
      /\ IF Did("tcsetattr")
         THEN /\ port' = [port EXCEPT ![p] = "open"]
              /\ termios' = reconfigurePort(termios, c)
              /\ asked' = [config |-> c, stick |-> "CMSPAR" \in termios.cflag]
              /\ control' = RaisedAt(termios')
         ELSE /\ control' = IF Did("open") THEN Withdrawn ELSE control
              /\ UNCHANGED <<port, termios, asked>>
      /\ UNCHANGED <<client, modem, moves, data, answers>>
-----------------------------------------------------------------------------
(* The constructor of a SerialChannel (src/src/async/serialChannel.cpp),   *)
(* which sets one option after another on the open device.  Its data goes  *)
(* through module StreamChannel.                                           *)

ChannelSteps ==
  <<"open", "baud_rate", "character_size", "parity", "stop_bits", "flow_control">>

(* toAsioParity raises for mark and space; asio for a rate that has no     *)
(* constant and, where termios cannot say it, for one and a half stop bits.*)
Supported(step, c) ==
  CASE step = "baud_rate" -> ~IsCustom(c.baudrate)
    [] step = "parity" -> c.parity \in {"none", "odd", "even"}
    [] step = "stop_bits" -> c.stopbits # "one_point_five"
    [] OTHER -> TRUE

(* How many steps succeed before one raises.                               *)
ChannelOutcomes(c) ==
  {k \in 0..Len(ChannelSteps) :
     /\ \A i \in 1..k : Supported(ChannelSteps[i], c)
     /\ k < Len(ChannelSteps) =>
          \/ ~Supported(ChannelSteps[k + 1], c)
          \/ (IF k = 0 THEN "open" ELSE "tcsetattr") \in Refusals}

(* asio opens a device in raw mode, with 8 bits and no parity.             *)
AsioRaw(t) ==
  [t EXCEPT !.size = 8,
            !.cflag = (@ \ {"PARENB"}) \cup {"CLOCAL", "CREAD"},
            !.lflag = @ \ {"ICANON", "ECHO", "ISIG", "IEXTEN"},
            !.oflag = @ \ {"OPOST"},
            !.iflag = @ \ {"INLCR", "IGNCR", "ICRNL", "IGNBRK", "PARMRK", "ISTRIP", "IXON"}]

(* asio leaves IXANY alone.                                                *)
WithAsioFlowcontrol(t, flowcontrol) ==
  [WithFlowcontrol(t, flowcontrol) EXCEPT !.iflag = @ \cup (t.iflag \cap {"IXANY"})]

(* The settings after k steps.                                             *)
AfterOptions(t, c, k) ==
  LET t1 == IF k >= 1 THEN AsioRaw(t) ELSE t
      t2 == IF k >= 2 THEN WithSpeed(t1, c.baudrate) ELSE t1
      t3 == IF k >= 3 THEN WithSize(t2, c.bytesize) ELSE t2
      t4 == IF k >= 4 THEN WithParity(t3, c.parity) ELSE t3
      t5 == IF k >= 5 THEN WithStopbits(t4, c.stopbits) ELSE t4
  IN  IF k >= 6 THEN WithAsioFlowcontrol(t5, c.flowcontrol) ELSE t5

(* One that raises half way leaves the line as nobody asked for.           *)
ConstructChannel(p, c, k) ==
  LET done == k = Len(ChannelSteps)
  IN  /\ port[p] = "none"
      /\ termios' = AfterOptions(termios, c, k)
      /\ port' = IF done THEN [port EXCEPT ![p] = "channel"] ELSE port
      /\ asked' = CASE done -> [config |-> c, stick |-> "CMSPAR" \in termios.cflag]
                    [] k = 0 -> asked
                    [] OTHER -> <<>>
      /\ control' = CASE done -> RaisedAt(termios')
                      [] k = 0 -> control
                      [] OTHER -> Withdrawn
      /\ UNCHANGED <<client, custom, modem, moves, data, answers>>
-----------------------------------------------------------------------------
(* The move constructor, swap and the move assignment.                     *)
move(p, q) ==
  /\ port[q] = "none" /\ port[p] \in {"open", "closed"}
  /\ port' = [port EXCEPT ![q] = port[p], ![p] = "closed"]
  /\ UNCHANGED <<client, line, lines, data, answers>>

swap(p, q) ==
  /\ p # q /\ port[p] \in {"open", "closed"} /\ port[q] \in {"open", "closed"}
  /\ port' = [port EXCEPT ![p] = port[q], ![q] = port[p]]
  /\ UNCHANGED <<client, line, lines, data, answers>>

Bytes(s) == {s[i] : i \in 1..Len(s)}

(* The last descriptor of the device goes: the driver drops what it holds  *)
(* and lowers the lines, but the settings stay.                            *)
Release(p) ==
  IF Holds(p) /\ \A q \in Object \ {p} : ~Holds(q)
  THEN /\ dropped' = [out |-> dropped.out \cup Bytes(output), in |-> dropped.in \cup Bytes(input)]
       /\ output' = <<>> /\ input' = <<>> /\ promised' = 0
       /\ control' = control \ {"RTS", "DTR"}
  ELSE UNCHANGED <<dropped, output, input, promised, control>>

(* close, and the destructor.                                              *)
Let(p, state) ==
  /\ call = NoCall
  /\ Release(p)
  /\ port' = [port EXCEPT ![p] = state]
  /\ UNCHANGED <<client, line, modem, moves, sent, got, position, arrived, call, drained>>

close(p) == Holds(p) /\ Let(p, "closed")
destroy(p) == port[p] # "none" /\ Let(p, "none")
-----------------------------------------------------------------------------
(* Data.  The methods of a Serial that is not open, and the ones whose     *)
(* system call is refused, raise and do nothing else.                      *)

isOpened(p) == port[p] = "open"

(* Variant: the ByteReader goes on by what was asked for.                  *)
AdvanceAsked(requested, taken) == requested

(* IOObject::write moves the ByteReader by what File::write returned.      *)
Advance(requested, taken) == taken

Numbered(from, n) == [i \in 1..n |-> from + i]

(* write of n bytes, of which the driver has room for some.                *)
write(p, n) ==
  /\ isOpened(p)
  /\ position + n <= MaxBytes
  /\ \E taken \in 1..n :
       /\ output' = output \o Numbered(position, taken)
       /\ position' = position + Advance(n, taken)
  /\ UNCHANGED <<client, port, line, lines, sent, input, got, dropped, arrived, answers>>

(* read of up to n bytes.  With VMIN and VTIME 0 it does not wait.         *)
read(p, n) ==
  LET k == IF Len(input) < n THEN Len(input) ELSE n
  IN  /\ isOpened(p)
      /\ got' = got \o SubSeq(input, 1, k)
      /\ input' = SubSeq(input, k + 1, Len(input))
      /\ promised' = 0
      /\ UNCHANGED <<client, port, line, lines, output, sent, dropped, position, arrived,
                     call, drained>>

available(p) ==
  /\ isOpened(p)
  /\ promised' = Len(input)
  /\ UNCHANGED <<client, port, line, lines, data, call, drained>>

flushInput(p) ==
  /\ isOpened(p)
  /\ dropped' = [dropped EXCEPT !.in = @ \cup Bytes(input)]
  /\ input' = <<>> /\ promised' = 0
  /\ UNCHANGED <<client, port, line, lines, output, sent, got, position, arrived, call, drained>>

flushOutput(p) ==
  /\ isOpened(p)
  /\ dropped' = [dropped EXCEPT !.out = @ \cup Bytes(output)]
  /\ output' = <<>>
  /\ UNCHANGED <<client, port, line, lines, sent, input, got, position, arrived, answers>>

(* The device: hardware flow control holds a byte back while CTS is down.  *)
Transmit ==
  /\ output # <<>>
  /\ "CRTSCTS" \in termios.cflag => "CTS" \in modem
  /\ sent' = Append(sent, Head(output))
  /\ output' = Tail(output)
  /\ UNCHANGED <<client, port, line, lines, input, got, dropped, position, arrived, answers>>

Arrive ==
  /\ \E p \in Object : isOpened(p)
  /\ arrived < MaxBytes
  /\ arrived' = arrived + 1
  /\ input' = Append(input, arrived + 1)
  /\ UNCHANGED <<client, port, line, lines, output, sent, got, dropped, position, answers>>
-----------------------------------------------------------------------------
(* Control lines: setBreak, setRTS and setDTR.  The pulse of sendBreak     *)
(* ends a break that setBreak began.                                       *)

setLine(p, l, level) ==
  /\ isOpened(p)
  /\ control' = IF level THEN control \cup {l} ELSE control \ {l}
  /\ UNCHANGED <<client, port, line, modem, moves, data, answers>>

sendBreak(p) ==
  /\ isOpened(p)
  /\ control' = control \ {"BRK"}
  /\ UNCHANGED <<client, port, line, modem, moves, data, answers>>
-----------------------------------------------------------------------------
(* The calls that wait, one at a time.  early: a signal came meanwhile.    *)

Enter(p, c) ==
  /\ isOpened(p)
  /\ call = NoCall
  /\ call' = c
  /\ drained' = <<>>
  /\ UNCHANGED <<client, port, line, lines, data, promised>>

(* flush: tcdrain, whose result is not looked at.                          *)
flush(p) == Enter(p, [op |-> "flush", early |-> FALSE, upto |-> position])

flushReturns ==
  /\ call.op = "flush"
  /\ output = <<>> \/ call.early
  /\ drained' = [early |-> call.early, left |-> Bytes(output) \cap 1..call.upto]
  /\ call' = NoCall
  /\ UNCHANGED <<client, port, line, lines, data, promised>>

waitReadable(p) == Enter(p, [op |-> "waitReadable", early |-> FALSE])

(* Variant: an interrupted pselect is taken for a port that is ready.      *)
answerInterrupted(ready) == ready \/ call.early

(* What waitReadable returns: not ready after EINTR or the timeout.        *)
answer(ready) == ready

(* It returns when there is data, when a signal came, or after its time.   *)
waitReadableReturns ==
  /\ call.op = "waitReadable"
  /\ \E ready \in {input # <<>>, FALSE} : promised' = IF answer(ready) THEN 1 ELSE 0
  /\ call' = NoCall
  /\ UNCHANGED <<client, port, line, lines, data, drained>>

(* waitForChange: TIOCMIWAIT takes its mask by value and is given the      *)
(* address of one, so that any of the lines may be watched or not.         *)
waitForChange(p) ==
  \E mask \in SUBSET ModemLines :
    Enter(p, [op |-> "waitForChange", early |-> FALSE, mask |-> mask, moved |-> {}])

(* It returns true, or raises after a signal.                              *)
waitForChangeReturns ==
  /\ call.op = "waitForChange"
  /\ call.moved \cap call.mask # {} \/ call.early
  /\ call' = NoCall
  /\ UNCHANGED <<client, port, line, lines, data, promised, drained>>

(* The other end moves a modem line.                                       *)
MoveLine(l) ==
  /\ moves < MaxMoves
  /\ moves' = moves + 1
  /\ modem' = IF l \in modem THEN modem \ {l} ELSE modem \cup {l}
  /\ call' = IF call.op = "waitForChange" THEN [call EXCEPT !.moved = @ \cup {l}] ELSE call
  /\ UNCHANGED <<client, port, line, control, data, promised, drained>>

(* A signal: attachHandler sets no SA_RESTART, and the call returns early. *)
Interrupt(s) ==
  /\ Deliver(s)
  /\ call' = IF call = NoCall THEN call ELSE [call EXCEPT !.early = TRUE]
  /\ UNCHANGED <<client, port, line, lines, data, promised, drained>>
-----------------------------------------------------------------------------
Configure ==
  \/ \E p \in Object, c \in Configs : \E k \in Outcomes(c) : Construct(p, c, k)
  \/ \E p \in Object, c \in Configs : \E k \in ChannelOutcomes(c) : ConstructChannel(p, c, k)
  \/ \E p, q \in Object : move(p, q) \/ swap(p, q)
  \/ \E p \in Object : close(p) \/ destroy(p) \/ sendBreak(p)
  \/ \E p \in Object, l \in ControlLines, level \in BOOLEAN : setLine(p, l, level)

(* A client that talks has one Serial, one handler and one signal.         *)
Talk(p) ==
  \/ \E c \in TalkConfigs : Construct(p, c, Len(Steps(c)))
  \/ close(p)
  \/ \E n \in 1..2 : write(p, n) \/ read(p, n)
  \/ available(p) \/ flushInput(p) \/ flushOutput(p)
  \/ Transmit
  \/ Arrive
  \/ flush(p) \/ waitReadable(p) \/ waitForChange(p)
  \/ flushReturns \/ waitReadableReturns \/ waitForChangeReturns
  \/ \E l \in ModemLines : MoveLine(l)

TalkPort == CHOOSE p \in Object : TRUE
TalkSignal == CHOOSE s \in Signal : TRUE
TalkHandler == CHOOSE h \in Function : TRUE

Next ==
  \/ client = "configures" /\ Configure /\ UNCHANGED signalVars
  \/ client = "talks" /\ Talk(TalkPort) /\ UNCHANGED signalVars
  \/ client = "talks" /\ raised = 0 /\ Interrupt(TalkSignal)
  \/ /\ client = "talks"
     /\ attached[TalkSignal] = <<>>
     /\ attachHandler(TalkSignal, TalkHandler) \/ BeginEmplace \/ EndEmplace
     /\ UNCHANGED serialVars
  \/ client = "attaches" /\ SignalNext /\ UNCHANGED serialVars

Spec == Init /\ [][Next]_vars
-----------------------------------------------------------------------------
(* Properties                                                              *)

(* What the settings make of the line.  The driver uses the divisor at     *)
(* 38400 only; a rate above BaudBase has the divisor 0.                    *)
Rate ==
  IF ~(termios.speed = 38400 /\ custom.spd) THEN termios.speed
  ELSE IF custom.divisor = 0 THEN 0 ELSE BaudBase \div custom.divisor

Parity ==
  CASE "PARENB" \notin termios.cflag -> "none"
    [] {"PARENB", "CMSPAR"} \subseteq termios.cflag ->
         IF "PARODD" \in termios.cflag THEN "mark" ELSE "space"
    [] OTHER -> IF "PARODD" \in termios.cflag THEN "odd" ELSE "even"

Flowcontrol ==
  IF {"IXON", "IXOFF"} \subseteq termios.iflag THEN "software"
  ELSE IF "CRTSCTS" \in termios.cflag THEN "hardware" ELSE "none"

(* Whatever was done to the device before, and whatever constructors of    *)
(* Serial failed since, the line is as the last Serial or SerialChannel    *)
(* that opened asked for (serial.hpp:129-147), unless a SerialChannel      *)
(* failed half way after it: the size of a byte, the stop bits, flow       *)
(* control and a line without translation always; parity, unless it is     *)
(* even or odd and an earlier Serial had asked for mark or space, whose    *)
(* CMSPAR is never taken back; the rate, if it has a constant and is not   *)
(* 38400 after a custom rate, whose divisor is never taken back either.    *)
LineAsAsked ==
  asked # <<>> =>
    /\ termios.size = asked.config.bytesize
    /\ ("CSTOPB" \in termios.cflag) = (asked.config.stopbits # "one")
    /\ Flowcontrol = asked.config.flowcontrol
    /\ termios.lflag = {} /\ termios.oflag = {} /\ "ICRNL" \notin termios.iflag
    /\ Parity = asked.config.parity \/ (asked.stick /\ asked.config.parity \in {"even", "odd"})
    /\ \/ Rate = asked.config.baudrate
       \/ IsCustom(asked.config.baudrate)
       \/ asked.config.baudrate = 38400 /\ custom.spd

Ascending(s) == \A i, j \in 1..Len(s) : i < j => s[i] < s[j]

(* No byte is skipped, doubled or reordered: what the client's reader has  *)
(* gone past was transmitted, is waiting or was dropped by a flush or the  *)
(* last close; what arrived was read, is waiting or was dropped            *)
(* (ioobject.cpp:28-48).                                                   *)
BytesInOrder ==
  /\ Ascending(sent \o output) /\ Ascending(got \o input)
  /\ Bytes(sent \o output) \cup dropped.out = 1..position
  /\ Bytes(got \o input) \cup dropped.in = 1..arrived

(* What a call that waited says is so.  "The return value is true when the *)
(* function exits with the port in a readable state, false otherwise (due  *)
(* to timeout or select interruption)" (serial.hpp:248): what waitReadable *)
(* or available found is there until somebody reads or flushes it, signals *)
(* or not.  And after flush what was written before it is out, unless a    *)
(* signal came: then it returns all the same, and says nothing             *)
(* (serial.cpp:379).                                                       *)
AnswersHold ==
  /\ promised <= Len(input)
  /\ drained # <<>> /\ ~drained.early => drained.left = {}

(* What the code's own words say beyond that, which it does not do.        *)

(* "parity Method of parity" (serial.hpp:138): the line has the parity     *)
(* that the last Serial or SerialChannel to open was given.                *)
ParityAsAsked == asked # <<>> => Parity = asked.config.parity

(* "baudrate An baud rate" (serial.hpp:129), and so its rate.              *)
RateAsAsked == asked # <<>> => Rate = asked.config.baudrate

(* "any unwritten data in the output buffer is written to the file"        *)
(* (file.hpp:215): when flush has returned, and raised nothing, what was   *)
(* written before it is out.                                               *)
FlushedIsOut == drained # <<>> => drained.left = {}
=============================================================================
