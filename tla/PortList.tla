------------------------------- MODULE PortList -------------------------------
(***************************************************************************)
(* Serial::enumeratePorts (src/src/io/serial_list_ports.cpp): the serial   *)
(* ports of the machine, found with PlatformFilesystem::glob, each with a  *)
(* name and an identity read from several files under /sys.  Devices come  *)
(* and go meanwhile, and one may take the place of another.                *)
(***************************************************************************)
EXTENDS Files

CONSTANTS
  Slot,       \* where a device can be plugged in; it gives its tty the name
  Driver,     \* slot -> "ttyACM", "ttyS" or "ttyUSB": how the name of its tty begins
  Plugged,    \* the slots that may be taken at first
  MaxPlugs    \* bound: devices plugged in, the first ones too

(* The patterns given to glob, in order (nothing here is called tty.* or   *)
(* cu.*, and no name matches two).                                         *)
Patterns == <<"ttyACM", "ttyS", "ttyUSB">>

(* The path that realPath answers with when there is none.                 *)
EmptyPath == ""

ASSUME PortAssumption ==
  /\ IsFiniteSet(Slot) /\ EmptyPath \notin Slot
  /\ Driver \in [Slot -> {"ttyACM", "ttyS", "ttyUSB"}]
  /\ Plugged \subseteq Slot

VARIABLES
  device,   \* slot -> the device there, None when it is empty
  plugs,    \* devices plugged in so far
  task,     \* enumeratePorts: [pc, ...], or Idle
  found,    \* the paths that glob has found, in order
  ports,    \* the result so far: SerialPortInfo records
  steady,   \* slots whose device has been there since the call
  seen      \* slots that have had a device since the call

portVars == <<device, plugs, task, found, ports, steady, seen>>
listVars == <<fileVars, portVars>>

Idle == [pc |-> "idle"]
Occupied == {s \in Slot : device[s] # None}

PortsInit ==
  /\ FilesInit
  /\ \E taken \in SUBSET (IF program = "ports" THEN Plugged ELSE {}) :
       device \in {d \in [Slot -> 0..Cardinality(taken)] :
                     /\ \A s \in Slot : (d[s] # None) = (s \in taken)
                     /\ \A s, t \in taken : s # t => d[s] # d[t]}
  /\ plugs = Cardinality(Occupied)
  /\ task = Idle /\ found = <<>> /\ ports = <<>> /\ steady = {} /\ seen = {}
-----------------------------------------------------------------------------
(* A line of a file under /sys: what the device there says of itself, and  *)
(* empty when there is none.                                               *)
Empty == 0
readLine(path) == IF path = EmptyPath THEN Empty ELSE device[path]

(* The directory of a tty's device, or an empty path when it is gone.      *)
realPath(s) == IF s \in Occupied THEN s ELSE EmptyPath

Begin ==
  /\ program = "ports" /\ task = Idle /\ ports = <<>>
  /\ task' = [pc |-> "glob", pattern |-> 1]
  /\ steady' = Occupied /\ seen' = Occupied
  /\ UNCHANGED <<device, plugs, found, ports>>

(* The slots whose tty matches a pattern, in some order.                   *)
Matches(pattern) == {s \in Occupied : Driver[s] = pattern}
Orders(S) == {q \in [1..Cardinality(S) -> S] : \A i, j \in DOMAIN q : i # j => q[i] # q[j]}

(* Variant: without GLOB_APPEND a call replaces what the last one found.   *)
globAfresh(pattern, before) == Orders(Matches(pattern))

(* ::glob of one more pattern.                                             *)
glob(pattern, before) == {before \o q : q \in Orders(Matches(pattern))}

Glob ==
  /\ task.pc = "glob"
  /\ found' \in glob(Patterns[task.pattern], found)
  /\ task' = IF task.pattern < Len(Patterns) THEN [task EXCEPT !.pattern = @ + 1]
             ELSE [pc |-> "next"]
  /\ UNCHANGED <<device, plugs, ports, steady, seen>>

(* The loop over the paths: the next one, or the result.                   *)
NextDevice ==
  /\ task.pc = "next"
  /\ task' = IF Len(ports) = Len(found) THEN [pc |-> "done"]
             ELSE [pc |-> "resolve", slot |-> found[Len(ports) + 1]]
  /\ UNCHANGED <<device, plugs, found, ports, steady, seen>>

(* get_sysfs_info: the directory of a USB device is found by following     *)
(* links, that of any other under its name.                                *)
Resolve ==
  /\ task.pc = "resolve"
  /\ task' = [pc |-> "exists", slot |-> task.slot,
              path |-> IF Driver[task.slot] = "ttyS" THEN task.slot ELSE realPath(task.slot)]
  /\ UNCHANGED <<device, plugs, found, ports, steady, seen>>

(* A SerialPortInfo.  An empty name, when no line of it could be read, is  *)
(* replaced by that of the tty, and an empty identity by "n/a".            *)
Info(slot, friendly, hardware) ==
  [path |-> slot,
   friendly_name |-> IF \A i \in DOMAIN friendly : friendly[i] = Empty THEN <<>> ELSE friendly,
   hardware_id |-> hardware]

Emplace(info) ==
  /\ ports' = Append(ports, info)
  /\ task' = [pc |-> "next"]

(* The parent of an empty path may be the root directory, which is there;  *)
(* no line is found in it.                                                 *)
ExistsAnswers(path) == IF path = EmptyPath THEN BOOLEAN ELSE {device[path] # None}

Exists ==
  /\ task.pc = "exists"
  /\ \E there \in ExistsAnswers(task.path) :
       IF there
       THEN /\ task' = [pc |-> "read", slot |-> task.slot, path |-> task.path, lines |-> <<>>]
            /\ UNCHANGED ports
       ELSE Emplace(Info(task.slot, <<>>, <<>>))
  /\ UNCHANGED <<device, plugs, found, steady, seen>>

(* usb_sysfs_friendly_name reads manufacturer, product and serial, then    *)
(* usb_sysfs_hw_string idVendor, idProduct and serial; other devices have  *)
(* one line, id.                                                           *)
Lines(slot) == IF Driver[slot] = "ttyS" THEN 1 ELSE 6

Described(slot, lines) ==
  IF Driver[slot] = "ttyS" THEN Info(slot, <<>>, IF lines[1] = Empty THEN <<>> ELSE lines)
  ELSE Info(slot, SubSeq(lines, 1, 3), SubSeq(lines, 4, 6))

Read ==
  /\ task.pc = "read"
  /\ LET lines == Append(task.lines, readLine(task.path))
     IN  IF Len(lines) < Lines(task.slot)
         THEN task' = [task EXCEPT !.lines = lines] /\ UNCHANGED ports
         ELSE Emplace(Described(task.slot, lines))
  /\ UNCHANGED <<device, plugs, found, steady, seen>>
-----------------------------------------------------------------------------
Plug(s) ==
  /\ program = "ports" /\ task # Idle /\ task.pc # "done"
  /\ device[s] = None /\ plugs < MaxPlugs
  /\ device' = [device EXCEPT ![s] = plugs + 1] /\ plugs' = plugs + 1
  /\ seen' = seen \cup {s}
  /\ UNCHANGED <<task, found, ports, steady>>

Unplug(s) ==
  /\ program = "ports" /\ task # Idle /\ task.pc # "done"
  /\ device[s] # None
  /\ device' = [device EXCEPT ![s] = None]
  /\ steady' = steady \ {s}
  /\ UNCHANGED <<plugs, task, found, ports, seen>>

PortNext ==
  \/ Begin \/ Glob \/ NextDevice \/ Resolve \/ Exists \/ Read
  \/ \E s \in Slot : Plug(s) \/ Unplug(s)

PortsNext ==
  \/ program # "ports" /\ FilesNext /\ UNCHANGED portVars
  \/ PortNext /\ UNCHANGED fileVars

PortsSpec == PortsInit /\ [][PortsNext]_listVars
-----------------------------------------------------------------------------
(* enumeratePorts while devices come and go: a port that has been there    *)
(* all along is in the result, once, with its own description, and a port  *)
(* in the result was there at some time during the call, and is there      *)
(* once.                                                                   *)
PortsListed ==
  task.pc = "done" =>
    /\ \A s \in steady : \E i \in DOMAIN ports :
         ports[i] = Described(s, [n \in 1..Lines(s) |-> device[s]])
    /\ \A i \in DOMAIN ports : ports[i].path \in seen
    /\ \A i, j \in DOMAIN ports : i # j => ports[i].path # ports[j].path
====
