-------------------------------- MODULE MCIO --------------------------------
(* TLC instance of Serial with the SignalDispatcher, and of Files with       *)
(* PortList: a program that configures serial ports, or talks through one,   *)
(* or attaches handlers; or that edits one longer file, or has two short     *)
(* ones and names for them; or that lists the serial ports, a USB, an ACM    *)
(* and a PCI device.                                                         *)
EXTENDS Serial, PortList, TLC

VARIABLE does   \* what this program does

ioVars == <<does, vars, listVars>>

IOInit ==
  /\ Init /\ PortsInit
  /\ \/ does = client /\ program = "edits"
     \/ /\ does = program /\ client = "attaches"
        /\ termios = CHOOSE t \in FoundSettings : TRUE
        /\ before \in [Signal -> {"SIG_DFL"}]

IONext ==
  \/ does \in Clients /\ Next /\ UNCHANGED <<does, listVars>>
  \/ does \in Programs /\ PortsNext /\ UNCHANGED <<does, vars>>

IOSpec == IOInit /\ [][IONext]_ioVars

(* 7200 and 250000 have no constant, and 250000 is above the base rate.      *)
(* The settings are made one by one, so only neighbours need be tried        *)
(* together: rates with a parity or none, all parities at one rate, sizes    *)
(* with stop bits and flow controls.                                         *)
MCConfigs ==
  [baudrate : {0, 9600, 38400, 7200, 250000}, bytesize : {8}, parity : {"none", "mark"},
   stopbits : {"one"}, flowcontrol : {"none"}]
    \cup
  [baudrate : {9600}, bytesize : {8}, parity : Parities,
   stopbits : {"one"}, flowcontrol : {"none"}]
    \cup
  [baudrate : {9600}, bytesize : {7, 8}, parity : {"none"},
   stopbits : {"one", "one_point_five", "two"}, flowcontrol : Flowcontrols]

MCTalkConfigs ==
  {[baudrate |-> 9600, bytesize |-> 8, parity |-> "none", stopbits |-> "one",
    flowcontrol |-> f] : f \in {"none", "hardware"}}

Whole == spoiled = {}
Symmetry == Permutations(Handle)

(* Two directories with one name; streams of two bytes.                      *)
MCPrograms == {"edits", "names", "ports"}
MCMaxFiles == [p \in MCPrograms |-> IF p = "names" THEN 2 ELSE 1]
MCMaxLength == [p \in MCPrograms |-> IF p = "names" THEN 1 ELSE 3]
MCRequest == {[dir |-> ".", name |-> "x"], [dir |-> "tmp", name |-> "x"]}
MCData == {<<1>>, <<2, 2>>}
MCOffsets == {-1, 0, 1}
MCDriver == [s \in Slot |-> IF s = "ttyACM0" THEN "ttyACM" ELSE IF s = "ttyS0" THEN "ttyS" ELSE "ttyUSB"]
=============================================================================
