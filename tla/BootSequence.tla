----------------------------- MODULE BootSequence ------------------------------
(***************************************************************************)
(* The programs run before a transit: the serial and the network validator *)
(* and main.py up to its loop, one after the other and in any order, with  *)
(* the configuration file the last one loads or generates.                 *)
(*                                                                         *)
(* A port under test has a tester thread, a wire that returns what was     *)
(* written, and an input buffer; a frame is its number, a sentence of an   *)
(* instrument that talks on the port is 0, and Garbled is whatever fails   *)
(* the checksum.  The suite's verdict on the ledgers is AuditLedger's.     *)
(***************************************************************************)
EXTENDS LegacyWords

CONSTANTS
    Ports,          \* the handles of manifest.json
    Talkers,        \* those with an instrument attached instead of a plug
    Frames,         \* frames_per_port
    ClassCount,     \* how many of the manifest's hull classes
    MaxBoots,      \* bound: programs started
    MaxNoise,       \* bound: lost and garbled frames, failing ports, strangers' packets
    MaxEdits        \* bound: changes of the configuration file from outside

ASSUME BootConstants ==
    /\ IsFiniteSet(Ports) /\ Talkers \subseteq Ports
    /\ Frames \in Nat \ {0}
    /\ ClassCount \in 1..5
    /\ MaxBoots \in Nat /\ MaxNoise \in Nat /\ MaxEdits \in Nat

VARIABLES
    program,        \* the one running, "none" between two
    starts, noise, edits,
    tester,         \* per port: where its thread stands, and what it counted
    wire, inbox,    \* per port: frames not yet back, bytes not yet read
    heard,          \* history: the sentences a port counted as received
    verdict,        \* validation_results, "none" where there is no entry
    os, turn,       \* the network audit: the platform, the class it is at,
    shaken,         \* where its handshake stands,
    ether,          \* the echoes not yet received,
    answered,       \* history: the classes whose own frame came back in time,
    suitePassed,    \* what it will return
    at, found,      \* main.py: where it stands, the file its loader found
    file, profile, model, mac,
    wires           \* the handles of the four hardware wires that are open

auditVars  == <<tester, wire, inbox, heard, verdict>>
netVars    == <<os, turn, shaken, ether, answered, suitePassed>>
bridgeVars == <<at, found, profile, model, mac, wires>>
bootVars == <<program, starts, noise, edits, auditVars, netVars, bridgeVars, file>>

Classes ==
    SubSeq(<<"EARLY_AEGIS_CRUISER", "EARLY_AEGIS_DESTROYER", "ENTERPRISE_CARRIER",
             "PRE_AEGIS_COMBATTANT", "PRE_AEGIS_AUXILIARY">>, 1, ClassCount)

Garbled == Frames + 1
Idle == [at |-> "idle", sent |-> 0, received |-> 0, failures |-> 0, timeouts |-> 0]
Wires == {"steering", "weapon", "machinery", "shore"}
NoMac == HandshakeMac("EARLY_AEGIS_DESTROYER", 0, 0, 0, 0)

\* A thread that failed between its write and the end of its read.
Interrupted(p) ==
    /\ tester[p].at \in {"closed", "dead"}
    /\ tester[p].sent > tester[p].received + tester[p].failures + tester[p].timeouts

BootTypeOK ==
    /\ program \in {"none", "serial", "network", "bridge"}
    /\ starts \in 0..MaxBoots /\ noise \in 0..MaxNoise /\ edits \in 0..MaxEdits
    /\ \A p \in Ports :
        /\ tester[p].at \in {"idle", "opening", "write", "read", "closed", "dead"}
        /\ tester[p].sent - (tester[p].received + tester[p].failures + tester[p].timeouts)
             = IF tester[p].at = "read" \/ Interrupted(p) THEN 1 ELSE 0
    /\ turn \in 1..(Len(Classes) + 1) /\ ether \subseteq 1..Len(Classes)
    /\ file \in {"absent", "torn", "defaults", "edited", "invalid", "foreign"}
    /\ profile \in {"none", "fallback", "file"} /\ wires \subseteq Wires /\ model \in Models

BootInit ==
    /\ program = "none" /\ starts = 0 /\ noise = 0 /\ edits = 0
    /\ tester = [p \in Ports |-> Idle]
    /\ wire = [p \in Ports |-> << >>] /\ inbox = wire /\ heard = wire
    /\ verdict = [p \in Ports |-> "none"]
    /\ os = "posix" /\ turn = 1 /\ shaken = "no" /\ ether = {}
    /\ answered = {} /\ suitePassed = TRUE
    /\ at = "off" /\ found = "absent" /\ file = "absent" /\ profile = "none"
    /\ model = "AN/UYK-43" /\ mac = NoMac /\ wires = {}

Start(p) ==
    /\ program = "none" /\ starts < MaxBoots
    /\ program' = p /\ starts' = starts + 1

Mishap == noise < MaxNoise /\ noise' = noise + 1

-----------------------------------------------------------------------------
(* hardware_serial_validator.py                                            *)

StartSerialAudit ==
    /\ Start("serial")
    /\ tester' = [p \in Ports |-> [Idle EXCEPT !.at = "opening"]]
    /\ \E stale \in SUBSET Ports :      \* bytes the driver had buffered
            inbox' = [p \in Ports |-> IF p \in stale THEN <<0>> ELSE << >>]
    /\ UNCHANGED <<noise, edits, wire, heard, verdict, netVars, bridgeVars, file>>

\* Mutant of OpenTestPort: the input buffer is not reset.
OpenTestPort_KeepInput(p) ==
    /\ program = "serial" /\ tester[p].at = "opening"
    /\ tester' = [tester EXCEPT ![p].at = "write"]
    /\ UNCHANGED <<program, starts, noise, edits, wire, inbox, heard, verdict, netVars, bridgeVars, file>>

OpenTestPort(p) ==
    /\ program = "serial" /\ tester[p].at = "opening"
    /\ tester' = [tester EXCEPT ![p].at = "write"]
    /\ inbox' = [inbox EXCEPT ![p] = << >>]
    /\ UNCHANGED <<program, starts, noise, edits, wire, heard, verdict, netVars, bridgeVars, file>>

\* Without a plug the frame goes nowhere.
WriteFrame(p) ==
    /\ tester[p].at = "write" /\ tester[p].sent < Frames
    /\ tester' = [tester EXCEPT ![p].at = "read", ![p].sent = @ + 1]
    /\ wire' = IF p \in Talkers THEN wire ELSE [wire EXCEPT ![p] = Append(@, tester[p].sent + 1)]
    /\ UNCHANGED <<program, starts, noise, edits, inbox, heard, verdict, netVars, bridgeVars, file>>

\* readline found a line: a sentence whose checksum is right is a frame
\* received, whichever sentence it is.
ReadFrame(p) ==
    /\ tester[p].at = "read" /\ inbox[p] # << >>
    /\ LET f == Head(inbox[p]) IN
        IF f = Garbled
        THEN /\ tester' = [tester EXCEPT ![p].at = "write", ![p].failures = @ + 1]
             /\ UNCHANGED heard
        ELSE /\ tester' = [tester EXCEPT ![p].at = "write", ![p].received = @ + 1]
             /\ heard' = [heard EXCEPT ![p] = Append(@, f)]
    /\ inbox' = [inbox EXCEPT ![p] = Tail(@)]
    /\ UNCHANGED <<program, starts, noise, edits, wire, verdict, netVars, bridgeVars, file>>

\* Mutant of ReadTimeout: the port is opened without the 100 ms timeout.
ReadTimeout_Never(p) == FALSE /\ ReadFrame(p)

ReadTimeout(p) ==
    /\ tester[p].at = "read" /\ inbox[p] = << >>
    /\ tester' = [tester EXCEPT ![p].at = "write", ![p].timeouts = @ + 1]
    /\ UNCHANGED <<program, starts, noise, edits, wire, inbox, heard, verdict, netVars, bridgeVars, file>>

\* Mutant of Verdict: a port without checksum failures passes.
Verdict_NoFailures(w) == IF w.failures = 0 THEN "PASSED" ELSE "FAILED"

Verdict(w) == IF w.received = Frames /\ w.failures = 0 THEN "PASSED" ELSE "FAILED"

Judge(p) ==
    /\ tester[p].at = "write" /\ tester[p].sent = Frames
    /\ verdict' = [verdict EXCEPT ![p] = Verdict(tester[p])]
    /\ tester' = [tester EXCEPT ![p].at = "closed"]
    /\ UNCHANGED <<program, starts, noise, edits, wire, inbox, heard, netVars, bridgeVars, file>>

\* A SerialException is a verdict; any other exception ends the thread, and
\* the port has no entry in the results.
PortFails(p) ==
    /\ tester[p].at \in {"opening", "write", "read"} /\ Mishap
    /\ \/ /\ verdict' = [verdict EXCEPT ![p] = "PORT_UNAVAILABLE"]
          /\ tester' = [tester EXCEPT ![p].at = "closed"]
       \/ /\ tester' = [tester EXCEPT ![p].at = "dead"]
          /\ UNCHANGED verdict
    /\ UNCHANGED <<program, starts, edits, wire, inbox, heard, netVars, bridgeVars, file>>

\* The plug returns the frames in order, sooner or later, and may spoil one;
\* an instrument sends sentences of its own.
WireStep(p) ==
    /\ program = "serial"
    /\ \/ /\ wire[p] # << >>
          /\ \/ inbox' = [inbox EXCEPT ![p] = Append(@, Head(wire[p]))] /\ UNCHANGED noise
             \/ inbox' = [inbox EXCEPT ![p] = Append(@, Garbled)] /\ Mishap
             \/ UNCHANGED inbox /\ Mishap
          /\ wire' = [wire EXCEPT ![p] = Tail(@)]
       \/ /\ p \in Talkers /\ tester[p].at = "read" /\ inbox[p] = << >>
          /\ inbox' = [inbox EXCEPT ![p] = <<0>>]
          /\ UNCHANGED <<wire, noise>>
    /\ UNCHANGED <<program, starts, edits, tester, heard, verdict, netVars, bridgeVars, file>>

\* The threads are joined, the results printed, and the process ends.
EndSerialAudit ==
    /\ program = "serial" /\ \A p \in Ports : tester[p].at \in {"closed", "dead"}
    /\ program' = "none"
    /\ tester' = [p \in Ports |-> Idle]
    /\ wire' = [p \in Ports |-> << >>] /\ inbox' = wire' /\ heard' = wire'
    /\ verdict' = [p \in Ports |-> "none"]
    /\ UNCHANGED <<starts, noise, edits, netVars, bridgeVars, file>>

-----------------------------------------------------------------------------
(* hardware_network_validator.py: a handshake for every class, device 1 on *)
(* mainframe 0 behind switch port 1.                                       *)

AuditedMac(class) == HandshakeMac(class, 1, 0, 0, 1)

\* Without a manifest the constructor exits, and nothing has been tried.
StartNetworkAudit ==
    /\ Start("network")
    /\ \/ turn' = 1 /\ suitePassed' = TRUE
       \/ turn' = Len(Classes) + 1 /\ suitePassed' = FALSE
    /\ os' \in {"nt", "posix"}
    /\ UNCHANGED <<noise, edits, shaken, ether, answered, auditVars, bridgeVars, file>>

\* A new socket, bound before the frame leaves.  On Windows there is none.
SendFrame ==
    /\ program = "network" /\ turn <= Len(Classes) /\ shaken = "no"
    /\ \/ /\ os = "nt"
          /\ shaken' = "passed" /\ UNCHANGED <<ether, noise>>
       \/ /\ os = "posix"
          /\ shaken' = "sent" /\ ether' = ether \cup {turn} /\ UNCHANGED noise
       \/ /\ os = "posix" /\ Mishap        \* PermissionError, no such interface
          /\ shaken' = "failed" /\ UNCHANGED ether
    /\ UNCHANGED <<program, starts, edits, os, turn, answered, suitePassed, auditVars, bridgeVars, file>>

\* Mutant of Receive: any packet is taken for the echo, a stranger's too.
Receive_AnyPacket ==
    /\ shaken = "sent"
    /\ \/ \E echo \in ether :
            /\ shaken' = "passed"
            /\ answered' = IF echo = turn THEN answered \cup {turn} ELSE answered
            /\ ether' = ether \ {echo}
            /\ UNCHANGED noise
       \/ shaken' = "passed" /\ Mishap /\ UNCHANGED <<answered, ether>>
       \/ shaken' = "failed" /\ UNCHANGED <<answered, ether, noise>>
    /\ UNCHANGED <<program, starts, edits, os, turn, suitePassed, auditVars, bridgeVars, file>>

\* The first packet the socket sees, and only that: the echo of this class or
\* a late one of an earlier class, a stranger's, or none within 200 ms.
Receive ==
    /\ shaken = "sent"
    /\ \/ \E echo \in ether :
            /\ shaken' = IF AuditedMac(Classes[echo]) = AuditedMac(Classes[turn]) THEN "passed" ELSE "failed"
            /\ answered' = IF echo = turn THEN answered \cup {turn} ELSE answered
            /\ ether' = ether \ {echo}
            /\ UNCHANGED noise
       \/ shaken' = "failed" /\ Mishap /\ UNCHANGED <<answered, ether>>
       \/ shaken' = "failed" /\ UNCHANGED <<answered, ether, noise>>
    /\ UNCHANGED <<program, starts, edits, os, turn, suitePassed, auditVars, bridgeVars, file>>

NextClass ==
    /\ program = "network" /\ shaken \in {"passed", "failed"}
    /\ suitePassed' = (suitePassed /\ shaken = "passed")
    /\ turn' = turn + 1 /\ shaken' = "no"
    /\ UNCHANGED <<program, starts, noise, edits, os, ether, answered, auditVars, bridgeVars, file>>

EndNetworkAudit ==
    /\ program = "network" /\ turn > Len(Classes)
    /\ program' = "none"
    /\ turn' = 1 /\ ether' = {} /\ answered' = {} /\ suitePassed' = TRUE
    /\ os' = "posix"
    /\ UNCHANGED <<starts, noise, edits, shaken, auditVars, bridgeVars, file>>

-----------------------------------------------------------------------------
(* main.py: what it does when imported, and bootstrap_system up to the loop. *)

\* Its actions leave the audits alone.
BridgeStep == UNCHANGED <<starts, auditVars, netVars>>

StartBridge ==
    /\ Start("bridge") /\ at' = "import"
    /\ profile' = "none" /\ wires' = {} /\ mac' = NoMac
    /\ UNCHANGED <<noise, edits, auditVars, netVars, found, file, model>>

\* The mainframe's model is chosen and the interface's address computed.  The
\* class is looked up in the profile, where metadata never is: the default.
Import ==
    /\ at = "import" /\ at' = "suite"
    /\ model' = SelectModel(model, "AN/UYK-43")
    /\ mac' = HandshakeMac("EARLY_AEGIS_DESTROYER", 1, 0, 0, 0)
    /\ UNCHANGED <<program, noise, edits, found, file, profile, wires>> /\ BridgeStep

\* sys.exit(1) unless the ledgers verify.
BootSuite ==
    /\ at = "suite"
    /\ \/ at' = "config" /\ UNCHANGED program
       \/ at' = "off" /\ program' = "none"
    /\ UNCHANGED <<noise, edits, found, file, profile, model, mac, wires>> /\ BridgeStep

\* Mutant of LoadSpecifications: a profile that fails validation is replaced
\* by the template.
LoadSpecifications_Repair ==
    /\ at = "config" /\ found' = file
    /\ \/ file \in {"absent", "invalid"} /\ at' = "generate" /\ UNCHANGED <<profile, program>>
       \/ file = "torn" /\ profile' = "fallback" /\ at' = "services" /\ UNCHANGED program
       \/ file \in {"defaults", "edited"} /\ profile' = "file" /\ at' = "services" /\ UNCHANGED program
       \/ file = "foreign" /\ at' = "off" /\ program' = "none" /\ UNCHANGED profile
    /\ UNCHANGED <<noise, edits, file, model, mac, wires>> /\ BridgeStep

\* Unreadable JSON and a profile that fails validation fall back.  A foreign
\* one passes, four ranges and ten keys, and holds some other member that
\* float() refuses: the exception is caught nowhere.
LoadSpecifications ==
    /\ at = "config" /\ found' = file
    /\ \/ file = "absent" /\ at' = "generate" /\ UNCHANGED <<profile, program>>
       \/ file \in {"torn", "invalid"} /\ profile' = "fallback" /\ at' = "services" /\ UNCHANGED program
       \/ file \in {"defaults", "edited"} /\ profile' = "file" /\ at' = "services" /\ UNCHANGED program
       \/ file = "foreign" /\ at' = "off" /\ program' = "none" /\ UNCHANGED profile
    /\ UNCHANGED <<noise, edits, file, model, mac, wires>> /\ BridgeStep

\* _generate_default_config_file: open truncates, dump fills, and an IOError
\* at either leaves the file as it is; the profile is the fallback anyway.
GenerateDefaults ==
    /\ \/ /\ at = "generate"
          /\ \/ file' = "torn" /\ at' = "dump" /\ UNCHANGED <<profile, noise>>
             \/ Mishap /\ profile' = "fallback" /\ at' = "services" /\ UNCHANGED file
       \/ /\ at = "dump" /\ profile' = "fallback" /\ at' = "services"
          /\ \/ file' = "defaults" /\ UNCHANGED noise
             \/ Mishap /\ UNCHANGED file
    /\ UNCHANGED <<program, edits, found, model, mac, wires>> /\ BridgeStep

\* Watchdog, engine, loggers, router and command server: daemon threads all.
StartServices ==
    /\ at = "services" /\ at' = "wires"
    /\ UNCHANGED <<program, noise, edits, found, file, profile, model, mac, wires>> /\ BridgeStep

\* Mutant of OpenWires: the names are left as they are when a port is missing.
OpenWires_KeepFirst ==
    /\ at = "wires"
    /\ \/ wires' = Wires /\ UNCHANGED noise
       \/ Mishap /\ \E missing \in Wires : wires' = Wires \ {missing}
    /\ at' = "loop"
    /\ UNCHANGED <<program, edits, found, file, profile, model, mac>> /\ BridgeStep

\* The four are opened in one try: when one is missing all names are None, and
\* a port opened before it is closed with its last reference.
OpenWires ==
    /\ at = "wires"
    /\ \/ wires' = Wires /\ UNCHANGED noise
       \/ wires' = {} /\ Mishap
    /\ at' = "loop"
    /\ UNCHANGED <<program, edits, found, file, profile, model, mac>> /\ BridgeStep

\* A loss of power, a kill, or the end of the transit.
StopBridge ==
    /\ program = "bridge" /\ program' = "none" /\ at' = "off" /\ wires' = {}
    /\ UNCHANGED <<noise, edits, found, file, profile, model, mac>> /\ BridgeStep

\* Someone edits, damages or deletes the file, also while a boot looks at it;
\* the audits never do.
EditConfiguration ==
    /\ program \in {"none", "bridge"} /\ edits < MaxEdits /\ edits' = edits + 1
    /\ file' \in {"absent", "torn", "edited", "invalid", "foreign"} \ {file}
    /\ UNCHANGED <<program, noise, bridgeVars>> /\ BridgeStep

-----------------------------------------------------------------------------

SerialAudit(p) == OpenTestPort(p) \/ WriteFrame(p) \/ ReadFrame(p) \/ ReadTimeout(p) \/ Judge(p)
NetworkAudit == SendFrame \/ Receive \/ NextClass \/ EndNetworkAudit
Bootstrap == \/ Import \/ BootSuite \/ LoadSpecifications \/ GenerateDefaults
             \/ StartServices \/ OpenWires

BootNext ==
    \/ StartSerialAudit \/ EndSerialAudit
    \/ \E p \in Ports : SerialAudit(p) \/ PortFails(p) \/ WireStep(p)
    \/ StartNetworkAudit \/ NetworkAudit
    \/ StartBridge \/ Bootstrap \/ StopBridge \/ EditConfiguration

BootSpec == BootInit /\ [][BootNext]_bootVars

\* A thread that can take a step takes one in the end; wires, plugs, strangers
\* and operators owe nothing.
FairBootSpec ==
    /\ BootSpec
    /\ \A p \in Ports : WF_bootVars(SerialAudit(p))
    /\ WF_bootVars(EndSerialAudit) /\ WF_bootVars(NetworkAudit) /\ WF_bootVars(Bootstrap)

-----------------------------------------------------------------------------
(* Properties.                                                             *)

\* Where a plug is attached, PASSED says that every frame came back, whole,
\* once, in order and within its own read: what the driver had buffered, late,
\* lost and spoilt frames all count against the port.  Where an instrument
\* talks it says nothing: only the checksum of a sentence is looked at.
PassedPortsEchoed ==
    \A p \in Ports \ Talkers :
        verdict[p] = "PASSED" => heard[p] = [k \in 1..Frames |-> k]

\* A clear network, on a platform that tries one, means that the frame of each
\* class of the manifest came back during its own handshake, before anything
\* else: neither a late echo nor a stranger's packet stands in for a lost one.
ClearNetworkAnswered ==
    suitePassed /\ os = "posix" /\ turn > Len(Classes)
        => answered = 1..Len(Classes)

\* The loop finds all four wires or none, never the steering without the guns.
WiresAllOrNone == at = "loop" => wires \in {{}, Wires}

\* Types, and the tools tell the truth.
BootSafety == BootTypeOK /\ PassedPortsEchoed /\ ClearNetworkAnswered /\ WiresAllOrNone

\* A boot replaces only a configuration that was not there when it looked: a
\* file it cannot use is left for those who wrote it to repair, and stays
\* refused at every later boot.
OnlyAbsenceIsReplaced ==
    [][file' # file /\ edits' = edits => found = "absent"]_bootVars

\* Whatever the ports and the network do or fail to do, every audit ends, and
\* every boot ends or reaches the loop.
ProgramsSettle == program # "none" ~> program = "none" \/ at = "loop"

=============================================================================
