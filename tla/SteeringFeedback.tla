--------------------------- MODULE SteeringFeedback ---------------------------
(***************************************************************************)
(* BridgeNetworkRouter with what it owns: the feedback receiver of the     *)
(* steering gear, the NMEA parser whose dictionary becomes its telemetry   *)
(* cache, and the UDP interface that repeats the last commands.            *)
(*                                                                         *)
(* Threads: main (takes a telemetry snapshot, routes its outputs, stops),  *)
(* the serial listener (ingests a sentence), the reader of the steering    *)
(* gear's reports, and the UDP transmitter.  Each holds router_lock or     *)
(* data_lock for one access only, so an action is one such access.         *)
(*                                                                         *)
(* An angle is a whole number, compared with a whole tolerance; time is    *)
(* counted in reports, one dt each.  Of a sentence only what it does to    *)
(* the cache is here, of a report the angle and whether it carries a fault.*)
(***************************************************************************)
EXTENDS Integers, Sequences

CONSTANTS
    Angles,         \* rudder angles
    Tolerance,      \* tracking_error_threshold_deg
    JamTime,        \* max_error_time_allowed_sec, in reports
    MaxCycles       \* bound: outputs main routes

ASSUME ConstantsAssumption ==
    /\ Angles \subseteq Int /\ 0 \in Angles
    /\ Tolerance \in Nat /\ JamTime \in Nat \ {0} /\ MaxCycles \in Nat

VARIABLES
    \* the router
    bound,          \* which dictionary live_telemetry_cache is bound to
    cache,          \* the two dictionaries: feedback keys only
    commands,       \* latest_engine_commands
    \* main
    main,           \* where it stands
    output,         \* what it has computed
    snapshot,       \* its copy of the telemetry cache
    \* the receiver and the thread that feeds it
    errorTime, status,
    feeder, ordered,
    \* the UDP interface
    isRunning, udpData, sockOpen,
    tx, txFrame,    \* its thread, and the frame in its hands
    wire,           \* the last datagram sent
    \* history
    faultStored,    \* has the router ever stored a hardware fault?
    offs,           \* of the last JamTime good reports: was the rudder off?
    timedOut,       \* did the join of stop_interface give up?
    refused         \* datagrams sent to the closed socket

routerVars == <<bound, cache, commands>>
mainVars   == <<main, output, snapshot>>
feedVars   == <<errorTime, status, feeder, ordered>>
udpVars    == <<isRunning, udpData, sockOpen, tx, txFrame, wire>>
history    == <<faultStored, offs, timedOut, refused>>
vars == <<routerVars, mainVars, feedVars, udpVars, history>>

Dicts == {"own", "parser"}
Feedback == [rudder : Angles, fault : BOOLEAN]
NoFeedback == [rudder |-> 0, fault |-> FALSE]
Output == [cycle : 0..MaxCycles, rudder : Angles]
NoOutput == [cycle |-> 0, rudder |-> 0]     \* an empty dictionary: .get gives 0.0

Init ==
    /\ bound = "own" /\ cache = [d \in Dicts |-> NoFeedback] /\ commands = NoOutput
    /\ main = "boot" /\ output = NoOutput /\ snapshot = NoFeedback
    /\ errorTime = 0 /\ status = [measured |-> 0, active |-> FALSE, jammed |-> FALSE]
    /\ feeder = "idle" /\ ordered = 0
    /\ isRunning = FALSE /\ udpData = NoOutput /\ sockOpen = TRUE
    /\ tx = "ended" /\ txFrame = NoOutput /\ wire = NoOutput
    /\ faultStored = FALSE /\ offs = << >> /\ timedOut = FALSE /\ refused = 0

-----------------------------------------------------------------------------
(* The serial listener.                                                    *)

\* parse_sentence returns the parser's own dictionary, valid sentence or not: from
\* the first sentence on, that is the telemetry cache, and no sentence touches
\* the feedback keys in it.
IngestRawSerialLine ==
    /\ bound' = "parser"
    /\ UNCHANGED <<cache, commands, mainVars, feedVars, udpVars, history>>

-----------------------------------------------------------------------------
(* The main thread.                                                        *)

StartRouterServices ==
    /\ main = "boot"
    /\ isRunning' = TRUE /\ tx' = "idle"
    /\ main' = "top"
    /\ UNCHANGED <<routerVars, output, snapshot, feedVars, udpData, sockOpen, txFrame, wire, history>>

GetSynchronizedTelemetry ==
    /\ main = "top"
    /\ snapshot' = cache[bound]
    /\ main' = "computing"
    /\ UNCHANGED <<routerVars, output, feedVars, udpVars, history>>

\* The engine's rudder law may give any angle; no law reads the feedback keys.
ExecuteBridgeLoop ==
    /\ main = "computing" /\ output.cycle < MaxCycles
    /\ \E a \in Angles : output' = [cycle |-> output.cycle + 1, rudder |-> a]
    /\ main' = "routing"
    /\ UNCHANGED <<routerVars, snapshot, feedVars, udpVars, history>>

\* route_calculated_loop_outputs, first the router's copy ...
RouteToRouter ==
    /\ main = "routing"
    /\ commands' = output
    /\ main' = "updating"
    /\ UNCHANGED <<bound, cache, output, snapshot, feedVars, udpVars, history>>

\* Mutant of RouteToUdp: the call is left out when the rudder order is unchanged.
RouteToUdp_OnlyChanges ==
    /\ main = "updating"
    /\ udpData' = IF udpData.rudder = output.rudder THEN udpData ELSE output
    /\ main' = "top"
    /\ UNCHANGED <<routerVars, output, snapshot, feedVars, isRunning, sockOpen, tx, txFrame, wire,
                   history>>

\* ... then the interface's.
RouteToUdp ==
    /\ main = "updating"
    /\ udpData' = output
    /\ main' = "top"
    /\ UNCHANGED <<routerVars, output, snapshot, feedVars, isRunning, sockOpen, tx, txFrame, wire,
                   history>>

\* KeyboardInterrupt anywhere in the loop, then stop_interface up to its join.
StopInterface ==
    /\ main \in {"top", "computing", "routing", "updating"}
    /\ isRunning' = FALSE
    /\ main' = "joining"
    /\ UNCHANGED <<routerVars, output, snapshot, feedVars, udpData, sockOpen, tx, txFrame, wire, history>>

\* Mutant of CloseInterface: the socket is closed without waiting.
CloseInterface_NoJoin ==
    /\ main = "joining"
    /\ sockOpen' = FALSE
    /\ main' = "stopped"
    /\ UNCHANGED <<routerVars, output, snapshot, feedVars, isRunning, udpData, tx, txFrame, wire, history>>

\* The join returns because the thread has ended or, after a second, because its time
\* is up; the socket is closed either way.
CloseInterface ==
    /\ main = "joining"
    /\ timedOut' = (tx # "ended")
    /\ sockOpen' = FALSE
    /\ main' = "stopped"
    /\ UNCHANGED <<routerVars, output, snapshot, feedVars, isRunning, udpData, tx, txFrame, wire,
                   faultStored, offs, refused>>

-----------------------------------------------------------------------------
(* The reader of the steering gear's reports: ingest_hardware_feedback_line. *)

\* First hold of the lock.
ReadOrder ==
    /\ feeder = "idle"
    /\ ordered' = commands.rudder
    /\ feeder' = "ordered"
    /\ UNCHANGED <<routerVars, mainVars, errorTime, status, udpVars, history>>

\* A line that fails its checksum, that is not the steering gear's, or whose numbers
\* do not parse leaves all but the list of notes as it was.
UnusableReport ==
    /\ feeder = "ordered"
    /\ feeder' = "processed"
    /\ UNCHANGED <<routerVars, mainVars, errorTime, status, ordered, udpVars, history>>

Deviates(measured) == ordered - measured > Tolerance \/ measured - ordered > Tolerance

\* Mutant of Clock: the time is not reset when the rudder is back in tolerance.
Clock_NotReset(measured) == IF Deviates(measured) THEN errorTime + 1 ELSE errorTime

Clock(measured) == IF Deviates(measured) THEN errorTime + 1 ELSE 0

\* A good report: the deviation is timed (up to JamTime, the rest does not matter)
\* and the status is built anew.
GoodReport ==
    /\ feeder = "ordered"
    /\ \E measured \in Angles, device \in BOOLEAN :
        LET elapsed == Clock(measured)
            jam     == Deviates(measured) /\ elapsed >= JamTime
        IN  /\ errorTime' = IF elapsed > JamTime THEN JamTime ELSE elapsed
            /\ status' = [measured |-> measured, active |-> device \/ jam, jammed |-> jam]
            /\ offs' = LET all == Append(offs, Deviates(measured))
                       IN  IF Len(all) > JamTime THEN Tail(all) ELSE all
    /\ feeder' = "processed"
    /\ UNCHANGED <<routerVars, mainVars, ordered, udpVars, faultStored, timedOut, refused>>

\* Mutant of StoreReport: a report without faults clears the key.
StoreReport_Clears ==
    /\ feeder = "processed"
    /\ cache' = [cache EXCEPT ![bound] = [rudder |-> status.measured, fault |-> status.active]]
    /\ faultStored' = (faultStored \/ status.active)
    /\ feeder' = "idle"
    /\ UNCHANGED <<bound, commands, mainVars, errorTime, status, ordered, udpVars, offs, timedOut,
                   refused>>

\* Second hold of the lock: into whichever dictionary is bound now.
StoreReport ==
    /\ feeder = "processed"
    /\ cache' = [cache EXCEPT ![bound] =
                    [rudder |-> status.measured, fault |-> @.fault \/ status.active]]
    /\ faultStored' = (faultStored \/ status.active)
    /\ feeder' = "idle"
    /\ UNCHANGED <<bound, commands, mainVars, errorTime, status, ordered, udpVars, offs, timedOut,
                   refused>>

-----------------------------------------------------------------------------
(* The UDP transmitter.                                                    *)

TxCopy ==
    /\ tx = "idle" /\ isRunning
    /\ txFrame' = udpData
    /\ tx' = "copied"
    /\ UNCHANGED <<routerVars, mainVars, feedVars, isRunning, udpData, sockOpen, wire, history>>

TxSend ==
    /\ tx = "copied" /\ txFrame.cycle > 0 /\ sockOpen
    /\ wire' = txFrame
    /\ tx' = "idle"
    /\ UNCHANGED <<routerVars, mainVars, feedVars, isRunning, udpData, sockOpen, txFrame, history>>

\* Nothing to send yet, or the network refuses the datagram: the error is printed.
TxNothing ==
    /\ tx = "copied" /\ (txFrame.cycle = 0 \/ sockOpen)
    /\ tx' = "idle"
    /\ UNCHANGED <<routerVars, mainVars, feedVars, isRunning, udpData, sockOpen, txFrame, wire, history>>

\* sendto on a closed socket: the error is printed, too.
TxRefused ==
    /\ tx = "copied" /\ txFrame.cycle > 0 /\ ~sockOpen
    /\ refused' = refused + 1
    /\ tx' = "idle"
    /\ UNCHANGED <<routerVars, mainVars, feedVars, isRunning, udpData, sockOpen, txFrame, wire,
                   faultStored, offs, timedOut>>

TxEnds ==
    /\ tx = "idle" /\ ~isRunning
    /\ tx' = "ended"
    /\ UNCHANGED <<routerVars, mainVars, feedVars, isRunning, udpData, sockOpen, txFrame, wire, history>>

-----------------------------------------------------------------------------
Next ==
    \/ IngestRawSerialLine
    \/ StartRouterServices \/ GetSynchronizedTelemetry \/ ExecuteBridgeLoop
    \/ RouteToRouter \/ RouteToUdp \/ StopInterface \/ CloseInterface
    \/ ReadOrder \/ UnusableReport \/ GoodReport \/ StoreReport
    \/ TxCopy \/ TxSend \/ TxNothing \/ TxRefused \/ TxEnds

Spec == Init /\ [][Next]_vars

-----------------------------------------------------------------------------
(* Properties.                                                             *)

\* Every variable has its type.
TypeOK ==
    /\ bound \in Dicts /\ cache \in [Dicts -> Feedback] /\ commands \in Output
    /\ main \in {"boot", "top", "computing", "routing", "updating", "joining", "stopped"}
    /\ output \in Output /\ snapshot \in Feedback
    /\ errorTime \in 0..JamTime
    /\ status \in [measured : Angles, active : BOOLEAN, jammed : BOOLEAN]
    /\ feeder \in {"idle", "ordered", "processed"} /\ ordered \in Angles
    /\ isRunning \in BOOLEAN /\ udpData \in Output /\ sockOpen \in BOOLEAN
    /\ tx \in {"idle", "copied", "ended"} /\ txFrame \in Output /\ wire \in Output
    /\ faultStored \in BOOLEAN
    /\ offs \in Seq(BOOLEAN) /\ Len(offs) <= JamTime
    /\ timedOut \in BOOLEAN /\ refused \in Nat

\* The steering drive is never ahead of the router: what the interface holds is the
\* router's latest output or the one before it, each datagram is one that the
\* interface has held, and the same cycle is the same order everywhere.  Else the
\* receiver would time a rudder that obeys as one that deviates.
OrdersFlowDown ==
    /\ commands.cycle - udpData.cycle \in {0, 1}
    /\ wire.cycle <= txFrame.cycle /\ txFrame.cycle <= udpData.cycle
    /\ \A frame \in {udpData, txFrame, wire} :
         frame.cycle = commands.cycle => frame = commands

\* A jam is declared by the good reports alone: when the last JamTime of them found
\* the rudder off, whatever order each was held against and whatever noise, foreign
\* sentences or changes of dictionary came between them.
JamNeedsTime ==
    status.jammed <=> Len(offs) = JamTime /\ \A i \in DOMAIN offs : offs[i]

\* The socket is closed after the last send.  Only a join that gave up leaves the thread
\* a socket that is closed, and then it sends the frame in its hands and no other.
ClosedAfterLastSend == refused <= 1 /\ (refused > 0 => timedOut)

\* Types, and the order of the stop.
Safety == TypeOK /\ ClosedAfterLastSend

\* Once sentences flow, a stored hardware fault stays known to every later snapshot,
\* across sentences, sound reports and a reader that is between its two holds of
\* the lock.
FaultSurvivesSentences ==
    [][bound = "parser" /\ cache[bound].fault
        => bound' = "parser" /\ cache'[bound'].fault]_<<bound, cache>>

\* The comment of bridge_network_router.py says a detected fault is appended to the
\* live telemetry, so main's next snapshot has it.  The first sentence after it
\* rebinds the cache to the parser's dictionary, and the fault is gone.
FaultReachesMain ==
    [][main = "top" /\ main' = "computing" /\ faultStored => snapshot'.fault]_vars

=============================================================================
