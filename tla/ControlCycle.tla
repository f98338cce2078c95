---------------------------- MODULE ControlCycle ----------------------------
(***************************************************************************)
(* The 50 Hz loop of main.py, the queue of outgoing serial frames and the  *)
(* thread that writes them, with the anchor interlock whose output a frame *)
(* carries, and the shutdown sequence.                                     *)
(*                                                                         *)
(* A cycle reads its inputs, puts one frame per actuator with put_nowait,  *)
(* hands its result to router and loggers, and sleeps.  The writer takes   *)
(* frames off the queue and writes them at its own pace.                   *)
(*                                                                         *)
(* Not here: the arithmetic of engine and stabilizers; what the bilge,     *)
(* flag and fin frames say; the shore battery frames, sent only under a    *)
(* telemetry key that nothing sets.                                        *)
(***************************************************************************)
EXTENDS Integers, Sequences, FiniteSets

CONSTANTS
    QueueMax,       \* maxsize of tx_queue (200 in the code)
    Paces,          \* the paces of the writer: see pace
    MaxCycles,      \* bound: cycles of the loop
    PokeDefined     \* does `watchdog` have the method poke_watchdog?

ASSUME ConstantsAssumption ==
    /\ QueueMax \in Nat \ {0} /\ Paces \subseteq Nat /\ MaxCycles \in Nat
    /\ PokeDefined \in BOOLEAN

VARIABLES
    \* the main thread
    loop,           \* "top", "put", "dispatch", "sleep", "shutdown", "over"
    cycle,          \* the number of the current cycle
    next,           \* the frame it puts next
    ended,          \* why the loop is over
    services,       \* what main has started and not yet stopped
    gunState,       \* live_gun_state: is the gun seen moving?
    anchorState,
    \* the queue and its writer
    txQueue,
    inHand,         \* the frame the writer has taken, as a sequence
    pace,           \* frames the writer is sure to get rid of in a cycle
    written,        \* those it has got rid of in this one, up to pace
    ports,          \* are the serial ports open, or None?
    wire,           \* per actuator, the last frame written to its port
    lost,           \* has a write to the steering port failed? (history only)
    \* the outside
    telemetry,      \* has live_telemetry_cache ever been filled?
    gun             \* what the gun does, and its bus reports

inputVars == <<telemetry, gun>>
lawVars   == <<gunState, anchorState>>
wireVars  == <<pace, wire, lost, ports>>
txVars    == <<txQueue, inHand, written, wireVars>>
vars == <<loop, cycle, next, ended, services, lawVars, txVars, inputVars>>

Actuators == {"anchor", "bilge", "flag", "port", "stbd"}

\* Mutant of FrameOrder: a sixth frame goes out in each cycle.
FrameOrder_Extra == <<"anchor", "bilge", "flag", "port", "stbd", "stbd">>

\* The order of the puts in a cycle.
FrameOrder == <<"anchor", "bilge", "flag", "port", "stbd">>

Frame == [dev : Actuators, cycle : Nat, locked : BOOLEAN]
NoFrame(d) == [dev |-> d, cycle |-> 0, locked |-> FALSE]

Services == {"flag", "bilge", "mission", "command", "router"}

Init ==
    /\ loop = "top" /\ cycle = 1 /\ next = 1 /\ ended = "NO" /\ services = Services
    /\ gunState = "quiet" /\ anchorState = "RELEASED"
    /\ txQueue = <<>> /\ inHand = <<>> /\ pace \in Paces /\ written = 0
    /\ ports \in {"open", "none"}
    /\ wire = [d \in Actuators |-> NoFrame(d)] /\ lost = FALSE
    /\ telemetry = "empty" /\ gun = "quiet"

-----------------------------------------------------------------------------
(* The interlocks.                                                         *)

\* evaluate_anchor_safety_matrix: a moving gun locks the windlass; once it is
\* quiet, the release code unlocks it.
AnchorAfter(state, weapon, release) ==
    IF weapon = "moving" \/ (state = "LOCKED_EMERGENCY" /\ ~release)
    THEN "LOCKED_EMERGENCY" ELSE "RELEASED"

\* The text handed to weapon_parser is raw_weapon_string, a key nothing sets: the
\* empty string fails the checksum and the state stays as constructed.
IngestEncoder(state) == state

\* The keys TCP clients can set do not include the release code.
ReleaseCode == FALSE

-----------------------------------------------------------------------------
(* The main thread.                                                        *)

\* An exception the loop does not catch ends the process.
Raise(why) == loop' = "over" /\ ended' = why

\* Sections A to C and the anchor interlock: snapshot of the cache, whose roll
\* angle is a KeyError if nothing was ever ingested.  The read of the weapon port
\* before it may fail, and nothing catches that either.
Ingest ==
    /\ loop = "top"
    /\ \/ /\ telemetry = "ready"
          /\ gunState' = IngestEncoder(gunState)
          /\ anchorState' = AnchorAfter(anchorState, gunState', ReleaseCode)
          /\ loop' = "put" /\ next' = 1
          /\ UNCHANGED ended
       \/ /\ telemetry = "empty"
          /\ Raise("KeyError")
          /\ UNCHANGED <<gunState, anchorState, next>>
       \/ /\ ports = "open"
          /\ Raise("SerialException")
          /\ UNCHANGED <<gunState, anchorState, next>>
    /\ UNCHANGED <<cycle, services, txVars, inputVars>>

NewFrame ==
    [dev |-> FrameOrder[next], cycle |-> cycle, locked |-> anchorState = "LOCKED_EMERGENCY"]

\* The first frame is followed by a call of poke_watchdog.
AfterPut ==
    IF next = 1 /\ ~PokeDefined
    THEN Raise("AttributeError") /\ UNCHANGED next
    ELSE /\ next' = next + 1
         /\ loop' = IF next = Len(FrameOrder) THEN "dispatch" ELSE "put"
         /\ UNCHANGED ended

\* Mutant of Put: the queue has no maxsize.
Put_Unbounded ==
    /\ loop = "put"
    /\ txQueue' = Append(txQueue, NewFrame) /\ AfterPut
    /\ UNCHANGED <<cycle, services, lawVars, inHand, written, wireVars, inputVars>>

\* Mutant of Put: a full queue drops the frame.
Put_DropsWhenFull ==
    /\ loop = "put"
    /\ txQueue' = IF Len(txQueue) < QueueMax THEN Append(txQueue, NewFrame) ELSE txQueue
    /\ AfterPut
    /\ UNCHANGED <<cycle, services, lawVars, inHand, written, wireVars, inputVars>>

\* put_nowait: queue.Full is not caught.
Put ==
    /\ loop = "put"
    /\ \/ /\ Len(txQueue) < QueueMax
          /\ txQueue' = Append(txQueue, NewFrame)
          /\ AfterPut
       \/ /\ Len(txQueue) = QueueMax
          /\ Raise("Full")
          /\ UNCHANGED <<txQueue, next>>
    /\ UNCHANGED <<cycle, services, lawVars, inHand, written, wireVars, inputVars>>

\* Diagnostics, router and loggers: LedgerWatchdog and AuditLedger.
Dispatch ==
    /\ loop = "dispatch"
    /\ loop' = "sleep"
    /\ UNCHANGED <<cycle, next, ended, services, lawVars, txVars, inputVars>>

\* The end of the sleep; by then the writer has kept its minimal pace.
NextCycle ==
    /\ loop = "sleep" /\ cycle < MaxCycles
    /\ written = pace \/ (txQueue = <<>> /\ inHand = <<>>)
    /\ cycle' = cycle + 1 /\ loop' = "top" /\ written' = 0
    /\ UNCHANGED <<next, ended, services, lawVars, txQueue, inHand, wireVars, inputVars>>

\* KeyboardInterrupt reaches the loop anywhere.
Interrupt ==
    /\ loop \in {"top", "put", "dispatch", "sleep"}
    /\ loop' = "shutdown"
    /\ UNCHANGED <<cycle, next, ended, services, lawVars, txVars, inputVars>>

\* flag_logger.stop_logger_services returns; bilge_logger has no method
\* stop_logging_services, and the handler ends there.
Shutdown ==
    /\ loop = "shutdown"
    /\ services' = services \ {"flag"}
    /\ Raise("Interrupt")
    /\ UNCHANGED <<cycle, next, lawVars, txVars, inputVars>>

-----------------------------------------------------------------------------
(* The writer, a daemon thread: it ends with the main thread.              *)

Alive == loop # "over"
Count(n) == IF n < pace THEN n + 1 ELSE n

TxGet ==
    /\ Alive /\ inHand = <<>> /\ txQueue # <<>>
    /\ inHand' = <<Head(txQueue)>> /\ txQueue' = Tail(txQueue)
    /\ UNCHANGED <<loop, cycle, next, ended, services, lawVars, written, wireVars, inputVars>>

\* port is None: the frame is dropped.
TxSkip ==
    /\ Alive /\ inHand # <<>> /\ ports = "none"
    /\ inHand' = <<>> /\ written' = Count(written)
    /\ UNCHANGED <<loop, cycle, next, ended, services, lawVars, txQueue, wireVars, inputVars>>

TxWrite ==
    /\ Alive /\ inHand # <<>> /\ ports = "open"
    /\ LET f == Head(inHand) IN wire' = [wire EXCEPT ![f.dev] = f]
    /\ inHand' = <<>> /\ written' = Count(written)
    /\ UNCHANGED <<loop, cycle, next, ended, services, lawVars, txQueue, pace, lost, ports,
                   inputVars>>

\* Mutant of TxFail: the frame is put back for another try.
TxFail_Requeues ==
    /\ Alive /\ inHand # <<>> /\ ports = "open" /\ Len(txQueue) < QueueMax
    /\ txQueue' = Append(txQueue, Head(inHand))
    /\ inHand' = <<>> /\ written' = Count(written) /\ lost' = TRUE
    /\ UNCHANGED <<loop, cycle, next, ended, services, lawVars, pace, wire, ports, inputVars>>

\* A SerialException is reported and the frame is gone.
TxFail ==
    /\ Alive /\ inHand # <<>> /\ ports = "open"
    /\ inHand' = <<>> /\ written' = Count(written)
    /\ lost' = (lost \/ Head(inHand).dev \in {"port", "stbd"})
    /\ UNCHANGED <<loop, cycle, next, ended, services, lawVars, txQueue, pace, wire, ports,
                   inputVars>>

-----------------------------------------------------------------------------
(* The outside.                                                            *)

\* The first valid sentence reaches ingest_raw_serial_line.
SerialLine ==
    /\ telemetry = "empty" /\ telemetry' = "ready"
    /\ UNCHANGED <<loop, cycle, next, ended, services, lawVars, txVars, gun>>

\* The gun starts to track between two cycles.
World ==
    /\ loop = "top" /\ gun = "quiet"
    /\ gun' = "moving"
    /\ UNCHANGED <<loop, cycle, next, ended, services, lawVars, txVars, telemetry>>

Main == Ingest \/ Put \/ Dispatch \/ NextCycle \/ Interrupt \/ Shutdown
Tx == TxGet \/ TxSkip \/ TxWrite \/ TxFail
Next == Main \/ Tx \/ SerialLine \/ World

Spec == Init /\ [][Next]_vars

-----------------------------------------------------------------------------
(* Properties.                                                             *)

\* Every variable has its type.
TypeOK ==
    /\ loop \in {"top", "put", "dispatch", "sleep", "shutdown", "over"}
    /\ cycle \in Nat /\ next \in 1..Len(FrameOrder) + 1
    /\ ended \in {"NO", "KeyError", "SerialException", "AttributeError", "Full", "Interrupt"}
    /\ services \subseteq Services
    /\ gunState \in {"quiet", "moving"}
    /\ anchorState \in {"RELEASED", "LOCKED_EMERGENCY"}
    /\ txQueue \in Seq(Frame) /\ Len(txQueue) <= QueueMax
    /\ inHand \in Seq(Frame) /\ Len(inHand) <= 1
    /\ pace \in Paces /\ written \in 0..pace /\ ports \in {"open", "none"}
    /\ wire \in [Actuators -> Frame] /\ lost \in BOOLEAN
    /\ telemetry \in {"empty", "ready"} /\ gun \in {"quiet", "moving"}

\* However slow the wire, a frame that reaches it is at most this many cycles
\* old: queue.Full ends the loop before a command can get any staler.
StaleBound == QueueMax \div Len(FrameOrder) + 1

\* No actuator receives a command older than one it has already received,
\* whatever writes fail, nor one older than the queue is long.
WireAdvances ==
    [][\A d \in Actuators : wire'[d] # wire[d] =>
            /\ wire'[d].cycle > wire[d].cycle
            /\ cycle - wire'[d].cycle <= StaleBound]_vars

\* The two fins are never commanded more than one cycle apart, and starboard
\* follows port, unless a write failed: the pair is put in two separate calls.
FinsInStep ==
    ~lost => wire["port"].cycle - wire["stbd"].cycle \in {0, 1}

\* A writer that gets rid of a whole cycle's frames in each cycle never lets the
\* queue fill: put_nowait raises no queue.Full.
FastWireKeepsUp == pace >= Cardinality(Actuators) => ended # "Full"

-----------------------------------------------------------------------------
(* What the repository's text says and the code does not do.               *)

\* "The main calculation loop never halts or waits for an input/output network
\* operation to complete": a wire that works, however slowly, does not end it.
SlowWireIsHarmless == pace > 0 => ended # "Full"

\* "When a weapon tracking signature triggers an emergency automatic windlass
\* lock": an anchor frame built in a cycle that began with the gun moving locks.
MovingGunLocksAnchor ==
    (loop = "put" /\ gun = "moving") => anchorState = "LOCKED_EMERGENCY"
=============================================================================
