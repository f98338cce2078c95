# TLA+ models of the Univac bridge system

Univac is a Python program for a ship's bridge. A 50 Hz loop in `src/src/main.py` reads the
helm's targets from a TCP server and sensor telemetry from a serial network router, computes
engine, rudder, anchor, bilge, flag-halyard and fin-stabilizer commands, queues them as serial
frames, and leaves an audit trail in hash-chained CSV ledgers that a watchdog supervises and that
the next boot verifies. This directory models the concurrent and stateful part of it in TLA+,
checks the models with TLC and proves some of the theorems with TLAPS.

Paths below are relative to the repository; `src/` in the repository's own sense is the directory
`src/src/` of the paths in `PROJECT.json`.

## 1. Inventory

| component (file) | state | operations | threads it meets | what makes it correct | status |
|---|---|---|---|---|---|
| **Compliance ledgers** `network_layer/flag_fault_logger.py`, twin `bilge_audit_logger.py` | bounded queue, `previous_row_hash`, path of the day's CSV, writer thread | capture (non-blocking put), writer loop (get, open, append, report, back off), start, stop (join of 5 s) | main, writer, watchdog | stored rows are chained, in capture order, at most once; nothing queued is abandoned while the process lives | modelled: `AuditLedger` |
| **Boot verification** `config/boot_verification_suite.py` | none (reads the latest CSV per ledger) | walk the rows, compare previous hash and recomputed hash, block the boot | boot | passes untouched histories, misses no damage | partly: `AuditLedger`, `BootSequence` |
| **Ledger watchdog** `network_layer/multi_ledger_watchdog.py` | heartbeat and last reported queue depth per ledger, fault flag, list of tripped ledgers | report of a row, periodic check, diagnostics, start, stop | writers, checker, main | a stall is flagged and cuts torque in time; recovery restores it; no false trip at rest | modelled: `LedgerWatchdog` |
| **Mission data logger** `network_layer/data_logger_node.py` | as a ledger without hashes | as a ledger | main, writer | as a ledger | partly: its reports in `LedgerWatchdog` |
| **Control cycle and serial transmit queue** `main.py` | `tx_queue` (200), the cycle's locals, open ports | one cycle: ingest, five puts, interlock, dispatch, sleep; writer thread; shutdown | main, tx writer, serial listener | commands reach an actuator in order and fresh, fins in step, the loop survives a slow wire | partly: `ControlCycle`, `PropulsionPlant`, `SafetyGates` |
| **Anchor interlock** `control_core/anchor_interlock_subroutine.py` | lock state | evaluate per cycle, navy release | main | a moving gun locks the windlass | modelled: `ControlCycle` |
| **TCP command listener** `network_layer/tcp_command_listener.py` | targets, connection list, running flag, server socket | start, accept, per-client handler (recv, split, validate, answer), snapshot, stop | accept, handlers, main | a snapshot is one command; answers match lines; stop closes everything | modelled: `CommandListener` |
| **Router, actuator feedback, UDP** `bridge_network_router.py`, `actuator_telemetry_receiver.py`, `bridge_network_interface.py` | telemetry cache (a dictionary that changes identity), latest commands (twice), jam clock, status, UDP socket and thread | ingest sentence, snapshot, route outputs, ingest feedback, start, stop | main, serial listener, feedback reader, UDP thread | orders flow down in order, a jam needs its time, a fault stays known, clean stop | modelled: `SteeringFeedback`, `ActuatorLaws` |
| **Serial listener** `serial_port_listener.py` | port handle, running flag, worker thread | reconnect loop, read, drop and pause, emulation, start, stop | listener, caller | every handle is closed; nothing is ingested after a stop; a device that is back is read again | modelled: `SerialIntake` |
| **NMEA and weapon parsers** `nmea_serial_parser.py`, `weapon_serial_parser.py`, `weapon_async_parser.py` | last bearing and its time, cache | ingest a sentence | listener, main | a rate is the one between two whole sentences, across the end of the ring | modelled: `GunWatch` |
| **Flag changer** `flag_changer_subroutine.py` | flag, halyard position | one evaluation per cycle | main | the pin locks only at the right height; the hoist ends | modelled: `GunWatch` |
| **Shore facility** `base_infrastructure_core.py`, `shore_audit_logger.py` | authority, actuator cache; queue, chain, CSV and live-state JSON | change of authority, update in two holds of the lock; capture, writer, start, stop | operator, main, writer | a record names the side that was obeyed; chain and live state agree | modelled: `ShoreFacility` |
| **Propulsion side of the engine** `bridge_execution_engine.py` with `main.py`'s caps | ramp, acceleration, integral | one evaluation per cycle | main | no step in the profile, no windup, limits kept | partly: `PropulsionPlant`; of the rudder path the outputs only |
| **Boot tools** `config_manager.py`, `hardware_serial_validator.py`, `hardware_network_validator.py`, `main.py` up to its loop | configuration file and profile; counters and verdict per port; handshake per class; wires | load, validate, generate; probe, judge; send, receive; import, bootstrap | a worker per port; one program at a time | a verdict follows from what came back; only an absent file is replaced; every program ends | modelled: `BootSequence` |
| **Gates** `bilge_authority_router.py`, `bilge_gating_subroutine.py`, `central_warning_registry.py`, `shore_weapon_serializer.py`, `jammer_targeting_system.py` | at most a mode, a total or a last fix | one evaluation per call | main | limits and priorities | modelled as operators: `SafetyGates` |
| **Thread watchdog** `hardware_watchdog.py` | heartbeats, flag, list | poke, round of the monitor, diagnostics | any | silent threads are named, no others | partly: its verdict in `SafetyGates`; `main.py` never constructs it |
| **Outputs of the laws** `asymmetric_trim_subroutine.py`, `asymmetric_roll_stabilizer.py`, `actuator_serial_serializer.py`, aviation bridge `aviation_telemetry_bridge.py` | window of rolls; last fix | one evaluation per call | main | limits, sides, agreement of the two wires | partly: `ActuatorLaws`, the formulas being inputs |
| **Legacy words** `univac_architecture_hal.py`, `cray_gray_code_parser.py`, `univac_mac_aligner.py`, `hex_spectrum_modulator.py`, `led_vacuum_emulator.py` | model chosen | pure conversions | main | inverse of a reference | modelled as operators: `LegacyWords` |
| Other numerical models (ballistics, dead reckoning, sonar, wave and bank matrices, weapon balance, cognitive ring) | filter memory at most | floating-point formulas | main | numerical | not modelled |
| Museum history matrix, consoles, dashboards, teletype node, demonstration scripts, feature library | none, or a text queue | tables, screen output | - | - | not modelled |
| Aegis sketch (C++, CMS-2, IDL) | none | forward one sample | - | - | not modelled |

How they interact: `main.py` constructs what it uses, holds the only reference to most of it and calls
it from one thread. Other threads touch it through a few places, and these are where the behaviour is
hard: the ledgers' queues, the watchdog's dictionaries, `tx_queue`, the listener's targets, the serial
port handle, the base core's cache and the router's caches. The ledger writers call the watchdog, whose
diagnostics the main loop reads to cut the motor torque in the same cycle. What persists between
processes is the ledgers, the live-state file and the configuration file; crashes and restarts are
modelled where these are written. `PROJECT.json` lists the hazards line by line.

### What the code does as it stands

Modelling a component requires code that runs; several files at this commit do not, and the
models take the text of the functions as meant by their structure.

- `main.py` has indentation errors (lines 166-167, 340, 385-386); `univac_features_library.py`,
  `shore_audit_logger.py` (prose from line 210), `buffered_tactical_console.py` and
  `config_linked_console.py` do not parse either; `tcp_command_listener.py` uses `Tuple` without
  importing it (line 36); `AutomatedBootVerificationSuite.__init__` asserts undefined names.
- The ledgers call a global `watchdog` that their modules do not bind (`flag_fault_logger.py:53,108`,
  `data_logger_node.py:52,106`): the writer would end with a NameError. `AuditLedger` has the constant
  `WatchdogBound` for this; the runs take it TRUE, so that what comes after can be examined.
- A ledger's writer makes its directory outside every `try` (`flag_fault_logger.py:39-40`, `bilge_audit_logger.py:42-43`,
  `shore_audit_logger.py:43-44`). If that fails the thread ends before its loop while `is_logging` stays True: snapshots are accepted
  until the queue is full and none is stored, and the watchdog, told of nothing, sees an empty queue. The models have the step
  (`MakeDirectoryFails`), and the liveness properties of both ledgers name it as their exception.
- `main.py`'s watchdog has no `poke_watchdog` (503, 525, 593, 610): `ControlCycle` has `PokeDefined`
  and the runs take it TRUE for the same reason. The first cycle without telemetry ends in a KeyError
  (458), and shutdown stops at `bilge_logger.stop_logging_services` (623), which does not exist; both
  are steps of the model.
- No thread feeds `ingest_raw_serial_line` or `ingest_hardware_feedback_line` in `main.py`, and no law
  reads `hardware_fault_triggered`; `SteeringFeedback` models the router with the readers its
  interface and docs foresee.
- The bilge frame always opens the overboard valve (533): no command carries a requested authority. The
  bilge gate and the warning registry are not called by `main.py`; a grounding stops the shaft but is
  not among the reported faults (`central_warning_registry.py:33`), and the gate's liters charge an
  interval to the state in which it ends. Setpoints never expire (`tcp_command_listener.py:70`); only
  the latest file of a ledger is verified (`boot_verification_suite.py:70`); the join at stop may time
  out with rows in the queue (`flag_fault_logger.py:134`); the mission log is opened with `w` under a
  name that has one second's resolution (`data_logger_node.py:42-48`).
- The engine's imports of two classes fail, so it always runs in its safe mode, and telemetry's speed
  of the shaft is never updated. The S-curve has full jerk until it has arrived and takes no account of
  the acceleration it has built up (`bridge_execution_engine.py:101`): a held order of 550 rpm from rest
  makes the profile swing between 300 and 800 rpm for good. `PropulsionPlant` has the law as it is; the
  theorem that it takes no step says nothing about arrival.
- Starting the serial listener again while the last thread sits in its reconnect pause leaves two
  readers (`serial_port_listener.py:96-99`); the properties of `SerialIntake` say which promises hold
  without such an overlap. A thread that outlasted the join in an open or a read may set the port to None while `stop_listening` is
  closing it, which then ends in an AttributeError (108-109); `StopFailsIfOutlasted` says that nothing else makes it fail.
- A configuration file with a member that is no number, such as the metadata `main.py:104` looks up,
  passes validation and ends the boot in an exception (`config_manager.py:89`); a file that fails
  validation makes every later boot fall back. An exception other than `SerialException` leaves a port
  without an entry in the audit (`hardware_serial_validator.py:125`).
- The mask 0xFFAAAAAA of two mainframes keeps 20 bits: 14.25 degrees of rudder leave as 1.28. The latch
  bit repeats the device bit, so `hardware_lock_secured` is always true. At rest the valve's light is
  past the crest and `main.py`'s saturation filter is on. `main.py` computes the address with switch port
  0 and the validator with 1.
- The UDP sentence reads the structural load under a name the engine does not use, and defaults the
  speed cap to 0 where the serial side has 550. The combat lock bit follows the mode, not the clearance
  to fire, and no parser sets the key the mode depends on. A bank side that is not spelt `starboard` is
  trimmed as port. A jammer fix may lie behind the ship and is valid all the same. The shore interlock bit
  is never set by `main.py`. Each of these is an assumption that TLC evaluates (section 2).

## 2. Modules

| module | models | state and actions |
|---|---|---|
| `AuditLedger` | a ledger over several runs of the process, its disk and the boot check | main: `Boot, Start, Capture, Stop, Exit`; writer: `MakeDirectory, MakeDirectoryFails, OpenFile, WriteHeader, Get, BufferRow, CloseRow, OpenFails, CloseFails, Recover, ExitLoop`; outside: `Crash, NextDay, Damage`. A row is stored only when `with open` closes the file, so the write is split in buffer and close. A digest is the sequence of snapshots it commits to (SHA-256 free of collisions). `ChainVerifies` and `FileVerdict` are the verifier |
| `LedgerFifo` | what a ledger promises: snapshots taken in order, each stored at most once and in order, or lost; what is stored fills volumes, of which the last one begun grows | `Take, Store, Lose, LoseAll` |
| `MCAuditLedger` | TLC instance, and the refinement mapping `ImplementsFifo`: a volume is the file of a day, what waits is the writer's item before the queue, what is stored is the snapshot each digest ends with | - |
| `LedgerWatchdog` | watchdog, two writers as it sees them, the main loop's interlock | reports (`Take, WriteFails, LogWriteSuccess`), checker in three steps (`Scan, SetFlag, SetList`), reader in two (`ReadFlag, ReadList`), `Dispatch`, `Tick`. Lists have identity (`heap`), because `tripped_ledgers` is handed out by reference and cleared in place |
| `ControlCycle` | the loop, the transmit queue and its writer, anchor interlock, shutdown | `Ingest, Put, Dispatch, NextCycle, Interrupt, Shutdown`; `TxGet, TxSkip, TxWrite, TxFail`; outside `SerialLine, World` |
| `SetpointRegister` | what the listener promises main: one register, replaced and read whole; a client's lines are considered in order and once each | `Obey, PassOver, Read` |
| `CommandListener` | the TCP server, and the mapping `ImplementsRegister`: a command takes force when its speed is set, under the lock | `StartServer, Bind, Accept, AddConnection, AcceptEnds`; per client `Begin, Receive, NextLine, SetRpm, SetYaw, Answer, ReceiveEnds, CloseSocket, RemoveConnection`; main `GetLatestTargets, StopServer, CloseConnections`; outside `Connect, Send, Disconnect` |
| `SteeringFeedback` | router, feedback receiver, UDP interface | `IngestRawSerialLine`; main from `StartRouterServices` to `CloseInterface`; feedback `ReadOrder, UnusableReport, GoodReport, StoreReport`; UDP `TxCopy, TxSend, TxNothing, TxRefused, TxEnds`. The join of a second may give up, and `timedOut` remembers it |
| `SerialIntake` | the serial listener and its caller | caller: `StartListening, StopListening, Join, TestPort, AskPort, ClosePort`; thread: `TestListening, TestConnection, AskConnection, OpenPort, OpenFails, BeginRead, LineRead, NothingRead, ReadFails, Ingest, Emulate, TestDropped, CloseDropped, ForgetPort, EndPause`; outside `Plug`. Each lookup of `serial_connection` is an action, since no lock is held. What may outlast the two seconds of the join is named |
| `GunWatch` | the three parsers that derive a rate, chosen at the start, and the flag changer they feed | `Turn, GoodSentence, BadStatus, EvaluateFlagLogicMatrix, ChannelChanges` |
| `ShoreFacility` | base core and its ledger, over several processes, and the mapping `ImplementsFifo` of that ledger, of one volume | `SetBaseRoutingAuthority`; loop: `ReadMode, StoreActuators, ReturnResult, CaptureFacilityStateSnapshot`; writer: `InitializeStoragePaths, MakeDirectoryFails, Get, AppendRow, TruncateLiveState, DumpLiveState, FileFails, Wake, EndWriter`; `Boot, StartLoggerServices, StopLoggerServices, Exit, Crash`. One volume stands for the files of all days |
| `PropulsionPlant` | one cycle of the speed path, from the order to the drive | `ExecuteBridgeLoop`, over any order, depth, anchor and watchdog verdict |
| `BootSequence` | the two validators and the boot of the bridge, one after the other, and the configuration file between them | serial audit: `OpenTestPort, WriteFrame, ReadFrame, ReadTimeout, Judge, PortFails, WireStep`; network audit: `SendFrame, Receive, NextClass`; bridge: `Import, BootSuite, LoadSpecifications, GenerateDefaults, StartServices, OpenWires, StopBridge`; outside `EditConfiguration` |
| `LegacyWords` | words, Gray code, addresses, valve and digit | operators; a word is the set of its one bits |
| `SafetyGates` | bilge authority and gate, warning registry, thread watchdog's verdict, shore release, jammer fix | operators |
| `ActuatorLaws` | trim, fins, actuator sentences, status word, aviation bridge | operators |
| `MCPlant` | TLC instance of `PropulsionPlant` that also evaluates the assumptions of `SafetyGates` and `ActuatorLaws` | - |
| `AuditLedger_proofs`, `CommandListener_proofs`, `SteeringFeedback_proofs`, `ShoreFacility_proofs`, `LedgerWatchdog_proofs`, `ControlCycle_proofs` | theorems about the module of that name | - |
| `ControlLaws_proofs` | theorems about `GunWatch`, `PropulsionPlant`, and the operators of `SafetyGates` and `ActuatorLaws` | - |
| `PortsAndBoot_proofs` | theorems about `SerialIntake` and `BootSequence` | - |

The last two extend several components at once, which is why the definitions every module has (`Init`, `Next`, `Spec`, `TypeOK`, the
assumption) carry a prefix in `GunWatch` (`GunSpec`) and in `BootSequence` (`BootSpec`).

An action is one hold of a lock, or one access to something shared without a lock: finer than a
method where the code lets another thread in, and never finer. Each definition's lines are in
`PROJECT.json` under `map`. Operators whose name has an underscore (`Put_Unbounded`) are deliberate
bugs that stand before the definition they alter; no specification uses them.

`LegacyWords`, `SafetyGates` and `ActuatorLaws` hold pure functions. Each is followed by named
assumptions that compare it with a reference definition, or with what it is for, over inputs that lie on both
sides of every limit: for example `GrayInverts` (the decoder inverts the reflected code),
`RudderSurvivesTheWire` and its exception `HoledMaskLosesBits`, `WarningsOnlyAddUp` (no warning hides another),
`SilentThreadsAreNamed` (a watchdog round names the silent threads and no others, whoever else pokes),
`EngagedMountsAreKept`, `TrimOpposesTheBank`, `StopsNeverReverseSteering`, `WiresAgreeOnTheOrder` and
`SnapshotIsTheLastGoodFix`. TLC evaluates them before the runs `boot_sequence` and `plant_ramp`; a
false one fails the run.

## 3. Runs

| run | question | bounds | result |
|---|---|---|---|
| `ledger_chain` | Are stored rows chained within a run and reported, in order and unrepeated, is damage in the verified file never missed, is the queue drained? | queue 2, 4 snapshots, 3 runs, 2 days, 1 damaged row, a log directory or none | holds, about 205 000 states |
| `ledger_tamper` | Does a tamper report mean damage? (`boot_verification_suite.py:103`) | the same, no damage | **violated**: a second run on the same day restarts the chain at zero |
| `watchdog_trip` | Is a stall flagged in time, does it cut the torque, do flag and list agree at rest, does the torque come back? | 2 symmetric ledgers, timeout, period and overload of 1, queue 2 | holds, about 3.1 million states |
| `cycle_order` | Order and freshness on the wire, fins in step, no overflow on a fast wire | queue 6, 5 frames per cycle, 4 cycles, dead or fast wire, any failing writes | holds |
| `listener_safe` | Are the setpoints one register, do answers match lines, does stop close all? | 2 symmetric clients, 2 lines each, any batching | holds, about 3.2 million states |
| `listener_serves` | Is every line answered or its connection closed, does every handler end after stop? | 1 client, 3 lines | holds |
| `steering_feedback` | Is the drive never ahead of the router, does a jam need its time, is the stop clean, does a fault stay known? | angles 0 and 3 against a tolerance of 2, jam time of 2 reports, 3 outputs | holds, about 4.1 million states |
| `shore_ledger` | Does a record name the side that was obeyed, are updates stored in order and once, do chain and live state stay sound over failures and crashes, does the live state catch up? | queue 2, 4 updates, 2 changes of authority, 1 failing file, 2 processes, a log directory or none | holds, about 451 000 states |
| `gun_watch` | Is the rate the true one, does the pin hold the right flag, does the hoist end? | ring of 8, turns of up to 3, 3 ticks, halyard 0-4-8 with lag 2 | holds |
| `serial_intake` | Are all handles closed, is nothing ingested after a stop, when can a stop fail, is a device that is back read again? | 2 starts, 3 opens, any plugging | holds, about 321 000 states |
| `plant_ramp` | Is the windup bounded, is the profile free of steps? (and the assumptions of two modules) | speeds -3 to 15, acceleration limit 2, 10 cycles, any orders | holds, about 28 000 states |
| `boot_sequence` | Do verdicts follow from what came back, are wires all or none, is only an absent file replaced, does every program end? (and the assumptions of `LegacyWords`) | 2 ports, one with an instrument, 2 frames, 3 classes, 2 starts, 2 mishaps, 2 edits | holds, about 517 000 states |

Why the bounds are enough. The ledger needs a queue that can fill with more snapshots than fit (2
against 4), a restart on the same day, one on another day and a third run that verifies what two
wrote, and a damaged row anywhere in them. The watchdog needs two ledgers to separate "this one
stalls" from "the other one reports", and ages past every threshold (`AgeMax`). The cycle needs a queue that
holds more than one cycle's frames but not two, and enough cycles to fill it. The listener needs two
handlers that race for the targets, and a connection with lines left when one of them ends it; three
lines make batches of one, two and three. The router needs three outputs for a copy that could be two behind,
and a jam time of two for a clock that may be wrongly kept or reset. The shore facility needs two changes of authority
to overtake an update twice, a queue that drops one of four rows, and a second process that continues the files. The parsers
need three sentences in two ticks and a turn past the end of the ring; the halyard needs a height that the
servo reaches in several steps, from above and from below. The listener's port needs a thread that outlasts a stop
while a second one starts, and a third handle that neither should lose. The ramp needs room for an acceleration without limit to
pass its bound (5 cycles) and for an integral without interlock to pass its own (9). The audits need two frames for one to be
lost and the other late, three classes for an echo to come one class late, and a second start to meet the file the first one left.

`CHECK_DEADLOCK FALSE` is set where the system may stop: a process that has exited with no runs,
days, cycles, starts or updates left, a closed server.

### Disagreements stated without a run

The last section of some modules, and the end of `LedgerWatchdog`, `ControlCycle` and `CommandListener`, state what a
text of the repository says and the code does not do, beside the properties that hold. TLC refutes each of them on the
module's own bounds, or on those given here; no run is kept for them.

| definition | text | what the code does |
|---|---|---|
| `LedgerWatchdog!BlockedAppendIsFlagged` | Training Guide line 115: an append that blocks trips the watchdog | if the last report was of an empty queue the fault condition never becomes true (`multi_ledger_watchdog.py:65`) |
| `ControlCycle!SlowWireIsHarmless` | `architecture.md:62` | on a wire of 1 or 2 frames per cycle `queue.Full` ends the loop (`main.py:480`) |
| `ControlCycle!MovingGunLocksAnchor` | `api.md:127` | the interlock is fed a key nothing sets (`main.py:443`) |
| `CommandListener!ParsedLinesAreAnswered` | `api.md:45` | JSON that is not an object closes the connection (`tcp_command_listener.py:112`) |
| `SteeringFeedback!FaultReachesMain` | `bridge_network_router.py:75` | the first sentence rebinds the cache |
| `ShoreFacility!OverwriteIsAtomic` | `shore_audit_logger.py:144`, "atomic overwrite" | `open('w')` empties the file before it is filled |
| `PropulsionPlant!ShallowCeilingHolds` | `protocols.md:35`, RPM_Cap is the shallow-water ceiling, 0 to 1200 | the cap is the profile, which overshoots the capped order and goes down to -200 |

### Fairness

`AuditLedger!FairSpec` asks weak fairness of the writer thread alone: it is scheduled, and each disk
access returns, with success or failure. It does not ask that any write succeeds or that the process
lives; `QueueDrains` is stated accordingly, and excuses a writer that ended because the log directory could not be made.
`ShoreFacility!FairSpec` asks the same of its writer, and `LiveStateCatchesUp` excuses a failing file, such a writer and an ended process. `CommandListener!FairSpec` asks it of the server's threads and of the
stopping thread, not of the clients: `accept` and `recv` have timeouts, so a thread that waits on a silent client returns to its
loop test. Where a step needs `data_lock` the fairness is strong: the lock is free again and again, and a thread that waits for it gets it in the end.
`SerialIntake!FairSpec` asks it of each reader thread and of a stop that has begun, not of the device: a plugged device may
stay silent, and `readline` then times out. `GunWatch` asks it of the flag changer, which the loop calls every cycle, and of
no sentence. `BootSequence!FairBootSpec` asks it of each program's own steps (reads have timeouts of 100 and 200 ms), not of plugs, wires,
strangers or operators. `LedgerWatchdog` has no fairness: its
deadlines are safety properties in ticks, with the assumption that checker and main loop do in a tick what
they do once per tick; the writers may block for ever. `ControlCycle`, `PropulsionPlant` and `SteeringFeedback` state safety only;
the first counts how many frames the writer is sure to dispose of in a cycle as the variable `pace`.

## 4. Proofs

All theorems about a specification assume only its module's assumption on the constants (`ConstantsAssumption`, `GunConstants`,
`BootConstants`) and hold for every value of the bounds; `PaceCorrect` also
assumes that the queue has room for the five frames of a cycle (`main.py:134` gives it 200).

- `AuditLedger_proofs`: `TypeCorrect`, `ChainCorrect` (`RunsAreChained`), `VerifierAgrees`
  (`OneRunVerifies`), `DamageIsSeen` (`BootSeesDamage`), `ReportsCorrect` (`RowsAreReported`). The inductive invariant is
  `IInv == TypeOK /\ DiskIsSound /\ CacheMatchesDisk /\ ItemIsReal /\ StartedOnce`. `RunsAreChained` is
  not inductive: that the next row links to the last one of its run needs `CacheMatchesDisk`
  (`previous_row_hash` is the digest of this run's last stored row, or zero while the run has stored none), and that in
  turn needs that a logger is started once per run (`StartedOnce`), or a second start would open the file again with a hash in hand.
  `DiskIsSound` is `RunsAreChained` with what the verifier's theorems need: a damaged cell holds something that no digest ends with,
  and every digest ends with a timestamp, because the writer's snapshot is one (`ItemIsReal`).
  `OneRunVerifies` and `BootSeesDamage` then follow from the definition of the verifier. `RowsAreReported` needs `Reported` beside `IInv`:
  a row in the stream's buffer is one report ahead of the disk, and stays so unless it is stored.
  `Refinement` (`ImplementsFifo`) shows that every step is a step of `LedgerFifo` or none. Capturing takes; closing the row stores;
  failing to open or close loses the item; the end of the process loses all that waits, with the row in the stream's
  buffer stored or not. That a row goes to the last volume begun is `DaysInOrder`: the writer's file is not later than today,
  and files after it are empty. A damaged cell changes no snapshot, since the digest the row was written with
  is what the mapping reads. `RowsAreInOrder` is then a theorem about the abstract steps alone, from an invariant `Ordered` of
  `LedgerFifo` (stored before pending before the next timestamp): no detail of the writer enters it.
- `CommandListener_proofs`: `TargetsConsistent` (`Safety`, that is `TypeOK` and `SnapshotIsOneCommand`), `StopIsThorough`
  (`StopClosesAll`), `AnswersCorrect` (`AnswersMatchLines`), from `IInv == TypeOK /\ StreamOrdered /\ LockGuards /\ OpenIsActive /\
  SnapshotIsOneCommand /\ StopClosesAll /\ Newcomers /\ Answered`. `LockGuards` says that between `SetRpm` and `SetYaw` the lock is
  held by that handler and that otherwise both targets belong to one command; `OpenIsActive` that an open socket
  is in the list that stop walks, or its handler is about to put it there. `Answered` says, for each place of a handler, how many of the lines it has
  taken are answered and what the one in hand deserves, as long as no answer was cut; `Newcomers` that a connection gets its
  handler once.
  `Linearizable` (`ImplementsRegister`) shows that two handlers' assignments and main's reads are those of one register. `SetRpm` is
  where a command takes force: what is half written then cannot be read, by `LockGuards`. A line counts as considered once its handler has
  taken it, except on the way to `SetRpm`. From the register alone follows `SnapshotNeverBack`: main never
  goes back to an earlier command of the client it read last (`SeenIsOlder`).

- `SteeringFeedback_proofs`: `OrdersCorrect` (`OrdersFlowDown`), `JamCorrect` (`JamNeedsTime`), `StopCorrect`
  (`Safety`, that is `TypeOK` and `ClosedAfterLastSend`) and the action property `FaultSurvives` (`FaultSurvivesSentences`), from
  `IInv == TypeOK /\ OrdersFlowDown /\ OutputIsRouted /\ StopIsOrdered /\ ClockCounts`. `OutputIsRouted` says which copy has the
  newest output at each point of main's cycle, without which "one behind" could become two; `ClockCounts` that the clock is the
  number of deviations at the end of the history of good reports; `StopIsOrdered` in which order flag, thread and
  socket go down, and that a thread that outlives the join has one frame in its hands at most.
- `ControlLaws_proofs`, `PropulsionPlant`: `TypeCorrect`, `WindupBound` (`WindupIsBounded`) and the action property `NoSteps`
  (`ProfileWithoutSteps`), from `IInv == TypeOK /\ NearRamp /\ WindupIsBounded`, for any gains, limits and number of cycles. `NearRamp`
  says that the profile is nearer to the clamped ramp than the error taken for none; without it nothing relates the profile of one
  cycle to the ramp of the next, since on arrival the one is the target and the other stays. `NoSteps` then is a triangle
  inequality over the clamp, which brings no two values further apart (`ClampIsLipschitz`). `WindupIsBounded` is inductive: the sum
  moves only while the torque asked for is in range, and then by one error.
  `GunWatch`: `RateCorrect` (`RateIsTrue`) and `PinCorrect` (`Safety`), from `GunIInv == Bounded /\ HistoryIsTrue /\ RateIsReduced /\ RestOK /\
  PinHoldsTheRightFlag`. `RateIsTrue` speaks of turns of less than half a ring and is not inductive: a step is computed from
  bearings, which are remainders. `RateIsReduced` says it without the condition: the rate is the shorter way of the true turn, which
  for short turns is that turn (`ShorterOfShort`). It needs `HistoryIsTrue`, that the parser's registers hold the bearing the axis had when
  they were stored (a sentence damaged in its status word must not move them), and `Bounded`, how far the axis can have got. The lemmas beneath are
  about remainders: the shorter way depends on its argument up to whole rings only (`ShorterOfBearings`).
  Operators, for all integers and not only for the inputs TLC is given: `WarningsAddUp`, `TrimOpposes`, `StopsReverseNothing`,
  `FixIsOnTheLine` and `WiresAgree` are the assumptions of similar names in `SafetyGates` and `ActuatorLaws`, without their bounds.

- `ShoreFacility_proofs`: `AuthorityCorrect` (`OneSourceOfAuthority`) and `FilesCorrect` (`FilesAreSound`), from `IInv == TypeOK /\
  Stations /\ OneSide /\ OneSourceOfAuthority /\ InOrder /\ CacheMatches /\ RunsStayChained /\ LiveStateIsInLedger`. Honest records
  need `OneSide`: between reading the mode and returning the result the loop keeps to the side it read, and the one update a change
  can overtake is the one under way. That rows are in order needs `InOrder`, an order over ledger, row in hand, queue and update
  under way, since each of these feeds the one before. `Refinement` (`ImplementsFifo`) maps this ledger to `LedgerFifo` as well: an
  update is taken when the loop hands it over, or by the end of its process. `CacheMatches` is to `RunsStayChained` what `CacheMatchesDisk` is in `AuditLedger`.
- `PortsAndBoot_proofs`, `SerialIntake`: `HandlesCorrect` (`Safety`, that is `TypeOK`, `NoHandleIsLost` and
  `StopFailsIfOutlasted`) and the action property `StopCorrect`
  (`NothingAfterStop`), from `IInv == TypeOK /\ OnlyWorker /\ StopIsTold /\ OnItsWayOut /\ NoHandleIsLost /\ StopFailsIfOutlasted`. `OnItsWayOut`
  says where a thread that outlasted the join can still be, which is what keeps it from opening a port, handing on a line later, or
  taking the port from a stop that has seen it.
  `BootSequence`: `BootIsSafe` (`BootSafety`) and the action property `FileIsTheirs` (`OnlyAbsenceIsReplaced`), from `BootIInv == BoundsOK /\ PortsOK /\
  NetworkOK /\ BridgeOK`. A verdict counts successes and failures; that PASSED means frames 1 to n in order needs to know
  where each frame is: `InFlight` orders what was heard, what the driver has buffered and what is on the wire, and `Outstanding` says
  that a port owes at most one outcome. As long as no read has failed the frame heard k-th is then frame k. `NetworkOK` says the same of the
  classes before this one, and `BridgeOK` that a file is generated only where none was found.
- `LedgerWatchdog_proofs`: `FlagsCorrect` (`Safety`), `StallCorrect` (`StallIsFlagged`), `TorqueIsCut` (`StallCutsTorque`) and
  `TorqueReturns` (`TorqueIsRestored`), from `IInv == TypeOK /\ StallSeen /\ QuietSeen /\ ListMatches /\ OneCycle /\ Obeyed`. A deadline
  is not inductive, because nothing in it says how far the checker has come: `StallSeen` and `QuietSeen` say, for each place of the checker
  and each tick of its sleep, what it has already seen; `ListMatches` that flag and list agree also around the two-step
  publication; `Obeyed` what the main loop's verdict and torque follow from. Quiet ledgers give the torque back only if there is a
  ledger at all, hence `Ledgers # {}` among the assumptions (the dictionary of the code has fixed keys).
- `ControlCycle_proofs`: `TypeCorrect`, `FinsCorrect` (`FinsInStep`), `PaceCorrect` (`FastWireKeepsUp`) and the action property
  `WireCorrect` (`WireAdvances`), from `IInv == TypeOK /\ PutRange /\ Numbered /\ PaceKept`. Frames are numbered by how many were put up to
  them (`Num`). `Numbered` says that queue and hand hold the last of the numbers in a row, and that no device has got a
  number the writer is not done with; that a frame on the wire is newer, of its cycle's partner or not too old is then arithmetic.
  `PaceKept` counts the frames of a cycle that are queued, in hand and written.

Every invariant and every action property that a passing run checks is also proved, and so are the three refinements. Only model-checked
are the liveness properties, since liveness under fairness and `ENABLED` are outside the prover's reach: `LinesAreServed`,
`HandlersEnd`, `LiveStateCatchesUp`, `Reconnects`, `FlagSettles`, `ProgramsSettle` and `QueueDrains`. Of the assumptions of
`LegacyWords`, `SafetyGates` and `ActuatorLaws`, those that compare a fold or a sequence of calls with a reference (Gray code, words,
the watchdog's round, mounts, the window of rolls, aviation fixes) are evaluated over the inputs they name: for all inputs they would
take an induction over data, which no installed prover can do. No module uses `RECURSIVE`.

## 5. What the models leave out

Names, formats, checksums and the texts of messages; the retention of files
beyond the days modelled; partial writes inside a row (a row is stored whole or not at all: it is shorter than
one buffer); operating-system limits on threads and sockets; clock adjustments (`time.time()` only grows).
The mission logger's queue is that of a ledger and is not modelled again.

Not modelled, and why:

- the floating-point laws: ballistics, dead reckoning, target motion, waves, bank suction, weapon balance, and inside modelled
  components the trim, roll, notch-filter and yaw formulas. TLC has no real arithmetic; what surrounds the formulas (limits, windows,
  signs, modes) is modelled;
- the museum history matrix: constant tables and their lookup;
- consoles, dashboards, the teletype node and demonstration scripts: they show what they are given and nothing reads
  what they keep; two of them do not parse; neither does the feature library;
- the Aegis sketch: each callback and each datagram is copied into one message; no state outlives a call.

## 6. Plan

Done: the modules above with their runs, and the proofs of section 4. Next, most important first:

1. Composition: `SerialIntake`'s lines as `SteeringFeedback`'s sentences; `AuditLedger`'s reports as `LedgerWatchdog`'s inputs, with the
   deadline of the watchdog's promise ("silent with rows waiting for longer than the limit implies no torque") stated for the pair.
2. Proofs: the transmit queue of `ControlCycle` as a refinement of a queue per actuator; `SteeringFeedback`'s orders as a refinement of a
   register per direction.
