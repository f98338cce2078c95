------------------------------ MODULE SafetyGates ------------------------------
(***************************************************************************)
(* The gates between what is computed and what moves: the bilge authority  *)
(* router and the discharge gate, the central warning registry, the thread *)
(* watchdog's verdict, the release bit of the shore batteries, the jammer  *)
(* fix and the mounts slaved to it.  Each is a function of what it is      *)
(* given and of the little it remembers, and is written here as one.       *)
(*                                                                         *)
(* Quantities are integers in the unit that makes the code's limit one.    *)
(* The assumptions that follow a definition compare it with what it        *)
(* promises, on all inputs around the limits; TLC evaluates them in every  *)
(* run of MCPlant.                                                         *)
(***************************************************************************)
EXTENDS Integers, Sequences, FiniteSets

LOCAL INSTANCE SequencesExt
LOCAL INSTANCE FiniteSetsExt

-----------------------------------------------------------------------------
(* bilge_authority_router.py                                               *)

Authorities == {"UNIVAC", "REPLACEMENT", "SEA_MACHINES"}

\* set_control_authority: a name it does not know changes nothing.
SetControlAuthority(active, requested) ==
    IF requested \in Authorities THEN requested ELSE active

Secured == [overboard |-> 0, recirculation |-> 0]

\* resolve_final_actuator_commands: what the one in charge wants.
ResolveFinalActuatorCommands(active, wants) ==
    IF active \in Authorities THEN wants[active] ELSE Secured

\* main.py's three vectors are constants.
MainWants == [a \in Authorities |->
    [overboard     |-> IF a = "UNIVAC" THEN 1 ELSE 0,
     recirculation |-> IF a = "REPLACEMENT" THEN 1 ELSE 0]]

\* Whatever is asked of the router, in whatever order, one side is in charge,
\* it is the last that was named rightly, and main never opens both valves.
ASSUME OneAuthorityAtATime ==
    \A first, second \in Authorities \cup {"AUTOPILOT"} :
        LET held == SetControlAuthority(SetControlAuthority("UNIVAC", first), second)
            out  == ResolveFinalActuatorCommands(held, MainWants)
        IN  /\ held = IF second \in Authorities THEN second
                      ELSE IF first \in Authorities THEN first ELSE "UNIVAC"
            /\ out.overboard + out.recirculation <= 1

-----------------------------------------------------------------------------
(* bilge_gating_subroutine.py: oil in tenths of a ppm, motion as a flag,   *)
(* the time since the last evaluation in seconds.                          *)

PpmLimit == 148
PpmHold == 80

Valve(pump, ppm, sloshing) ==
    IF ~pump THEN "SECURED"
    ELSE IF ppm >= PpmLimit \/ (sloshing /\ ppm > PpmHold) THEN "RECIRCULATING_FAULT"
    ELSE "DISCHARGING_OVERBOARD"

Gate == [valve |-> "SECURED", liters |-> 0]

\* The seconds that have passed are charged to the state just entered.
EvaluateDischargeSafetyMatrix(gate, in) ==
    LET valve == Valve(in.pump, in.ppm, in.sloshing)
    IN  [valve  |-> valve,
         liters |-> gate.liters + (IF valve = "DISCHARGING_OVERBOARD" THEN 5 * in.dt ELSE 0)]

Discharge(inputs) == FoldLeft(EvaluateDischargeSafetyMatrix, Gate, inputs)

GateInputs == [pump : BOOLEAN, ppm : {80, 81, 147, 148}, sloshing : BOOLEAN, dt : {1, 3}]

\* The line to the sea is open only with the pump running and the oil under
\* the limit, and under the lower one in a seaway.
ASSUME OilyWaterStaysAboard ==
    \A in \in GateInputs :
        Valve(in.pump, in.ppm, in.sloshing) = "DISCHARGING_OVERBOARD"
            <=> in.pump /\ in.ppm < IF in.sloshing THEN PpmHold + 1 ELSE PpmLimit

\* The liters are those of the intervals that end open, not of those that began
\* open: the total can miss all that went overboard, and count what did not.
ASSUME LitersAreOneStepAhead ==
    LET Open(in) == Valve(in.pump, in.ppm, in.sloshing) = "DISCHARGING_OVERBOARD"
        Flowed(a, b) == IF Open(a) THEN 5 * b.dt ELSE 0
        Total(a, b) == Discharge(<<a, b>>).liters - Discharge(<<a>>).liters
    IN  /\ \E a, b \in GateInputs : Flowed(a, b) > 0 /\ Total(a, b) = 0
        /\ \E a, b \in GateInputs : Flowed(a, b) = 0 /\ Total(a, b) > 0
        /\ \A a, b \in GateInputs : Open(a) /\ Open(b) => Total(a, b) = Flowed(a, b)

-----------------------------------------------------------------------------
(* central_warning_registry.py: lengths in decimeters, speed in dm/s.      *)

WarningBits(t) ==
    {b \in 0..4 :
        \/ b = 0 /\ t.depth - t.draft <= 10
        \/ b = 1 /\ t.core >= 85
        \/ b = 2 /\ t.magazine >= 70
        \/ b = 3 /\ t.roll >= 25
        \/ b = 4 /\ t.obstacle < 500 /\ t.obstacle <= 3 * (IF t.speed > 1 THEN t.speed ELSE 1)}

\* Grounding is stored in an attribute of its own, not among the messages; heat
\* lowers the order, whatever else is wrong.
EvaluatePhysicalWarningGates(t, rpm) ==
    [mask     |-> WarningBits(t),
     faults   |-> WarningBits(t) \ {0},
     shutdown |-> WarningBits(t) \cap {0, 2, 4} # {},
     rpm      |-> IF 1 \in WarningBits(t) /\ rpm > 150 THEN 150 ELSE rpm]

Conditions == [depth : {74, 75, 76}, draft : {65}, core : {84, 85}, magazine : {69, 70},
               roll : {24, 25}, obstacle : {3, 4, 150, 151, 499, 500}, speed : {0, 50, 200}]

Worse(t, u) ==
    /\ u.depth <= t.depth /\ u.obstacle <= t.obstacle
    /\ u.core >= t.core /\ u.magazine >= t.magazine /\ u.roll >= t.roll /\ u.speed >= t.speed

\* No warning hides another: what is worse in one respect and no better in any
\* other keeps every bit and the shutdown, and never raises the order.
ASSUME WarningsOnlyAddUp ==
    \A t \in Conditions, f \in {"depth", "obstacle", "core", "magazine", "roll", "speed"} :
        \A v \in {u[f] : u \in Conditions} :
            LET u == [t EXCEPT ![f] = v]
                before == EvaluatePhysicalWarningGates(t, 500)
                after  == EvaluatePhysicalWarningGates(u, 500)
            IN  Worse(t, u) =>
                    /\ before.mask \subseteq after.mask
                    /\ before.shutdown => after.shutdown
                    /\ after.rpm <= before.rpm

\* A grounding stops the shaft, and the report it comes with names no fault.
ASSUME GroundingIsNotReported ==
    LET t == [depth |-> 75, draft |-> 65, core |-> 25, magazine |-> 22, roll |-> 0,
              obstacle |-> 5000, speed |-> 50]
        r == EvaluatePhysicalWarningGates(t, 500)
    IN  r.shutdown /\ r.mask = {0} /\ r.faults = {}

-----------------------------------------------------------------------------
(* hardware_watchdog.py: a heartbeat is the time, in ticks of the monitor, *)
(* of a thread's last poke.  (How its flag and its list are published, one *)
(* after the other, is in LedgerWatchdog: this class does it the same way.) *)

Threads == {"NMEA_SERIAL_IN", "WEAPON_BUS_IN", "TCP_COMMAND_IN", "MAIN_CORE_MATH"}

StartWatchdog(now) == [t \in Threads |-> now]

PokeWatchdog(beats, name, now) ==
    IF name \in Threads THEN [beats EXCEPT ![name] = now] ELSE beats

LocalFaults(beats, now, timeout) == {t \in Threads : now - beats[t] > timeout}

\* One round of the monitor: a round without a fault clears what the last one found.
MonitorRound(beats, now, timeout) ==
    LET faults == LocalFaults(beats, now, timeout)
    IN  [systemFaulted |-> faults # {}, tripped |-> faults]

\* The heartbeats after some ticks, of each of which the pokes are given.
Beats(pokes) ==
    FoldLeft(LAMBDA beats, k : FoldSet(LAMBDA name, b : PokeWatchdog(b, name, k), beats, pokes[k]),
             StartWatchdog(0), [k \in DOMAIN pokes |-> k])

\* Whoever else pokes, under whatever name, the faults are the threads that were
\* silent in every tick of the last timeout, and none before one has passed.
ASSUME SilentThreadsAreNamed ==
    \A n \in 1..3 :
        \A pokes \in [1..n -> SUBSET {"NMEA_SERIAL_IN", "MAIN_CORE_MATH", "BILGE_PUMP"}] :
            LET silent == {t \in Threads : n > 1 /\ \A k \in (n - 1)..n : t \notin pokes[k]}
            IN  MonitorRound(Beats(pokes), n, 1)
                    = [systemFaulted |-> silent # {}, tripped |-> silent]

-----------------------------------------------------------------------------
(* shore_weapon_serializer.py, and what main.py hands to it.               *)

Stations == {"SHORE_BATTERY_ALPHA", "COASTAL_VLS_CELL_MATRIX"}

StationId(station) ==
    CASE station = "SHORE_BATTERY_ALPHA"     -> 101
      [] station = "COASTAL_VLS_CELL_MATRIX" -> 102
      [] OTHER                               -> 999

\* One frame a battery, whatever its link: the bit is the conjunction.
ShoreFrame(targetLocked, battery) ==
    [id        |-> StationId(battery.station),
     interlock |-> IF battery.linked /\ targetLocked /\ battery.released THEN 1 ELSE 0]

\* Lock and release are looked up among the targets, the cable is telemetry's;
\* all are the same for every battery.
MainShoreFrames(cable, targets) ==
    IF ~cable THEN {}
    ELSE {ShoreFrame("is_target_locked" \in targets,
                     [station |-> s, linked |-> cable,
                      released |-> "navy_combat_release_cleared" \in targets]) : s \in Stations}

\* The listener's targets hold a speed and a turn and nothing else: as main.py
\* feeds it, the bit is never set.
ASSUME ShoreIsHeldSafe ==
    \A cable \in BOOLEAN :
        \A f \in MainShoreFrames(cable, {"rpm", "target_yaw_rate"}) : f.interlock = 0

-----------------------------------------------------------------------------
(* jammer_targeting_system.py and weapon_serial_serializer.py: a strobe is *)
(* a direction, east and north; positions are relative to the own ship.    *)

Cross(u, v) == u.east * v.north - u.north * v.east

\* compute_jammer_location keeps the last fix when the strobes are parallel and
\* only marks it; far is a range of 150 km.  The fix is `num` over `den` of the
\* own strobe, which is where the two lines meet.
ComputeJammerLocation(fix, own, partner, at, far) ==
    IF Cross(own, partner) = 0 THEN [fix EXCEPT !.valid = FALSE]
    ELSE [num |-> Cross(at, partner), den |-> Cross(own, partner), valid |-> ~far]

\* allocate_idle_weapons: an idle mount is slaved to the fix.
AllocateIdleWeapons(fix, mounts) ==
    IF ~fix.valid THEN << >>
    ELSE [k \in DOMAIN mounts |->
            [mount |-> mounts[k].id, status |-> IF mounts[k].engaged THEN "NOMINAL" ELSE "OVERRIDE_ACTIVE"]]

MountId(id) ==
    CASE id = "MAIN_5IN_MK45"  -> 1
      [] id = "AUX_76MM_MK75"  -> 2
      [] id = "PORT_CIWS_MK15" -> 3
      [] id = "STBD_CIWS_MK15" -> 4
      [] OTHER                 -> 99

\* serialize_jammer_suppression_commands: a frame for each allocation, in order.
JammerFrames(allocations) ==
    [k \in DOMAIN allocations |->
        [id |-> MountId(allocations[k].mount),
         override |-> IF allocations[k].status = "OVERRIDE_ACTIVE" THEN 1 ELSE 0]]

Directions == [east : -2..2 \ {0}, north : -2..2]
NoFix == [num |-> 0, den |-> 1, valid |-> FALSE]

\* A fix lies on both strobes' lines; it may lie behind the ship, for a line
\* has no sense, and is valid all the same.
ASSUME FixIsOnBothLines ==
    LET Sights == {x \in Directions \X Directions \X [east : {1, 2}, north : {0, 1}] :
                      Cross(x[1], x[2]) # 0}
        Fix(x) == ComputeJammerLocation(NoFix, x[1], x[2], x[3], FALSE)
    IN  /\ \A x \in Sights :
               LET f == Fix(x)
               IN  Cross([east  |-> f.num * x[1].east  - f.den * x[3].east,
                          north |-> f.num * x[1].north - f.den * x[3].north], x[2]) = 0
        /\ \E x \in Sights : Fix(x).valid /\ Fix(x).num * Fix(x).den < 0

\* A mount that is engaged is never taken from its target, nothing is ordered
\* on a fix that has been marked, and a frame's number is that of its mount
\* only if the mount is in the serializer's table.
ASSUME EngagedMountsAreKept ==
    \A engaged \in [1..3 -> BOOLEAN], own, partner \in Directions :
        LET fix    == ComputeJammerLocation([NoFix EXCEPT !.valid = TRUE], own, partner,
                                            [east |-> 1, north |-> 1], FALSE)
            ids    == <<"MAIN_5IN_MK45", "PORT_CIWS_MK15", "MK45_FORWARD">>
            frames == JammerFrames(AllocateIdleWeapons(fix,
                          [k \in 1..3 |-> [id |-> ids[k], engaged |-> engaged[k]]]))
        IN  /\ \A k \in DOMAIN frames : frames[k].override = 1 <=> ~engaged[k]
            /\ Cross(own, partner) = 0 => frames = << >>
            /\ frames # << >> => [k \in 1..3 |-> frames[k].id] = <<1, 3, 99>>

=============================================================================
