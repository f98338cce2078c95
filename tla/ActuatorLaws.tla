------------------------------ MODULE ActuatorLaws ------------------------------
(***************************************************************************)
(* What the laws give to the actuators once their floating-point formulas  *)
(* have been evaluated: the channel trim, the split of the two fins, the   *)
(* rudder and propulsion sentences of the serial and the UDP side, the     *)
(* steering gear's status word; and the aviation bridge, a law over two    *)
(* fixes.  Formulas are numbers given to the operators; their limits,      *)
(* sides, signs, windows and defaults are the code's.                      *)
(*                                                                         *)
(* The assumptions compare each with what it is for, on all inputs around  *)
(* its limits; TLC evaluates them in every run of MCPlant.                 *)
(***************************************************************************)
EXTENDS Integers, Sequences, FiniteSets

LOCAL INSTANCE SequencesExt

Held(limit, x) == IF x < -limit THEN -limit ELSE IF x > limit THEN limit ELSE x
Abs(x) == IF x < 0 THEN -x ELSE x

-----------------------------------------------------------------------------
(* asymmetric_trim_subroutine.py: angles in hundredths of a degree, the    *)
(* bank in decimeters.                                                     *)

Beam == 95
TrimLimit(maxRudder) == (45 * maxRudder) \div 100

Nominal == [trim |-> 0, moment |-> 0, override |-> FALSE]

\* raw is the angle that balances the predicted moment: it has no sign yet, and any
\* side that is not "starboard" is port.
CalculateAsymmetricChannelTrim(maxRudder, distance, side, raw) ==
    IF distance >= 4 * Beam \/ distance > 400 THEN Nominal
    ELSE LET signed == IF side = "starboard" THEN raw ELSE -raw
             trim   == Held(TrimLimit(maxRudder), signed)
         IN  [trim     |-> trim,
              moment   |-> IF side = "starboard" THEN -raw ELSE raw,
              override |-> 10 * Abs(trim) >= 8 * TrimLimit(maxRudder)]

Distances == {0, 85, 379, 380, 400, 401}
RawTrims == {0, 1, 1259, 1260, 1575, 3000}

\* The rudder goes against the moment and never uses more than its share; the two
\* banks are mirror images; the safety override is up only near the limit of a trim
\* that is in use.
ASSUME TrimOpposesTheBank ==
    \A distance \in Distances, raw \in RawTrims :
        LET Report(side) == CalculateAsymmetricChannelTrim(3500, distance, side, raw)
        IN  /\ \A side \in {"starboard", "port"} :
                  /\ Report(side).trim * Report(side).moment <= 0
                  /\ 100 * Abs(Report(side).trim) <= 45 * 3500
                  /\ Report(side).override => distance < 380 /\ raw >= 1260
            /\ Report("port").trim = -Report("starboard").trim

\* A side spelt otherwise, whichever is meant, is trimmed as a bank to port.
ASSUME UnknownSideIsPort ==
    \A distance \in Distances, raw \in RawTrims :
        CalculateAsymmetricChannelTrim(3500, distance, "Starboard", raw)
            = CalculateAsymmetricChannelTrim(3500, distance, "port", raw)

-----------------------------------------------------------------------------
(* asymmetric_roll_stabilizer.py: angles in tenths of a degree.            *)

\* roll_history is a window of the last samples, whatever the mode they were taken in.
Remember(window, history, roll) ==
    LET longer == Append(history, roll)
    IN  IF Len(longer) > window THEN Tail(longer) ELSE longer

ASSUME WindowIsTheLastSamples ==
    \A n \in 0..5 : \A rolls \in [1..n -> {-1, 0, 2}] :
        FoldLeft(LAMBDA h, r : Remember(3, h, r), << >>, rolls)
            = SubSeq(rolls, IF n > 3 THEN n - 2 ELSE 1, n)

\* A steep target tilts the deck, by a fifth of its elevation (in degrees) and by up
\* to 8 degrees.
DeckRoll(elevation) == Held(80, 2 * elevation)

\* The terms of one cycle: steering, roll control, damping, lead.  The lead takes the
\* side of the roll control.
Split(limit, steering, rollControl, damping, lead) ==
    [port |-> Held(limit, (steering - damping) + (rollControl + lead)),
     stbd |-> Held(limit, (steering - damping) - (rollControl + lead))]

\* 0.03 rad/s and 0.02 rad.
ReadyToFire(engaged, roll, rollRate, elevation) ==
    engaged /\ Abs(rollRate) <= 17 /\ Abs(roll - DeckRoll(elevation)) <= 11

TrackingMode(engaged) ==
    IF engaged THEN "APEX_COMBAT_LOCK_ACTIVE" ELSE "NOMINAL_STORM_DAMPING"

\* serialize_asymmetric_actuator_channels looks at the mode and not at the clearance.
CombatLockBit(mode) == IF mode = "APEX_COMBAT_LOCK_ACTIVE" THEN 1 ELSE 0

\* Two fins with separate stops: what is left of the common angle never turns the ship
\* the other way, though a large roll can leave nothing of it; without a stop the two
\* angles are exactly the sum and the difference.
ASSUME StopsNeverReverseSteering ==
    /\ \A s, r \in -5..5, d \in {-1, 0, 1}, l \in {-1, 0, 1} :
        LET fins == Split(3, s, r, d, l)
        IN  /\ (fins.port + fins.stbd) * (s - d) >= 0
            /\ (fins.port - fins.stbd) * (r + l) >= 0
            /\ Abs(s - d) + Abs(r + l) <= 3 =>
                   fins.port + fins.stbd = 2 * (s - d) /\ fins.port - fins.stbd = 2 * (r + l)
    /\ \E s, r \in 1..5 : Split(3, s, r, 0, 0).port + Split(3, s, r, 0, 0).stbd = 0

\* The valves of the combat lock open before the deck is where the gun may fire, never
\* the other way round.
ASSUME LockPrecedesClearance ==
    LET Cases == BOOLEAN \X (-92..92) \X {-18, -17, 0, 17, 18} \X {-90, 0, 30, 90}
    IN  /\ \A c \in Cases :
               ReadyToFire(c[1], c[2], c[3], c[4]) => CombatLockBit(TrackingMode(c[1])) = 1
        /\ \E c \in Cases :
               CombatLockBit(TrackingMode(c[1])) = 1 /\ ~ReadyToFire(c[1], c[2], c[3], c[4])

-----------------------------------------------------------------------------
(* actuator_serial_serializer.py and bridge_network_interface.py: one      *)
(* output of the engine goes out twice.  The engine has rounded it to the  *)
(* digits of the wires.  A key the output lacks is one ``output` lacks.*)

Get(output, key, default) == IF key \in DOMAIN output THEN output[key] ELSE default

\* The serial side sends a magnitude and a letter.
SerializeRudderCommand(output) ==
    LET rudder == Get(output, "rudder", 0)
    IN  [magnitude |-> Abs(rudder), direction |-> IF rudder >= 0 THEN "R" ELSE "L", slew |-> 150]

SerializePropulsionCommand(output) ==
    [torque  |-> Get(output, "torque", 0),
     rpmCap  |-> Get(output, "rpmCap", 5500),
     fatigue |-> Get(output, "insightLoad", 0)]

\* The UDP side sends a signed number, and reads the load under a name of its own.
SerializeToActuatorSentence(output) ==
    [torque |-> Get(output, "torque", 0), rudder |-> Get(output, "rudder", 0),
     rpmCap |-> Get(output, "rpmCap", 0), load |-> Get(output, "telemetryLoad", 0)]

\* What the engine returns, and before the first cycle nothing.
EngineKeys == {"torque", "rudder", "rpmCap", "insightLoad"}
Outputs == [EngineKeys -> {-421, 0, 1425}] \cup {<< >>}

\* The letter and the magnitude are the angle: the two sides order the same rudder,
\* torque and, once there is an output, speed.
ASSUME WiresAgreeOnTheOrder ==
    \A output \in Outputs :
        LET rudder == SerializeRudderCommand(output)
            drive  == SerializePropulsionCommand(output)
            packet == SerializeToActuatorSentence(output)
        IN  /\ packet.rudder = IF rudder.direction = "R" THEN rudder.magnitude ELSE -rudder.magnitude
            /\ packet.torque = drive.torque
            /\ output # << >> => packet.rpmCap = drive.rpmCap

\* They do not agree on the load, which the UDP side never finds, nor on what to send
\* without an output: 550 rpm on one, 0 on the other.
ASSUME WiresDisagreeOnTheLoad ==
    /\ \A output \in Outputs : SerializeToActuatorSentence(output).load = 0
    /\ \E output \in Outputs : SerializePropulsionCommand(output).fatigue # 0
    /\ SerializePropulsionCommand(<< >>).rpmCap # SerializeToActuatorSentence(<< >>).rpmCap

\* actuator_telemetry_receiver.py: the gear's status word is a set of bits, or no
\* hexadecimal number.
FlagOf == <<"HYDRAULIC_PRESSURE_DROP", "MOTOR_CURRENT_OVERLOAD",
            "ACTUATOR_THERMAL_CRITICAL", "FEEDBACK_SENSOR_FAULT">>

DecodeStatusFlags(word) ==
    IF ~word.hex THEN [faulted |-> TRUE, faults |-> {"MALFORMED_BITMASK_ERROR"}]
    ELSE LET faults == {FlagOf[b + 1] : b \in word.bits \cap 0..3}
         IN  [faulted |-> faults # {}, faults |-> faults]

\* A word that cannot be read is a fault; a bit above the third is none.
ASSUME OnlyNamedBitsAreFaults ==
    \A bits \in SUBSET {0, 1, 2, 3, 4, 15} :
        /\ DecodeStatusFlags([hex |-> FALSE, bits |-> bits]).faulted
        /\ LET r == DecodeStatusFlags([hex |-> TRUE, bits |-> bits])
           IN  /\ r.faulted <=> \E b \in 0..3 : b \in bits
               /\ Cardinality(r.faults) = Cardinality(bits \cap 0..3)

-----------------------------------------------------------------------------
(* aviation_telemetry_bridge.py: positions in steps of latitude and        *)
(* longitude, time in milliseconds.                                        *)

Nowhere == [lat |-> 0, lon |-> 0]
NoCourse == [north |-> 0, east |-> 0]

Bridge == [at |-> Nowhere, course |-> NoCourse, locked |-> FALSE, synced |-> 0,
           known |-> FALSE, last |-> Nowhere, time |-> 0]

\* atan2 forgets the length of the step and keeps its direction; of no step at all,
\* its direction is north.
Towards(from, to) == [north |-> to.lat - from.lat, east |-> to.lon - from.lon]

\* A fix is stored in one hold of the lock, after the last field has been read: a
\* sentence that is damaged anywhere stores nothing.
IngestAerospaceSentence(bridge, s) ==
    IF s.damaged THEN bridge
    ELSE [at     |-> s.at,
          course |-> IF bridge.known /\ s.time - bridge.time > 1
                     THEN Towards(bridge.last, s.at) ELSE NoCourse,
          locked |-> s.status = 0, synced |-> s.time,
          known  |-> TRUE, last |-> s.at, time |-> s.time]

Sentences(time) ==
    [at : [lat : {0, 1}, lon : {0, 1}], status : {0, 1}, damaged : BOOLEAN, time : {time}]

\* However many damaged sentences lie between, the snapshot is that of the last good
\* fix and the course is made good from the good fix before it; of two fixes within a
\* millisecond the second forgets the course and is the base of the next.
ASSUME SnapshotIsTheLastGoodFix ==
    \A s1 \in Sentences(10), s2 \in Sentences(11), s3 \in Sentences(40) :
        LET sent == <<s1, s2, s3>>
            good == SelectSeq(sent, LAMBDA s : ~s.damaged)
            n    == Len(good)
            b    == FoldLeft(IngestAerospaceSentence, Bridge, sent)
        IN  IF n = 0 THEN b = Bridge
            ELSE /\ b.at = good[n].at /\ b.locked = (good[n].status = 0)
                 /\ b.synced = good[n].time
                 /\ b.course = IF n > 1 /\ good[n].time - good[n-1].time > 1
                               THEN Towards(good[n-1].at, good[n].at) ELSE NoCourse

=============================================================================
