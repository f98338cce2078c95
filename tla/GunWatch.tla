------------------------------- MODULE GunWatch -------------------------------
(***************************************************************************)
(* The parsers that derive a rate from two successive bearings, and the    *)
(* flag changer that acts on it: NmeaSerialDataParser (true heading, yaw   *)
(* rate), WeaponSerialBusParser and WeaponAsyncParserExtension (azimuth),  *)
(* AutomaticFlagChangerSubroutine.                                         *)
(*                                                                         *)
(* A behaviour follows one parser, chosen at the start, and what it is fed *)
(* with: sentences about one axis that turns, some of them damaged.  A     *)
(* bearing is a whole number of steps of a ring, time is counted in ticks; *)
(* two sentences in one tick are the two within a millisecond of the code. *)
(* Elevation, depth and speed are stored beside the bearing and have no    *)
(* history.  The halyard keeps the code's servo law with smaller numbers.  *)
(***************************************************************************)
EXTENDS Integers

CONSTANTS
    Ring,           \* steps in a full circle
    MaxTurn,        \* bound: steps the axis turns in a tick, either way
    Creep,          \* azimuth rate above which weapons count as active (0.02 rad/s)
    Apex, Half,     \* halyard heights (100 and 50 in the code)
    Lag,            \* inverse of the servo filter (10 in the code)
    Slack,          \* error below which the halyard is at its target (0.1 in the code)
    MaxTicks        \* bound: ticks

ASSUME GunConstants ==
    /\ Ring \in Nat /\ Ring > 1 /\ MaxTurn \in Nat /\ Creep \in Nat
    /\ Half \in Nat /\ Apex \in Nat /\ Half < Apex
    /\ Lag \in Nat \ {0} /\ Slack \in Nat /\ Slack >= Lag - 1
    /\ MaxTicks \in Nat

VARIABLES
    kind,               \* which parser
    truth, now,         \* the axis, not reduced to the ring, and the clock
    shown,              \* bearing in the parser's cache
    rate,               \* rate in the cache: a turn and the ticks it took
    healthy,            \* status in the cache: no bit of the servo mask set
    last,               \* history registers: bearing, time, and whether there is one
    flag, halyard, pin, \* the flag changer
    restricted,         \* bank closer than 20 m, or shallow-water slowdown
    fixTruth,           \* history: the axis when `last` was stored
    trueRate            \* history: the true turn behind `rate`

parserVars == <<shown, rate, healthy, last>>
flagVars   == <<flag, halyard, pin, restricted>>
history    == <<fixTruth, trueRate>>
gunVars == <<kind, truth, now, parserVars, flagVars, history>>

Kinds == {"nmea", "serial", "async"}
Flags == {"ENSIGN", "COMBAT", "RESTRICTED"}
Still == [turn |-> 0, dt |-> 1]
NoSentence == [known |-> FALSE, bearing |-> 0, time |-> 0]
Reading == truth % Ring

GunInit ==
    /\ kind \in Kinds
    /\ truth = 0 /\ now = 0
    /\ shown = 0 /\ rate = Still /\ healthy = (kind # "async") /\ last = NoSentence
    /\ flag = "ENSIGN" /\ halyard = 0 /\ pin = TRUE /\ restricted = FALSE
    /\ fixTruth = 0 /\ trueRate = Still

Turn ==
    /\ now < MaxTicks
    /\ \E t \in -MaxTurn..MaxTurn : truth' = truth + t
    /\ now' = now + 1
    /\ UNCHANGED <<kind, parserVars, flagVars, history>>

-----------------------------------------------------------------------------
(* The parsers.                                                            *)

\* Mutant of Shorter: no wrap at the end of the ring.
Shorter_NoWrap(delta) == delta

\* The way round the ring that is less than half of it.
Shorter(delta) == ((delta + Ring \div 2) % Ring) - (Ring \div 2)

\* Mutant of NewRate: of two sentences in one millisecond the second keeps the rate.
NewRate_KeptAtOnce ==
    IF last.known /\ now > last.time
    THEN [turn |-> Shorter(Reading - last.bearing), dt |-> now - last.time]
    ELSE rate

\* What a sentence does to the rate.  A first sentence, or a second in the same
\* millisecond, leaves the yaw rate and zeroes a gun's.
NewRate ==
    IF last.known /\ now > last.time
    THEN [turn |-> Shorter(Reading - last.bearing), dt |-> now - last.time]
    ELSE IF kind = "nmea" THEN rate ELSE Still

\* The same from the axis itself.
NewTrueRate ==
    IF last.known /\ now > last.time
    THEN [turn |-> truth - fixTruth, dt |-> now - last.time]
    ELSE IF kind = "nmea" THEN trueRate ELSE Still

ShiftHistory ==
    /\ last' = [known |-> TRUE, bearing |-> Reading, time |-> now]
    /\ fixTruth' = truth

\* Mutant of GoodSentence: the time of a sentence is kept, its bearing is not.
GoodSentence_BearingKept ==
    /\ rate' = NewRate /\ trueRate' = NewTrueRate
    /\ shown' = Reading
    /\ \E ok \in BOOLEAN : healthy' = (ok \/ kind = "nmea")
    /\ last' = [known |-> TRUE, bearing |-> shown, time |-> now]
    /\ fixTruth' = truth
    /\ UNCHANGED <<kind, truth, now, flagVars>>

\* Checksum, header and every field are right.
GoodSentence ==
    /\ rate' = NewRate /\ trueRate' = NewTrueRate
    /\ shown' = Reading
    /\ \E ok \in BOOLEAN : healthy' = (ok \/ kind = "nmea")
    /\ ShiftHistory
    /\ UNCHANGED <<kind, truth, now, flagVars>>

\* The bearings parse and the status word does not.  WeaponSerialBusParser has
\* stored its rates by then, next to the old bearing ("Keep previous clean values in
\* case of formatting anomalies"); WeaponAsyncParserExtension has stored nothing.
BadStatus ==
    /\ kind # "nmea"
    /\ IF kind = "serial"
       THEN rate' = NewRate /\ trueRate' = NewTrueRate
       ELSE UNCHANGED <<rate, trueRate>>
    /\ UNCHANGED <<kind, truth, now, shown, healthy, last, flagVars, fixTruth>>

\* A wrong checksum, another device's sentence, an empty or unreadable bearing: the
\* cache is returned as it is.

-----------------------------------------------------------------------------
(* The flag changer, once per cycle of the main loop.                      *)

Extent(x) == IF x < 0 THEN -x ELSE x

\* The serial parser's dictionary has no bus_sync_active key, and no parser's has
\* engagement_sequence_active: both read as False.
WeaponsAreActive ==
    /\ kind # "nmea"
    /\ \/ Extent(rate.turn) > Creep * rate.dt
       \/ kind = "async" /\ healthy

TargetState ==
    IF WeaponsAreActive THEN "COMBAT" ELSE IF restricted THEN "RESTRICTED" ELSE "ENSIGN"

Height(f) == CASE f = "COMBAT" -> Apex [] f = "RESTRICTED" -> Half [] f = "ENSIGN" -> 0

\* Mutant of HalyardStep: the filter is applied to the error down to nothing.
HalyardStep_NoSnap(error) == IF error < 0 THEN -((-error) \div Lag) ELSE error \div Lag

\* How far the winch goes in a cycle: a fixed part of the error, all of it at the end.
HalyardStep(error) ==
    IF Extent(error) <= Slack THEN error
    ELSE IF error < 0 THEN -((-error) \div Lag) ELSE error \div Lag

\* Mutant of EvaluateFlagLogicMatrix: the pin is driven from the last cycle's error.
EvaluateFlagLogicMatrix_LatePin ==
    LET error == Height(TargetState) - halyard
    IN  /\ flag' = TargetState
        /\ halyard' = halyard + HalyardStep(error)
        /\ pin' = (Extent(Height(flag) - halyard) <= Slack)
        /\ UNCHANGED <<kind, truth, now, parserVars, restricted, history>>

EvaluateFlagLogicMatrix ==
    LET error == Height(TargetState) - halyard
    IN  /\ flag' = TargetState
        /\ halyard' = halyard + HalyardStep(error)
        /\ pin' = (Extent(error) <= Slack)
        /\ UNCHANGED <<kind, truth, now, parserVars, restricted, history>>

ChannelChanges ==
    /\ restricted' = ~restricted
    /\ UNCHANGED <<kind, truth, now, parserVars, flag, halyard, pin, history>>

GunNext == Turn \/ GoodSentence \/ BadStatus \/ EvaluateFlagLogicMatrix \/ ChannelChanges

\* The main loop calls the flag changer every cycle.
GunSpec == GunInit /\ [][GunNext]_gunVars /\ WF_gunVars(EvaluateFlagLogicMatrix)

-----------------------------------------------------------------------------
(* Properties.                                                             *)

Span == MaxTurn * MaxTicks

GunTypeOK ==
    /\ kind \in Kinds /\ truth \in -Span..Span /\ now \in 0..MaxTicks
    /\ shown \in 0..Ring-1 /\ healthy \in BOOLEAN
    /\ rate.turn \in -(Ring \div 2)..(Ring \div 2) /\ trueRate \in [turn : -Span..Span, dt : 1..(MaxTicks + 1)]
    /\ last.known \in BOOLEAN /\ last.bearing \in 0..Ring-1 /\ last.time \in 0..MaxTicks
    /\ flag \in Flags /\ halyard \in 0..Apex /\ pin \in BOOLEAN /\ restricted \in BOOLEAN

\* The rate in the cache is the mean rate at which the axis really turned between the
\* two sentences it is derived from, across the end of the ring, through damaged
\* sentences and sentences in one millisecond, as long as the axis turned by less
\* than half the ring between them.
RateIsTrue ==
    2 * Extent(trueRate.turn) < Ring => rate = trueRate

\* The pin goes in only with the flag at its height.
PinHoldsTheRightFlag == pin => halyard = Height(flag)

\* Types, and the pin.
Safety == GunTypeOK /\ PinHoldsTheRightFlag

\* Once what it reacts to no longer changes, the flag changer comes to rest: flag
\* up, halyard at its height, pin in.
FlagSettles ==
    \A f \in Flags :
        <>[](TargetState = f) => <>[](flag = f /\ halyard = Height(f) /\ pin)

=============================================================================
