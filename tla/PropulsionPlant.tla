---------------------------- MODULE PropulsionPlant ----------------------------
(***************************************************************************)
(* The propulsion side of UnivacReplacementBridgeEngine.execute_bridge_loop *)
(* and what main.py does to its result before it is sent: the shallow-water *)
(* cap on the ordered speed, the S-curve ramp, the speed loop with its     *)
(* windup interlock, the anchor's cap, the watchdog's cut.                 *)
(*                                                                         *)
(* What the rest of the program makes of the inputs is here: telemetry's   *)
(* rpm and bow sensor are the parser's 0.0, which nothing updates, so the  *)
(* measured speed is zero, the blades are submerged (the ventilation index *)
(* is 1) and the shear limit and the structural load stay at rest; two of  *)
(* the engine's imports name classes that do not exist, so it always runs  *)
(* in its Safe-Mode, without trim, bank suction or dead reckoning; and the *)
(* cognitive metrics main reads are an empty dictionary.                   *)
(*                                                                         *)
(* Integers stand for the engine's floats: an acceleration is counted in   *)
(* jerk * dt, a speed in jerk * dt^2, the integral in one error for one    *)
(* dt, torque in any unit.  Rounding for the wire is left out.             *)
(***************************************************************************)
EXTENDS Integers

CONSTANTS
    Astern, Ahead,  \* the speeds the command listener lets in and the profile is
                    \* held to: -Astern .. Ahead (-200 .. 1200 rpm)
    ShallowCap,     \* 250 rpm
    AnchorCap,      \* 100 rpm
    AccelLim,       \* max_accel_lim
    Snap,           \* the error taken for none (0.1 rpm)
    Kp, Ki,         \* gains of the speed loop
    MaxTorque,
    MaxCycles       \* bound: cycles of the loop

ASSUME ConstantsAssumption ==
    /\ Astern \in Nat /\ Ahead \in Nat
    /\ ShallowCap \in 0..Ahead /\ AnchorCap \in 0..Ahead
    /\ AccelLim \in Nat \ {0} /\ Snap \in Nat \ {0}
    /\ Kp \in Nat /\ Ki \in Nat /\ MaxTorque \in Nat \ {0}
    /\ MaxCycles \in Nat

VARIABLES
    ramp, accel,    \* current_ramp_rpm, current_accel
    integral,       \* integral_speed_error
    profile,        \* the speed the S-curve returned, active_rpm_cap of the engine
    slowdown,       \* shallow_water_slowdown_active
    torque, rpmCap, \* what is routed to the drive
    cycle,
    alwaysShallow   \* history: has every cycle been in shallow water?

vars == <<ramp, accel, integral, profile, slowdown, torque, rpmCap, cycle, alwaysShallow>>

Speeds == -Astern..Ahead
Clamp(lo, hi, x) == IF x < lo THEN lo ELSE IF x > hi THEN hi ELSE x
Magnitude(x) == IF x < 0 THEN -x ELSE x
Lesser(x, y) == IF x < y THEN x ELSE y

Init ==
    /\ ramp = 0 /\ accel = 0 /\ integral = 0
    /\ profile = 0 /\ slowdown = FALSE /\ torque = 0 /\ rpmCap = 0
    /\ cycle = 0 /\ alwaysShallow = TRUE

\* Feature 16/20: past a depth Froude number of 0.85 the order is capped.
SafeTarget(order, shallow) == IF shallow THEN Lesser(order, ShallowCap) ELSE order

Arrived(target) == Magnitude(target - ramp) < Snap

\* Mutant of NewAccel: the acceleration is not limited.
NewAccel_Unlimited(target) ==
    IF Arrived(target) THEN 0
    ELSE IF target > ramp THEN accel + 1 ELSE accel - 1

\* The jerk is full, one way or the other, until the ramp has arrived.  (A ramp of
\* exactly 0.0 is set to the measured speed first, which is 0.0.)
NewAccel(target) ==
    IF Arrived(target) THEN 0
    ELSE Clamp(-AccelLim, AccelLim, IF target > ramp THEN accel + 1 ELSE accel - 1)

\* The ramp moves by the new acceleration; on arrival it stays where it is, next to
\* the target that is returned.
NewRamp(target) == ramp + NewAccel(target)
NewProfile(target) == IF Arrived(target) THEN target ELSE Clamp(-Astern, Ahead, NewRamp(target))

BaseTorque(error, sum) == Kp * error + Ki * sum

\* Mutant of NewIntegral: no windup interlock.
NewIntegral_NoInterlock(error) == integral + error

\* Feature 68: the integrator stands while the torque asked for is out of range.
NewIntegral(error) ==
    IF Magnitude(BaseTorque(error, integral)) < MaxTorque THEN integral + error ELSE integral

\* One cycle of main's loop: targets and telemetry as they are, engine, anchor,
\* watchdog, router.
ExecuteBridgeLoop ==
    /\ cycle < MaxCycles
    /\ cycle' = cycle + 1
    /\ \E order \in Speeds, shallow \in BOOLEAN, anchorHeld \in BOOLEAN, faulted \in BOOLEAN :
        LET target == SafeTarget(order, shallow)
        IN  /\ slowdown' = shallow
            /\ alwaysShallow' = (alwaysShallow /\ shallow)
            /\ accel' = NewAccel(target)
            /\ ramp' = NewRamp(target)
            /\ profile' = NewProfile(target)
            /\ integral' = NewIntegral(profile')
            /\ torque' = IF faulted THEN 0
                         ELSE Clamp(-MaxTorque, MaxTorque, BaseTorque(profile', integral'))
            /\ rpmCap' = IF anchorHeld THEN Lesser(profile', AnchorCap) ELSE profile'

Next == ExecuteBridgeLoop
Spec == Init /\ [][Next]_vars

-----------------------------------------------------------------------------
(* Properties.                                                             *)

MaxError == IF Astern > Ahead THEN Astern ELSE Ahead

TypeOK ==
    /\ ramp \in Int /\ integral \in Int
    /\ accel \in -AccelLim..AccelLim
    /\ profile \in Speeds /\ rpmCap \in Speeds
    /\ torque \in -MaxTorque..MaxTorque
    /\ slowdown \in BOOLEAN /\ alwaysShallow \in BOOLEAN
    /\ cycle \in 0..MaxCycles

\* What the integrator alone asks for never exceeds the drive's range by more than
\* the two terms of one full error: however long the speed is not reached, and with
\* no speed measured it never is, the loop is not wound up further.
WindupIsBounded == Magnitude(Ki * integral) <= MaxTorque + (Kp + Ki) * MaxError

\* "Smoothly ramp target RPM without steps": in one cycle, whatever the orders and the
\* depth do, the profiled speed moves by no more than the acceleration limit and the
\* error twice taken for none.
ProfileWithoutSteps ==
    [][Magnitude(profile' - profile) <= AccelLim + 2 * Snap]_vars

-----------------------------------------------------------------------------
(* What the repository's text says and the code does not do.               *)

\* RPM_Cap is the "dynamic shallow water or structural speed ceiling": a ship that has
\* been in shallow water since it started is given no more than the shallow-water cap.
ShallowCeilingHolds == alwaysShallow => rpmCap <= ShallowCap
=============================================================================
