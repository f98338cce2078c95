------------------------- MODULE ControlLaws_proofs --------------------------
(***************************************************************************)
(* Proofs about the components of the control loop that are arithmetic.    *)
(* GunWatch, for any ring, speed of the axis and order of sentences: the   *)
(* rate is the true one, and the pin holds the right flag.                 *)
(* SafetyGates and ActuatorLaws, for any input: warnings, trim, fins, the  *)
(* jammer fix and the two wires.                                           *)
(* PropulsionPlant, for any gains, limits and orders: the types, the bound *)
(* on the integrator and the ramp without steps.                           *)
(***************************************************************************)
EXTENDS MCPlant, GunWatch, TLAPS

-----------------------------------------------------------------------------
(* GunWatch: the ring.                                                     *)

\* A bearing that differs from another by whole circles is the same.
LEMMA ModDef ==
    ASSUME GunConstants, NEW a \in Int
    PROVE  /\ a % Ring \in 0..Ring-1 /\ a \div Ring \in Int
           /\ a = Ring * (a \div Ring) + (a % Ring)
BY DEF GunConstants

LEMMA ModUnique ==
    ASSUME GunConstants, NEW a \in Int, NEW q \in Int, NEW r \in 0..Ring-1, a = Ring * q + r
    PROVE  a % Ring = r
<1> DEFINE p == a \div Ring
           s == a % Ring
<1>0. Ring \in Nat /\ Ring > 1
  BY DEF GunConstants
<1>1. s \in 0..Ring-1 /\ p \in Int /\ a = Ring * p + s
  BY ModDef
<1> HIDE DEF p, s
<1>2. Ring * (q - p) = s - r
  BY <1>0, <1>1
<1>3. CASE q - p >= 1
  <2>1. Ring * (q - p) >= Ring
    BY <1>0, <1>1, <1>3
  <2> QED
    BY <1>0, <1>1, <1>2, <2>1
<1>4. CASE q - p <= -1
  <2>1. Ring * (q - p) <= -Ring
    BY <1>0, <1>1, <1>4
  <2> QED
    BY <1>0, <1>1, <1>2, <2>1
<1>5. CASE q = p
  BY <1>0, <1>1, <1>2, <1>5 DEF s
<1> QED
  BY <1>1, <1>3, <1>4, <1>5

LEMMA HalfRing ==
    ASSUME GunConstants
    PROVE  /\ Ring \in Nat /\ Ring > 1 /\ Ring \div 2 \in Nat
           /\ 2 * (Ring \div 2) <= Ring /\ Ring <= 2 * (Ring \div 2) + 1
BY DEF GunConstants

\* The shorter way is at most half a circle, is the turn itself if that is less
\* than half a circle, and can be taken from the bearings.
LEMMA ShorterRange ==
    ASSUME GunConstants, NEW x \in Int
    PROVE  Shorter(x) \in -(Ring \div 2)..(Ring \div 2)
<1> DEFINE h == Ring \div 2
           m == (x + h) % Ring
<1>1. h \in Nat /\ Ring \in Nat /\ Ring <= 2 * h + 1
  BY HalfRing
<1>2. m \in 0..Ring-1
  BY <1>1, ModDef
<1>3. Shorter(x) = m - h
  BY DEF Shorter
<1> HIDE DEF h, m
<1>4. m - h \in -h..h
  BY <1>1, <1>2
<1> QED
  BY <1>3, <1>4 DEF h

LEMMA ShorterOfShort ==
    ASSUME GunConstants, NEW x \in Int, 2 * Extent(x) < Ring
    PROVE  Shorter(x) = x
<1> DEFINE h == Ring \div 2
<1>1. h \in Nat /\ Ring \in Nat /\ Ring <= 2 * h + 1 /\ 2 * h <= Ring
  BY HalfRing
<1>2. Shorter(x) = ((x + h) % Ring) - h
  BY DEF Shorter
<1> HIDE DEF h
<1>3. x + h \in 0..Ring-1 /\ x + h = Ring * 0 + (x + h)
  BY <1>1 DEF Extent
<1>4. (x + h) % Ring = x + h
  BY <1>1, <1>3, ModUnique
<1> QED
  BY <1>1, <1>2, <1>4

LEMMA ShorterOfBearings ==
    ASSUME GunConstants, NEW a \in Int, NEW b \in Int
    PROVE  Shorter((a % Ring) - (b % Ring)) = Shorter(a - b)
<1> DEFINE h == Ring \div 2
           qa == a \div Ring
           ra == a % Ring
           qb == b \div Ring
           rb == b % Ring
           q == (a - b + h) \div Ring
           r == (a - b + h) % Ring
<1>1. h \in Nat /\ Ring \in Nat
  BY HalfRing
<1>2. /\ ra \in 0..Ring-1 /\ qa \in Int /\ a = Ring * qa + ra
      /\ rb \in 0..Ring-1 /\ qb \in Int /\ b = Ring * qb + rb
  BY ModDef
<1>3. a - b + h \in Int
  BY <1>1
<1>4. r \in 0..Ring-1 /\ q \in Int /\ a - b + h = Ring * q + r
  BY <1>3, ModDef
<1>5. Shorter(ra - rb) = ((ra - rb + h) % Ring) - h /\ Shorter(a - b) = r - h
  BY DEF Shorter
<1> HIDE DEF h, qa, ra, qb, rb, q, r
<1>6. ra - rb + h \in Int /\ q - qa + qb \in Int
  BY <1>1, <1>2, <1>4
<1>7. ra - rb + h = Ring * (q - qa + qb) + r
  BY <1>1, <1>2, <1>4
<1>8. (ra - rb + h) % Ring = r
  BY <1>4, <1>6, <1>7, ModUnique
<1> QED
  BY <1>5, <1>8 DEF ra, rb

-----------------------------------------------------------------------------
(* The rate.                                                               *)

\* The axis does not outrun its bound, nor does what the parser knows of it.
Bounded ==
    /\ kind \in Kinds /\ truth \in Int /\ now \in 0..MaxTicks
    /\ Extent(truth) <= MaxTurn * now

\* The history registers hold the bearing the axis had when they were stored.
HistoryIsTrue ==
    /\ last \in [known : BOOLEAN, bearing : 0..Ring-1, time : 0..MaxTicks] /\ fixTruth \in Int
    /\ last.known => /\ last.bearing = fixTruth % Ring /\ last.time <= now
                     /\ Extent(truth - fixTruth) <= MaxTurn * (now - last.time)

\* The rate in the cache is the true one, but for whole circles.
RateIsReduced ==
    /\ rate \in [turn : -(Ring \div 2)..(Ring \div 2), dt : 1..(MaxTicks + 1)]
    /\ trueRate \in [turn : -Span..Span, dt : 1..(MaxTicks + 1)]
    /\ rate.dt = trueRate.dt /\ rate.turn = Shorter(trueRate.turn)

\* The rest of the types.
RestOK ==
    /\ shown \in 0..Ring-1 /\ healthy \in BOOLEAN
    /\ flag \in Flags /\ halyard \in 0..Apex /\ pin \in BOOLEAN /\ restricted \in BOOLEAN

GunIInv == Bounded /\ HistoryIsTrue /\ RateIsReduced /\ RestOK /\ PinHoldsTheRightFlag

\* No turn of the axis is longer than its speed and the time allow.
LEMMA SpanBounds ==
    ASSUME GunConstants, NEW t \in 0..MaxTicks
    PROVE  MaxTurn * t \in Nat /\ Span \in Nat /\ MaxTurn * t <= Span
<1>1. MaxTurn \in Nat /\ MaxTicks \in Nat /\ t \in Nat /\ t <= MaxTicks
  BY DEF GunConstants
<1>2. MaxTurn * t <= MaxTurn * MaxTicks
  BY <1>1
<1> QED
  BY <1>1, <1>2 DEF Span

LEMMA StillIsReduced ==
    ASSUME GunConstants
    PROVE  /\ Still \in [turn : -(Ring \div 2)..(Ring \div 2), dt : 1..(MaxTicks + 1)]
           /\ Still \in [turn : -Span..Span, dt : 1..(MaxTicks + 1)]
           /\ Shorter(0) = 0
<1>1. MaxTicks \in Nat /\ Ring > 0 /\ Ring \div 2 \in Nat /\ 0 \in 0..MaxTicks /\ Ring \in Nat
  BY HalfRing DEF GunConstants
<1>2. Span \in Nat
  BY <1>1, SpanBounds
<1>3. 2 * Extent(0) < Ring
  BY <1>1 DEF Extent
<1>4. Shorter(0) = 0
  BY <1>3, ShorterOfShort
<1>5. 0 \in -(Ring \div 2)..(Ring \div 2) /\ 0 \in -Span..Span /\ 1 \in 1..(MaxTicks + 1)
  BY <1>1, <1>2
<1> QED
  BY <1>4, <1>5 DEF Still

LEMMA InitGunIInv == ASSUME GunConstants, GunInit PROVE GunIInv
<1>1. /\ MaxTicks \in Nat /\ MaxTurn \in Nat /\ Ring \in Nat /\ Ring > 1 /\ Apex \in Nat
  BY DEF GunConstants
<1>2. Bounded
  BY <1>1 DEF GunInit, Bounded, Extent
<1>3. HistoryIsTrue
  BY <1>1 DEF GunInit, HistoryIsTrue, NoSentence
<1>4. RateIsReduced
  BY StillIsReduced DEF GunInit, RateIsReduced, Still
<1>5. RestOK
  <2>1. healthy \in BOOLEAN /\ pin \in BOOLEAN /\ restricted \in BOOLEAN
    BY Zenon DEF GunInit
  <2>2. shown \in 0..Ring-1 /\ halyard \in 0..Apex /\ flag \in Flags
    BY <1>1 DEF GunInit, Flags
  <2> QED
    BY <2>1, <2>2 DEF RestOK
<1>6. PinHoldsTheRightFlag
  BY DEF GunInit, PinHoldsTheRightFlag, Height
<1> QED
  BY <1>2, <1>3, <1>4, <1>5, <1>6 DEF GunIInv

LEMMA TurnStep == ASSUME GunConstants, GunIInv, Turn PROVE GunIInv'
<1>1. PICK t \in -MaxTurn..MaxTurn : truth' = truth + t
  BY DEF Turn
<1>2. /\ MaxTicks \in Nat /\ MaxTurn \in Nat /\ t \in Int /\ -MaxTurn <= t /\ t <= MaxTurn
      /\ now \in Nat /\ now < MaxTicks /\ now' = now + 1 /\ now' \in 0..MaxTicks
      /\ truth \in Int /\ Extent(truth) <= MaxTurn * now
  BY DEF GunConstants, Turn, GunIInv, Bounded
<1>3. Bounded'
  <2> DEFINE b == MaxTurn * now
  <2>1. b \in Int /\ MaxTurn * (now + 1) = b + MaxTurn
    BY <1>2
  <2>2. Extent(truth) <= b
    BY <1>2
  <2> HIDE DEF b
  <2>3. Extent(truth + t) <= b + MaxTurn
    BY <1>2, <2>1, <2>2 DEF Extent
  <2> QED
    BY <1>1, <1>2, <2>1, <2>3 DEF Turn, GunIInv, Bounded
<1>4. HistoryIsTrue'
  <2>1. last' = last /\ fixTruth' = fixTruth
    BY DEF Turn, parserVars, history
  <2>2. ASSUME last.known
        PROVE  last.time <= now' /\ Extent(truth' - fixTruth) <= MaxTurn * (now' - last.time)
    <3> DEFINE gap == now - last.time
               b == MaxTurn * gap
    <3>1. last.time \in Nat /\ last.time <= now /\ fixTruth \in Int
      BY <2>2 DEF GunIInv, HistoryIsTrue
    <3>2. Extent(truth - fixTruth) <= b
      BY <2>2 DEF GunIInv, HistoryIsTrue
    <3>3. gap \in Nat /\ now' - last.time = gap + 1
      BY <1>2, <3>1
    <3> HIDE DEF gap
    <3>4. b \in Int /\ MaxTurn * (gap + 1) = b + MaxTurn
      BY <1>2, <3>3
    <3> HIDE DEF b
    <3>5. Extent(truth + t - fixTruth) <= b + MaxTurn
      BY <1>2, <3>1, <3>2, <3>4 DEF Extent
    <3> QED
      BY <1>1, <1>2, <3>1, <3>3, <3>4, <3>5
  <2> QED
    BY <2>1, <2>2 DEF GunIInv, HistoryIsTrue
<1>5. RateIsReduced' /\ RestOK' /\ PinHoldsTheRightFlag'
  <2>1. /\ rate' = rate /\ trueRate' = trueRate /\ shown' = shown /\ healthy' = healthy
        /\ flag' = flag /\ halyard' = halyard /\ pin' = pin /\ restricted' = restricted
    BY DEF Turn, parserVars, flagVars, history
  <2> QED
    BY <2>1 DEF GunIInv, RateIsReduced, RestOK, PinHoldsTheRightFlag
<1> QED
  BY <1>3, <1>4, <1>5 DEF GunIInv

\* A rate taken from two bearings is the true one, but for whole circles.
LEMMA RateStep ==
    ASSUME GunConstants, GunIInv, rate' = NewRate, trueRate' = NewTrueRate
    PROVE  RateIsReduced'
<1>1. CASE last.known /\ now > last.time
  <2> DEFINE turn == truth - fixTruth
             dt == now - last.time
  <2>1. /\ rate' = [turn |-> Shorter(Reading - last.bearing), dt |-> dt]
        /\ trueRate' = [turn |-> turn, dt |-> dt]
    BY <1>1 DEF NewRate, NewTrueRate
  <2>2. /\ last.time \in 0..MaxTicks /\ now \in 0..MaxTicks /\ MaxTicks \in Nat
        /\ truth \in Int /\ fixTruth \in Int /\ turn \in Int
        /\ last.bearing = fixTruth % Ring /\ Extent(turn) <= MaxTurn * dt
    BY <1>1 DEF GunIInv, Bounded, HistoryIsTrue, GunConstants
  <2>3. dt \in 1..(MaxTicks + 1) /\ dt \in 0..MaxTicks
    BY <1>1, <2>2
  <2> HIDE DEF dt
  <2>4. MaxTurn * dt \in Nat /\ Span \in Nat /\ MaxTurn * dt <= Span
    BY <2>3, SpanBounds
  <2>5. turn \in -Span..Span
    <3> HIDE DEF turn
    <3>1. Extent(turn) <= Span
      BY <2>2, <2>4 DEF Extent
    <3> QED
      BY <2>2, <2>4, <3>1 DEF Extent
  <2>6. Shorter(Reading - last.bearing) = Shorter(turn)
    BY <2>2, ShorterOfBearings DEF Reading
  <2>7. Shorter(turn) \in -(Ring \div 2)..(Ring \div 2)
    BY <2>2, ShorterRange
  <2> HIDE DEF turn
  <2> QED
    BY <2>1, <2>3, <2>5, <2>6, <2>7 DEF RateIsReduced
<1>2. CASE ~(last.known /\ now > last.time)
  <2>1. CASE kind = "nmea"
    <3>1. rate' = rate /\ trueRate' = trueRate
      BY <1>2, <2>1 DEF NewRate, NewTrueRate
    <3> QED
      BY <3>1 DEF GunIInv, RateIsReduced
  <2>2. CASE kind # "nmea"
    <3>1. rate' = Still /\ trueRate' = Still
      BY <1>2, <2>2 DEF NewRate, NewTrueRate
    <3>2. Still.dt = Still.dt /\ Still.turn = Shorter(Still.turn)
      BY StillIsReduced DEF Still
    <3> QED
      BY <3>1, <3>2, StillIsReduced DEF RateIsReduced
  <2> QED
    BY <2>1, <2>2
<1> QED
  BY <1>1, <1>2

LEMMA GoodSentenceStep == ASSUME GunConstants, GunIInv, GoodSentence PROVE GunIInv'
<1>1. RateIsReduced'
  BY RateStep DEF GoodSentence
<1>2. /\ UNCHANGED <<kind, truth, now, flag, halyard, pin, restricted>>
      /\ shown' = Reading /\ last' = [known |-> TRUE, bearing |-> Reading, time |-> now]
      /\ fixTruth' = truth
  BY DEF GoodSentence, ShiftHistory, flagVars
<1>3. healthy' \in BOOLEAN
  BY DEF GoodSentence
<1>4. truth \in Int /\ now \in 0..MaxTicks /\ MaxTurn \in Nat /\ MaxTicks \in Nat
  BY DEF GunIInv, Bounded, GunConstants
<1>5. Reading \in 0..Ring-1
  BY <1>4, ModDef DEF Reading
<1>6. HistoryIsTrue'
  <2>1. truth - truth = 0 /\ now - now = 0 /\ now <= now /\ MaxTurn * 0 = 0
    BY <1>4
  <2>2. Extent(truth' - fixTruth') <= MaxTurn * (now' - last'.time)
    BY <1>2, <2>1 DEF Extent
  <2> QED
    BY <1>2, <1>4, <1>5, <2>1, <2>2 DEF HistoryIsTrue, Reading
<1>7. Bounded' /\ RestOK' /\ PinHoldsTheRightFlag'
  BY <1>2, <1>3, <1>5 DEF GunIInv, Bounded, RestOK, PinHoldsTheRightFlag
<1> QED
  BY <1>1, <1>6, <1>7 DEF GunIInv

LEMMA BadStatusStep == ASSUME GunConstants, GunIInv, BadStatus PROVE GunIInv'
<1>1. UNCHANGED <<kind, truth, now, shown, healthy, last, flag, halyard, pin, restricted, fixTruth>>
  BY DEF BadStatus, flagVars
<1>2. RateIsReduced'
  <2>1. CASE kind = "serial"
    BY <2>1, RateStep DEF BadStatus
  <2>2. CASE kind # "serial"
    BY <2>2 DEF BadStatus, GunIInv, RateIsReduced
  <2> QED
    BY <2>1, <2>2
<1>3. Bounded' /\ HistoryIsTrue' /\ RestOK' /\ PinHoldsTheRightFlag'
  BY <1>1 DEF GunIInv, Bounded, HistoryIsTrue, RestOK, PinHoldsTheRightFlag
<1> QED
  BY <1>2, <1>3 DEF GunIInv

-----------------------------------------------------------------------------
(* The flag.                                                               *)

\* Part of a quantity is not more than all of it.
LEMMA PartOf ==
    ASSUME GunConstants, NEW e \in Nat
    PROVE  e \div Lag \in 0..e
<1>1. Lag \in Nat \ {0}
  BY DEF GunConstants
<1> DEFINE q == e \div Lag
           r == e % Lag
<1>2. q \in Int /\ r \in 0..Lag-1 /\ e = Lag * q + r
  BY <1>1
<1> HIDE DEF q, r
<1>3. CASE q < 0
  <2>1. Lag * q <= -Lag
    BY <1>1, <1>2, <1>3
  <2> QED
    BY <1>1, <1>2, <2>1
<1>4. CASE q >= 0
  <2>1. Lag * q >= q
    BY <1>1, <1>2, <1>4
  <2> QED
    BY <1>1, <1>2, <1>4, <2>1 DEF q
<1> QED
  BY <1>2, <1>3, <1>4

\* The winch never takes the halyard past its target.
LEMMA HalyardStepRange ==
    ASSUME GunConstants, NEW e \in Int
    PROVE  /\ HalyardStep(e) \in Int
           /\ e >= 0 => 0 <= HalyardStep(e) /\ HalyardStep(e) <= e
           /\ e < 0 => e <= HalyardStep(e) /\ HalyardStep(e) <= 0
<1>1. CASE Extent(e) <= Slack
  BY <1>1 DEF HalyardStep
<1>2. CASE ~(Extent(e) <= Slack) /\ e < 0
  <2>1. HalyardStep(e) = -((-e) \div Lag) /\ -e \in Nat
    BY <1>2 DEF HalyardStep
  <2>2. (-e) \div Lag \in 0..(-e)
    BY <2>1, PartOf
  <2> QED
    BY <1>2, <2>1, <2>2
<1>3. CASE ~(Extent(e) <= Slack) /\ e >= 0
  <2>1. HalyardStep(e) = e \div Lag /\ e \in Nat
    BY <1>3 DEF HalyardStep
  <2>2. e \div Lag \in 0..e
    BY <2>1, PartOf
  <2> QED
    BY <1>3, <2>1, <2>2
<1> QED
  BY <1>1, <1>2, <1>3

LEMMA FlagStep == ASSUME GunConstants, GunIInv, EvaluateFlagLogicMatrix PROVE GunIInv'
<1> DEFINE target == Height(TargetState)
           error == target - halyard
<1>1. /\ flag' = TargetState /\ halyard' = halyard + HalyardStep(error)
      /\ pin' = (Extent(error) <= Slack)
      /\ UNCHANGED <<kind, truth, now, shown, rate, healthy, last, restricted, fixTruth, trueRate>>
  BY DEF EvaluateFlagLogicMatrix, parserVars, history
<1>2. Apex \in Nat /\ Half \in Nat /\ Half < Apex /\ Slack \in Nat
  BY DEF GunConstants
<1>3. TargetState \in Flags
  BY DEF TargetState, Flags
<1>4. target \in 0..Apex
  BY <1>2, <1>3 DEF Flags, Height
<1>5. halyard \in 0..Apex
  BY DEF GunIInv, RestOK
<1>6. error \in Int
  BY <1>4, <1>5
<1>7. halyard' \in 0..Apex
  <2>1. /\ HalyardStep(error) \in Int
        /\ error >= 0 => 0 <= HalyardStep(error) /\ HalyardStep(error) <= error
        /\ error < 0 => error <= HalyardStep(error) /\ HalyardStep(error) <= 0
    BY <1>6, HalyardStepRange
  <2> HIDE DEF target
  <2> QED
    BY <1>1, <1>2, <1>4, <1>5, <1>6, <2>1
<1>8. pin' \in BOOLEAN
  BY <1>1
<1>9. ASSUME Extent(error) <= Slack PROVE halyard' = target
  <2>1. HalyardStep(error) = error
    BY <1>9 DEF HalyardStep
  <2> HIDE DEF target
  <2> QED
    BY <1>1, <1>4, <1>5, <2>1
<1>10. PinHoldsTheRightFlag'
  BY <1>1, <1>9 DEF PinHoldsTheRightFlag, Height
<1>11. Bounded' /\ HistoryIsTrue' /\ RateIsReduced'
  BY <1>1 DEF GunIInv, Bounded, HistoryIsTrue, RateIsReduced
<1>12. RestOK'
  BY <1>1, <1>3, <1>7, <1>8 DEF GunIInv, RestOK
<1> QED
  BY <1>10, <1>11, <1>12 DEF GunIInv

LEMMA NextGunIInv == ASSUME GunConstants, GunIInv, [GunNext]_gunVars PROVE GunIInv'
<1>1. CASE ChannelChanges
  <2>1. /\ restricted' \in BOOLEAN
        /\ UNCHANGED <<kind, truth, now, shown, rate, healthy, last, flag, halyard, pin,
                       fixTruth, trueRate>>
    BY <1>1 DEF ChannelChanges, parserVars, history, GunIInv, RestOK
  <2> QED
    BY <2>1 DEF GunIInv, Bounded, HistoryIsTrue, RateIsReduced, RestOK, PinHoldsTheRightFlag
<1>2. CASE UNCHANGED gunVars
  BY <1>2 DEF gunVars, parserVars, flagVars, history, GunIInv, Bounded, HistoryIsTrue, RateIsReduced,
              RestOK, PinHoldsTheRightFlag
<1> QED
  BY <1>1, <1>2, TurnStep, GoodSentenceStep, BadStatusStep, FlagStep DEF GunNext

LEMMA GunInvariance == ASSUME GunConstants PROVE GunSpec => []GunIInv
<1>1. GunInit => GunIInv
  BY InitGunIInv
<1>2. GunIInv /\ [GunNext]_gunVars => GunIInv'
  BY NextGunIInv
<1> QED
  BY <1>1, <1>2, PTL DEF GunSpec

\* compute_kinematics and the two weapon parsers: the rate in the cache is the one at which
\* the axis really turned between the two sentences it comes from, for any ring, any speed
\* and any order of whole and damaged sentences.
THEOREM RateCorrect == ASSUME GunConstants PROVE GunSpec => []RateIsTrue
<1>1. GunIInv => RateIsTrue
  <2> SUFFICES ASSUME GunIInv, 2 * Extent(trueRate.turn) < Ring PROVE rate = trueRate
    BY DEF RateIsTrue
  <2>0. Span \in Nat
    <3>1. 0 \in 0..MaxTicks
      BY DEF GunConstants
    <3> QED
      BY <3>1, SpanBounds
  <2>1. /\ rate \in [turn : -(Ring \div 2)..(Ring \div 2), dt : 1..(MaxTicks + 1)]
        /\ trueRate \in [turn : -Span..Span, dt : 1..(MaxTicks + 1)]
        /\ rate.dt = trueRate.dt /\ rate.turn = Shorter(trueRate.turn)
    BY DEF GunIInv, RateIsReduced
  <2>2. trueRate.turn \in Int
    BY <2>0, <2>1
  <2>3. rate.turn = trueRate.turn
    BY <2>1, <2>2, ShorterOfShort
  <2>4. rate = [turn |-> rate.turn, dt |-> rate.dt]
        /\ trueRate = [turn |-> trueRate.turn, dt |-> trueRate.dt]
    BY <2>1
  <2> QED
    BY <2>1, <2>3, <2>4
<1> QED
  BY <1>1, GunInvariance, PTL

\* evaluate_flag_logic_matrix: the pin is in only with the halyard at the height of the flag
\* that is up, whatever the filter and the heights; and the types.
THEOREM PinCorrect == ASSUME GunConstants PROVE GunSpec => []Safety
<1>1. GunIInv => Safety
  <2> SUFFICES ASSUME GunIInv PROVE Safety
    OBVIOUS
  <2>1. now \in 0..MaxTicks /\ truth \in Int /\ Extent(truth) <= MaxTurn * now
    BY DEF GunIInv, Bounded
  <2>2. MaxTurn * now \in Nat /\ Span \in Nat /\ MaxTurn * now <= Span
    BY <2>1, SpanBounds
  <2>3. truth \in -Span..Span
    <3> DEFINE b == MaxTurn * now
    <3>1. Extent(truth) <= b /\ b \in Nat /\ b <= Span
      BY <2>1, <2>2
    <3> HIDE DEF b
    <3> QED
      BY <2>1, <2>2, <3>1 DEF Extent
  <2>4. GunTypeOK
    BY <2>3 DEF GunIInv, Bounded, HistoryIsTrue, RateIsReduced, RestOK, GunTypeOK
  <2> QED
    BY <2>4 DEF GunIInv, Safety
<1> QED
  BY <1>1, GunInvariance, PTL

-----------------------------------------------------------------------------
(***************************************************************************)
(* The gates and the laws, for every input.  MCPlant's runs compare them   *)
(* with what they are for around their limits; here there are no limits to *)
(* the inputs.                                                             *)
(***************************************************************************)

\* What the registry is fed, without limits.
Telemetry ==
    [depth : Int, draft : Int, core : Int, magazine : Int, roll : Int, obstacle : Int, speed : Int]

\* evaluate_physical_warning_gates: no warning hides another.  A ship that is worse off in
\* some respects and better off in none keeps every bit and the shutdown, and its order is
\* not raised.
THEOREM WarningsAddUp ==
    ASSUME NEW t \in Telemetry, NEW u \in Telemetry, Worse(t, u), u.draft >= t.draft,
           NEW rpm \in Int
    PROVE  LET before == EvaluatePhysicalWarningGates(t, rpm)
               after  == EvaluatePhysicalWarningGates(u, rpm)
           IN  /\ before.mask \subseteq after.mask /\ before.faults \subseteq after.faults
               /\ before.shutdown => after.shutdown
               /\ after.rpm <= before.rpm
<1>1. /\ t.depth \in Int /\ t.draft \in Int /\ t.core \in Int /\ t.magazine \in Int
      /\ t.roll \in Int /\ t.obstacle \in Int /\ t.speed \in Int
      /\ u.depth \in Int /\ u.draft \in Int /\ u.core \in Int /\ u.magazine \in Int
      /\ u.roll \in Int /\ u.obstacle \in Int /\ u.speed \in Int
  BY DEF Telemetry
<1>2. /\ u.depth - u.draft <= t.depth - t.draft
      /\ u.obstacle <= t.obstacle /\ u.core >= t.core /\ u.magazine >= t.magazine
      /\ u.roll >= t.roll /\ u.speed >= t.speed
  BY <1>1 DEF Worse
<1>3. WarningBits(t) \subseteq WarningBits(u)
  <2> SUFFICES ASSUME NEW b \in WarningBits(t) PROVE b \in WarningBits(u)
    OBVIOUS
  <2>1. b \in 0..4
    BY DEF WarningBits
  <2>2. CASE b = 0
    BY <1>1, <1>2, <2>2 DEF WarningBits
  <2>3. CASE b = 1
    BY <1>1, <1>2, <2>3 DEF WarningBits
  <2>4. CASE b = 2
    BY <1>1, <1>2, <2>4 DEF WarningBits
  <2>5. CASE b = 3
    BY <1>1, <1>2, <2>5 DEF WarningBits
  <2>6. CASE b = 4
    BY <1>1, <1>2, <2>6 DEF WarningBits
  <2> QED
    BY <2>1, <2>2, <2>3, <2>4, <2>5, <2>6
<1>4. /\ WarningBits(t) \ {0} \subseteq WarningBits(u) \ {0}
      /\ WarningBits(t) \cap {0, 2, 4} # {} => WarningBits(u) \cap {0, 2, 4} # {}
      /\ 1 \in WarningBits(t) => 1 \in WarningBits(u)
  BY <1>3
<1> DEFINE before == EvaluatePhysicalWarningGates(t, rpm)
           after  == EvaluatePhysicalWarningGates(u, rpm)
<1>5. before.mask \subseteq after.mask /\ before.faults \subseteq after.faults
  BY <1>3, <1>4 DEF EvaluatePhysicalWarningGates
<1>6. before.shutdown => after.shutdown
  BY <1>4, Zenon DEF EvaluatePhysicalWarningGates
<1>7. after.rpm <= before.rpm
  BY <1>4 DEF EvaluatePhysicalWarningGates
<1> QED
  BY <1>5, <1>6, <1>7

\* calculate_asymmetric_channel_trim: whatever the moment, the rudder's maximum and the
\* distance, the trim goes against the moment and takes no more than its share of the
\* rudder; the two banks are mirror images; the override is up only on a trim in use.
THEOREM TrimOpposes ==
    ASSUME NEW maxRudder \in Nat, NEW distance \in Int, NEW raw \in Nat,
           NEW side \in {"starboard", "port"}
    PROVE  LET report == CalculateAsymmetricChannelTrim(maxRudder, distance, side, raw)
               Trim(s) == CalculateAsymmetricChannelTrim(maxRudder, distance, s, raw).trim
           IN  /\ report.trim * report.moment <= 0
               /\ 100 * Abs(report.trim) <= 45 * maxRudder
               /\ report.override => distance < 4 * Beam /\ 10 * raw >= 8 * TrimLimit(maxRudder)
               /\ Trim("port") = -Trim("starboard")
<1> DEFINE limit == TrimLimit(maxRudder)
<1>1. limit \in Nat /\ 100 * limit <= 45 * maxRudder
  BY DEF TrimLimit
<1> HIDE DEF limit
<1>2. CASE distance >= 4 * Beam \/ distance > 400
  <2>1. \A s \in {"starboard", "port"} :
            CalculateAsymmetricChannelTrim(maxRudder, distance, s, raw) = Nominal
    BY <1>2 DEF CalculateAsymmetricChannelTrim
  <2> QED
    BY <2>1 DEF Nominal, Abs
<1>3. CASE ~(distance >= 4 * Beam \/ distance > 400)
  <2>1. ASSUME NEW s \in {"starboard", "port"}
        PROVE  CalculateAsymmetricChannelTrim(maxRudder, distance, s, raw)
                 = [trim     |-> Held(limit, IF s = "starboard" THEN raw ELSE -raw),
                    moment   |-> IF s = "starboard" THEN -raw ELSE raw,
                    override |-> 10 * Abs(Held(limit, IF s = "starboard" THEN raw ELSE -raw))
                                     >= 8 * limit]
    BY <1>3 DEF CalculateAsymmetricChannelTrim, limit
  <2>2. PICK x \in Nat :
            /\ Held(limit, raw) = x /\ Held(limit, -raw) = -x
            /\ x <= limit /\ x <= raw /\ Abs(x) = x /\ Abs(-x) = x
    BY <1>1 DEF Held, Abs
  <2>3. x * (-raw) <= 0 /\ (-x) * raw <= 0
    BY <2>2
  <2>4. 100 * x <= 45 * maxRudder
    BY <1>1, <2>2
  <2>5. distance < 4 * Beam
    BY <1>3 DEF Beam
  <2>6. 10 * x >= 8 * limit => 10 * raw >= 8 * limit
    BY <1>1, <2>2
  <2>7. ASSUME NEW s \in {"starboard", "port"}
        PROVE  LET report == CalculateAsymmetricChannelTrim(maxRudder, distance, s, raw)
               IN  /\ report.trim = IF s = "starboard" THEN x ELSE -x
                   /\ report.moment = IF s = "starboard" THEN -raw ELSE raw
                   /\ report.override => 10 * x >= 8 * limit
    <3>1. Held(limit, IF s = "starboard" THEN raw ELSE -raw) = IF s = "starboard" THEN x ELSE -x
      BY <2>2
    <3>2. Abs(IF s = "starboard" THEN x ELSE -x) = x
      BY <2>2
    <3> DEFINE report == CalculateAsymmetricChannelTrim(maxRudder, distance, s, raw)
               trim == Held(limit, IF s = "starboard" THEN raw ELSE -raw)
    <3>3. report = [trim |-> trim, moment |-> IF s = "starboard" THEN -raw ELSE raw,
                    override |-> 10 * Abs(trim) >= 8 * limit]
      BY <2>1
    <3> HIDE DEF report, trim
    <3>4. report.override => 10 * Abs(trim) >= 8 * limit
      BY <3>3, Zenon
    <3>5. Abs(trim) = x
      BY <3>1, <3>2 DEF trim
    <3>6. /\ report.trim = trim
          /\ report.moment = IF s = "starboard" THEN -raw ELSE raw
      BY <3>3
    <3>7. report.override => 10 * x >= 8 * limit
      BY <3>4, <3>5
    <3>8. report.trim = IF s = "starboard" THEN x ELSE -x
      BY <3>1, <3>6 DEF trim
    <3> QED
      BY <3>6, <3>7, <3>8 DEF report
  <2>8. CASE side = "starboard"
    BY <2>2, <2>3, <2>4, <2>5, <2>6, <2>7, <2>8 DEF limit
  <2>9. CASE side = "port"
    BY <2>2, <2>3, <2>4, <2>5, <2>6, <2>7, <2>9 DEF limit
  <2> QED
    BY <2>8, <2>9
<1> QED
  BY <1>2, <1>3

\* compute_asymmetric_fin_commands: wherever the stops are, what they leave of the angle
\* the fins have in common never steers the other way, and what they leave of the
\* difference never rolls the other way; without a stop nothing is lost.
THEOREM StopsReverseNothing ==
    ASSUME NEW limit \in Nat, NEW s \in Int, NEW r \in Int, NEW d \in Int, NEW l \in Int
    PROVE  LET fins == Split(limit, s, r, d, l)
           IN  /\ (fins.port + fins.stbd) * (s - d) >= 0
               /\ (fins.port - fins.stbd) * (r + l) >= 0
               /\ Abs(s - d) + Abs(r + l) <= limit =>
                      /\ fins.port + fins.stbd = 2 * (s - d)
                      /\ fins.port - fins.stbd = 2 * (r + l)
<1> DEFINE a == s - d
           b == r + l
           port == Held(limit, a + b)
           stbd == Held(limit, a - b)
<1>1. Split(limit, s, r, d, l) = [port |-> port, stbd |-> stbd]
  BY DEF Split
<1>2. a \in Int /\ b \in Int
  OBVIOUS
<1> HIDE DEF a, b
<1>3. port \in Int /\ stbd \in Int
  BY <1>2 DEF Held
<1>4. /\ a >= 0 => port + stbd >= 0
      /\ a <= 0 => port + stbd <= 0
      /\ b >= 0 => port - stbd >= 0
      /\ b <= 0 => port - stbd <= 0
  BY <1>2 DEF Held
<1>5. Abs(a) + Abs(b) <= limit => port = a + b /\ stbd = a - b
  BY <1>2 DEF Held, Abs
<1> HIDE DEF port, stbd
<1>6. \A x, y \in Int : (x >= 0 => y >= 0) /\ (x <= 0 => y <= 0) => y * x >= 0
  OBVIOUS
<1>7. (port + stbd) * a >= 0 /\ (port - stbd) * b >= 0
  BY <1>2, <1>3, <1>4, <1>6
<1>8. Abs(a) + Abs(b) <= limit => port + stbd = 2 * a /\ port - stbd = 2 * b
  BY <1>2, <1>5
<1> QED
  BY <1>1, <1>7, <1>8 DEF a, b

\* compute_jammer_location: a fix that is not marked invalid lies on the partner's line of
\* sight, for any strobes and positions; it is written on the own one.
THEOREM FixIsOnTheLine ==
    ASSUME NEW fix, NEW far \in BOOLEAN,
           NEW own \in [east : Int, north : Int], NEW partner \in [east : Int, north : Int],
           NEW at \in [east : Int, north : Int], Cross(own, partner) # 0
    PROVE  LET f == ComputeJammerLocation(fix, own, partner, at, far)
           IN  Cross([east  |-> f.num * own.east  - f.den * at.east,
                      north |-> f.num * own.north - f.den * at.north], partner) = 0
<1> DEFINE oe == own.east
           on == own.north
           pe == partner.east
           pn == partner.north
           ae == at.east
           an == at.north
           num == Cross(at, partner)
           den == Cross(own, partner)
<1>1. oe \in Int /\ on \in Int /\ pe \in Int /\ pn \in Int /\ ae \in Int /\ an \in Int
  OBVIOUS
<1>2. num = ae * pn - an * pe /\ den = oe * pn - on * pe
  BY DEF Cross
<1>3. ComputeJammerLocation(fix, own, partner, at, far) = [num |-> num, den |-> den, valid |-> ~far]
  BY DEF ComputeJammerLocation
<1>4. Cross([east |-> num * oe - den * ae, north |-> num * on - den * an], partner)
        = (num * oe - den * ae) * pn - (num * on - den * an) * pe
  BY DEF Cross
<1> HIDE DEF oe, on, pe, pn, ae, an, num, den
<1>5. (num * oe - den * ae) * pn - (num * on - den * an) * pe
        = num * (oe * pn - on * pe) - den * (ae * pn - an * pe)
  BY <1>1, <1>2
<1>6. num \in Int /\ den \in Int
  BY <1>1, <1>2
<1>7. num * den - den * num = 0
  BY <1>6
<1>8. Cross([east |-> num * oe - den * ae, north |-> num * on - den * an], partner) = 0
  BY <1>2, <1>4, <1>5, <1>7
<1> QED
  BY <1>3, <1>8 DEF oe, on, ae, an

\* actuator_serial_serializer.py and bridge_network_interface.py: whatever the engine
\* returned, both wires carry the same torque, the same speed limit and, once the letter
\* has been read, the same rudder.
THEOREM WiresAgree ==
    ASSUME NEW output \in [EngineKeys -> Int]
    PROVE  LET rudder == SerializeRudderCommand(output)
               drive  == SerializePropulsionCommand(output)
               packet == SerializeToActuatorSentence(output)
           IN  /\ packet.rudder
                      = IF rudder.direction = "R" THEN rudder.magnitude ELSE -rudder.magnitude
               /\ packet.torque = drive.torque /\ packet.rpmCap = drive.rpmCap
<1>1. \A d : /\ Get(output, "rudder", d) = output["rudder"] /\ output["rudder"] \in Int
             /\ Get(output, "torque", d) = output["torque"]
             /\ Get(output, "rpmCap", d) = output["rpmCap"]
  BY DEF Get, EngineKeys
<1> DEFINE angle == output["rudder"]
<1>2. /\ SerializeToActuatorSentence(output).rudder = angle
      /\ SerializeRudderCommand(output).magnitude = Abs(angle)
      /\ SerializeRudderCommand(output).direction = IF angle >= 0 THEN "R" ELSE "L"
  BY <1>1 DEF SerializeToActuatorSentence, SerializeRudderCommand
<1>3. angle = IF angle >= 0 THEN Abs(angle) ELSE -Abs(angle)
  BY <1>1 DEF Abs
<1>4. /\ SerializeToActuatorSentence(output).torque = SerializePropulsionCommand(output).torque
      /\ SerializeToActuatorSentence(output).rpmCap = SerializePropulsionCommand(output).rpmCap
  BY <1>1 DEF SerializeToActuatorSentence, SerializePropulsionCommand
<1> QED
  BY <1>2, <1>3, <1>4

-----------------------------------------------------------------------------
(* PropulsionPlant.                                                        *)

USE ConstantsAssumption DEF ConstantsAssumption

\* A clamped value is within its bounds.
LEMMA ClampBounds ==
    ASSUME NEW lo \in Int, NEW hi \in Int, lo <= hi, NEW x \in Int
    PROVE  /\ Clamp(lo, hi, x) \in Int
           /\ lo <= Clamp(lo, hi, x) /\ Clamp(lo, hi, x) <= hi
BY DEF Clamp

\* Clamping brings no two values further apart.
LEMMA ClampIsLipschitz ==
    ASSUME NEW lo \in Int, NEW hi \in Int, lo <= hi, NEW x \in Int, NEW y \in Int,
           NEW d \in Nat, Magnitude(x - y) <= d
    PROVE  Magnitude(Clamp(lo, hi, x) - Clamp(lo, hi, y)) <= d
BY DEF Clamp, Magnitude

\* A value in range is left alone by the clamp, and stays as near to a clamped one
\* as it was to the other.
LEMMA ClampNearer ==
    ASSUME NEW lo \in Int, NEW hi \in Int, lo <= hi, NEW x \in Int, NEW y \in lo..hi,
           NEW d \in Nat, Magnitude(y - x) < d
    PROVE  Magnitude(y - Clamp(lo, hi, x)) < d
BY DEF Clamp, Magnitude

\* Two values near to two others are not much further apart than those.
LEMMA Triangle ==
    ASSUME NEW x \in Int, NEW y \in Int, NEW c \in Int, NEW d \in Int,
           NEW n \in Nat, NEW k \in Nat,
           Magnitude(x - c) < k, Magnitude(y - d) < k, Magnitude(d - c) <= n
    PROVE  Magnitude(y - x) <= n + 2 * k
BY DEF Magnitude

LEMMA SafeTargetType ==
    ASSUME NEW order \in Speeds, NEW shallow \in BOOLEAN
    PROVE  SafeTarget(order, shallow) \in Speeds
BY DEF SafeTarget, Lesser, Speeds

-----------------------------------------------------------------------------
(* The inductive invariant: types, and a profile that is never further from *)
(* the clamped ramp than the error taken for none.                         *)

NearRamp == Magnitude(profile - Clamp(-Astern, Ahead, ramp)) < Snap

IInv == TypeOK /\ NearRamp /\ WindupIsBounded

LEMMA InitInv == Init => IInv
<1>1. ASSUME Init PROVE TypeOK
  <2>1. slowdown \in BOOLEAN /\ alwaysShallow \in BOOLEAN
    BY <1>1, Zenon DEF Init
  <2>2. /\ ramp = 0 /\ accel = 0 /\ integral = 0 /\ profile = 0
        /\ torque = 0 /\ rpmCap = 0 /\ cycle = 0
    BY <1>1, Zenon DEF Init
  <2>q. QED BY <2>1, <2>2 DEF TypeOK, Speeds
<1>2. ASSUME Init PROVE NearRamp
  BY <1>2 DEF Init, NearRamp, Magnitude, Clamp
<1>3. (Kp + Ki) * MaxError \in Nat
  BY DEF MaxError
<1>4. ASSUME Init PROVE Ki * integral = 0
  BY <1>4 DEF Init
<1>5. ASSUME Init PROVE WindupIsBounded
  BY <1>3, <1>4, <1>5 DEF WindupIsBounded, Magnitude
<1>q. QED BY <1>1, <1>2, <1>5 DEF IInv

\* The ramp of one cycle: where it goes, how far, and how near the profile stays.
LEMMA RampStep ==
    ASSUME TypeOK, NEW target \in Speeds
    PROVE  /\ NewAccel(target) \in -AccelLim..AccelLim
           /\ NewRamp(target) \in Int
           /\ Magnitude(NewRamp(target) - ramp) <= AccelLim
           /\ NewProfile(target) \in Speeds
           /\ Magnitude(NewProfile(target) - Clamp(-Astern, Ahead, NewRamp(target))) < Snap
<1>0. ramp \in Int /\ accel \in -AccelLim..AccelLim /\ target \in Int
  BY DEF TypeOK, Speeds
<1>1. CASE Arrived(target)
  <2>1. NewAccel(target) = 0 /\ NewRamp(target) = ramp /\ NewProfile(target) = target
    BY <1>0, <1>1 DEF NewAccel, NewRamp, NewProfile
  <2>2. Magnitude(target - ramp) < Snap
    BY <1>1 DEF Arrived
  <2>3. Magnitude(target - Clamp(-Astern, Ahead, ramp)) < Snap
    <3>1. target \in -Astern..Ahead /\ -Astern \in Int /\ -Astern <= Ahead
      BY DEF Speeds
    <3>2. Snap \in Nat /\ Ahead \in Int /\ ramp \in Int
      BY <1>0
    <3>q. QED BY <2>2, <3>1, <3>2, ClampNearer
  <2>q. QED BY <1>0, <2>1, <2>3 DEF Magnitude
<1>2. CASE ~Arrived(target)
  <2> DEFINE a == IF target > ramp THEN accel + 1 ELSE accel - 1
  <2>1. a \in Int
    BY <1>0
  <2>2. NewAccel(target) = Clamp(-AccelLim, AccelLim, a)
    BY <1>2 DEF NewAccel
  <2> HIDE DEF a
  <2>3. NewAccel(target) \in -AccelLim..AccelLim
    BY <2>1, <2>2, ClampBounds
  <2>4. NewRamp(target) \in Int /\ Magnitude(NewRamp(target) - ramp) <= AccelLim
    BY <1>0, <2>3 DEF NewRamp, Magnitude
  <2>5. NewProfile(target) = Clamp(-Astern, Ahead, NewRamp(target))
    BY <1>2 DEF NewProfile
  <2>6. NewProfile(target) \in Speeds
    BY <2>4, <2>5, ClampBounds DEF Speeds
  <2>7. Magnitude(NewProfile(target) - Clamp(-Astern, Ahead, NewRamp(target))) < Snap
    BY <2>5, <2>6 DEF Magnitude, Speeds
  <2>q. QED BY <2>3, <2>4, <2>6, <2>7
<1>q. QED BY <1>1, <1>2

\* The integrator of one cycle stays within its bound.
LEMMA IntegralStep ==
    ASSUME NEW error \in Speeds, integral \in Int, WindupIsBounded
    PROVE  /\ NewIntegral(error) \in Int
           /\ Magnitude(Ki * NewIntegral(error)) <= MaxTorque + (Kp + Ki) * MaxError
<1> DEFINE p == Kp * error
           i == Ki * error
           s == Ki * integral
           P == Kp * MaxError
           I == Ki * MaxError
<1>1. error \in Int /\ MaxError \in Nat /\ -MaxError <= error /\ error <= MaxError
  BY DEF MaxError, Speeds
<1>2. p \in Int /\ P \in Int /\ -P <= p /\ p <= P
  BY <1>1
<1>3. i \in Int /\ I \in Int /\ -I <= i /\ i <= I
  BY <1>1
<1>4. s \in Int
  OBVIOUS
<1>5. (Kp + Ki) * MaxError = P + I
  BY <1>1
<1>6. Ki * (integral + error) = s + i
  BY <1>1
<1>7. Magnitude(s) <= MaxTorque + P + I
  BY <1>2, <1>3, <1>4, <1>5 DEF WindupIsBounded
<1>8. BaseTorque(error, integral) = p + s
  BY DEF BaseTorque
<1> HIDE DEF p, i, s, P, I
<1>9. CASE Magnitude(p + s) < MaxTorque
  <2>1. NewIntegral(error) = integral + error
    BY <1>8, <1>9 DEF NewIntegral
  <2>2. Magnitude(s + i) <= MaxTorque + P + I
    BY <1>2, <1>3, <1>4, <1>9 DEF Magnitude
  <2>3. MaxTorque + P + I = MaxTorque + (Kp + Ki) * MaxError
    BY <1>2, <1>3, <1>5
  <2>q. QED BY <1>1, <1>6, <2>1, <2>2, <2>3
<1>10. CASE ~(Magnitude(p + s) < MaxTorque)
  BY <1>8, <1>10 DEF NewIntegral, WindupIsBounded
<1>q. QED BY <1>9, <1>10

LEMMA NextInv == IInv /\ [Next]_vars => IInv'
<1>1. ASSUME IInv, Next PROVE IInv'
  <2>0. TypeOK /\ NearRamp /\ WindupIsBounded
    BY <1>1 DEF IInv
  <2>1. PICK order \in Speeds, shallow \in BOOLEAN, anchorHeld \in BOOLEAN, faulted \in BOOLEAN :
          /\ cycle < MaxCycles /\ cycle' = cycle + 1
          /\ slowdown' = shallow
          /\ alwaysShallow' = (alwaysShallow /\ shallow)
          /\ accel' = NewAccel(SafeTarget(order, shallow))
          /\ ramp' = NewRamp(SafeTarget(order, shallow))
          /\ profile' = NewProfile(SafeTarget(order, shallow))
          /\ integral' = NewIntegral(profile')
          /\ torque' = IF faulted THEN 0
                       ELSE Clamp(-MaxTorque, MaxTorque, BaseTorque(profile', integral'))
          /\ rpmCap' = IF anchorHeld THEN Lesser(profile', AnchorCap) ELSE profile'
    BY <1>1 DEF Next, ExecuteBridgeLoop
  <2> DEFINE target == SafeTarget(order, shallow)
  <2>2. target \in Speeds
    BY SafeTargetType
  <2> HIDE DEF target
  <2>3. /\ accel' \in -AccelLim..AccelLim /\ ramp' \in Int
        /\ profile' \in Speeds
        /\ Magnitude(profile' - Clamp(-Astern, Ahead, ramp')) < Snap
    BY <2>0, <2>1, <2>2, RampStep DEF target
  <2>4. integral' \in Int /\ Magnitude(Ki * integral') <= MaxTorque + (Kp + Ki) * MaxError
    BY <2>0, <2>1, <2>3, IntegralStep DEF TypeOK
  <2>5. torque' \in -MaxTorque..MaxTorque
    <3>1. BaseTorque(profile', integral') \in Int
      BY <2>3, <2>4 DEF BaseTorque, Speeds
    <3>2. Clamp(-MaxTorque, MaxTorque, BaseTorque(profile', integral')) \in -MaxTorque..MaxTorque
      BY <3>1, ClampBounds
    <3>q. QED BY <2>1, <3>2
  <2>6. rpmCap' \in Speeds
    BY <2>1, <2>3 DEF Lesser, Speeds
  <2>7. slowdown' \in BOOLEAN /\ alwaysShallow' \in BOOLEAN
    BY <2>0, <2>1, Zenon DEF TypeOK
  <2>8. cycle' \in 0..MaxCycles
    BY <2>0, <2>1 DEF TypeOK
  <2>9. TypeOK'
    BY <2>3, <2>4, <2>5, <2>6, <2>7, <2>8 DEF TypeOK
  <2>10. NearRamp'
    BY <2>3 DEF NearRamp, Clamp, Magnitude
  <2>11. WindupIsBounded'
    BY <2>4 DEF WindupIsBounded, Magnitude, MaxError
  <2>q. QED BY <2>9, <2>10, <2>11 DEF IInv
<1>2. ASSUME IInv, UNCHANGED vars PROVE IInv'
  BY <1>2 DEF IInv, vars, TypeOK, NearRamp, WindupIsBounded, Magnitude, Clamp, MaxError
<1>q. QED BY <1>1, <1>2

\* Every variable of the plant stays in its range: the torque within the drive's,
\* the cap within the speeds that can be ordered.
THEOREM TypeCorrect == Spec => []TypeOK
<1>1. IInv => TypeOK BY DEF IInv
<1>q. QED BY <1>1, InitInv, NextInv, PTL DEF Spec

\* The integrator of the speed loop stays within a bound given by the drive's range,
\* the gains and the largest error.
THEOREM WindupBound == Spec => []WindupIsBounded
<1>1. IInv => WindupIsBounded BY DEF IInv
<1>q. QED BY <1>1, InitInv, NextInv, PTL DEF Spec

\* The profiled speed never takes a step.
THEOREM NoSteps == Spec => ProfileWithoutSteps
<1>1. ASSUME IInv, IInv', Next
      PROVE  Magnitude(profile' - profile) <= AccelLim + 2 * Snap
  <2>0. TypeOK /\ NearRamp /\ TypeOK' /\ NearRamp'
    BY <1>1 DEF IInv
  <2>1. PICK order \in Speeds, shallow \in BOOLEAN :
          ramp' = NewRamp(SafeTarget(order, shallow))
    BY <1>1 DEF Next, ExecuteBridgeLoop
  <2>2. Magnitude(ramp' - ramp) <= AccelLim
    BY <2>0, <2>1, SafeTargetType, RampStep
  <2> DEFINE c == Clamp(-Astern, Ahead, ramp)
             d == Clamp(-Astern, Ahead, ramp')
  <2>3. ramp \in Int /\ ramp' \in Int /\ profile \in Int /\ profile' \in Int
    BY <2>0 DEF TypeOK, Speeds
  <2>4. Magnitude(d - c) <= AccelLim
    BY <2>2, <2>3, ClampIsLipschitz
  <2>5. c \in Int /\ d \in Int
    BY <2>3 DEF Clamp
  <2>6. Magnitude(profile - c) < Snap /\ Magnitude(profile' - d) < Snap
    BY <2>0 DEF NearRamp
  <2>q. QED BY <2>3, <2>4, <2>5, <2>6, Triangle
<1>2. IInv /\ IInv' /\ [Next]_vars => [Magnitude(profile' - profile) <= AccelLim + 2 * Snap]_vars
  BY <1>1
<1>q. QED BY <1>2, InitInv, NextInv, PTL DEF Spec, ProfileWithoutSteps
=============================================================================
