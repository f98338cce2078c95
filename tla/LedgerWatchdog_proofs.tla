------------------------- MODULE LedgerWatchdog_proofs -------------------------
(***************************************************************************)
(* Proofs about LedgerWatchdog, for any set of ledgers, any timeout,       *)
(* period, overload limit and queue capacity: a stall is flagged and cuts  *)
(* the torque in time, and quiet ledgers give it back.                     *)
(***************************************************************************)
EXTENDS LedgerWatchdog, TLAPS

USE ConstantsAssumption DEF ConstantsAssumption

\* No report has come for more than k ticks, and none had left rows waiting.
Quiet(k) == \A l \in Ledgers : depths[l] = 0 /\ age[l] > k

\* What the checker knows of a stall, at each place it may stand.  Asleep, it has
\* seen what was late when it went to sleep.
StallSeen ==
    /\ checker = "asleep" =>
        \A l \in Ledgers : depths[l] > 0 /\ age[l] > Timeout + (Period - sleep) => systemFaulted
    /\ checker = "scanned" =>
        \A l \in Ledgers :
            /\ depths[l] > 0 /\ age[l] > Timeout => l \in heap[localRef]
            /\ Overdue(l, 0) => systemFaulted
    /\ checker = "flagged" =>
        \A l \in Ledgers : depths[l] > 0 /\ age[l] > Timeout => systemFaulted

\* The same of quiet ledgers.
QuietSeen ==
    /\ checker = "asleep" => (Quiet(Period - sleep) => ~systemFaulted)
    /\ checker = "scanned" =>
        /\ Quiet(0) => heap[localRef] = {}
        /\ Quiet(Period) => ~systemFaulted
    /\ checker = "flagged" => (Quiet(0) => ~systemFaulted)

\* The flag and the list, also while nobody watches and before the list is bound.
ListMatches ==
    /\ checker \in {"asleep", "ended"} => (systemFaulted <=> heap[trippedRef] # {})
    /\ checker = "flagged" => (systemFaulted <=> heap[localRef] # {})

\* A cycle of the main loop falls into one tick, so what it read there still holds.
OneCycle == cycled => reader = "computing"

Obeyed ==
    checker # "ended" =>
        /\ \A l \in Ledgers : Overdue(l, 0) =>
                (reader # "computing" => diag.faulted) /\ (cycled => torque = "ZERO")
        /\ \A l \in Ledgers : Overdue(l, 1) => torque = "ZERO"
        /\ Quiet(Period) =>
                (reader # "computing" => ~diag.faulted) /\ (cycled => torque = "MATH")
        /\ Quiet(Period + 1) => torque = "MATH"

IInv == TypeOK /\ StallSeen /\ QuietSeen /\ ListMatches /\ OneCycle /\ Obeyed

-----------------------------------------------------------------------------

LEMMA InitInv == Init => IInv
<1> SUFFICES ASSUME Init PROVE IInv
  OBVIOUS
<1> USE DEF Init
<1>1. TypeOK
  <2>1. isMonitoring \in BOOLEAN /\ systemFaulted \in BOOLEAN /\ cycled \in BOOLEAN
    BY Zenon
  <2>2. diag \in [faulted : BOOLEAN, tripped : Refs]
    BY DEF NoDiag, Refs
  <2>3. AgeMax \in Nat
    BY DEF AgeMax
  <2>q. QED BY <2>1, <2>2, <2>3 DEF TypeOK, Refs
<1>2. ListMatches
  BY DEF ListMatches, Refs
<1>3. StallSeen /\ QuietSeen /\ OneCycle /\ Obeyed
  BY DEF StallSeen, QuietSeen, OneCycle, Obeyed
<1>q. QED BY <1>1, <1>2, <1>3 DEF IInv

-----------------------------------------------------------------------------
(* Types.                                                                  *)

\* The list a scan fills is one that neither the watchdog nor the reader holds.
LEMMA ScanFacts ==
    ASSUME TypeOK, Scan
    PROVE  /\ localRef' \in Refs /\ localRef' \notin {trippedRef, diag.tripped}
           /\ heap' \in [Refs -> SUBSET Ledgers]
           /\ heap'[localRef'] = {l \in Ledgers : IsFaulty(l)}
           /\ heap'[trippedRef] = heap[trippedRef]
<1>1. \E r \in Refs : r \notin {trippedRef, diag.tripped}
  <2>1. 1 \in Refs /\ 2 \in Refs /\ 3 \in Refs
    BY DEF Refs
  <2>q. QED BY <2>1
<1>2. localRef' = CHOOSE r \in Refs : r \notin {trippedRef, diag.tripped}
  BY DEF Scan
<1>3. localRef' \in Refs /\ localRef' \notin {trippedRef, diag.tripped}
  BY <1>1, <1>2, Zenon
<1>4. heap' = [r \in Refs |-> IF r = localRef' THEN {l \in Ledgers : IsFaulty(l)}
                              ELSE IF r \in {trippedRef, diag.tripped} THEN heap[r] ELSE {}]
  BY DEF Scan
<1>5. heap \in [Refs -> SUBSET Ledgers] /\ trippedRef \in Refs
  BY DEF TypeOK
<1>6. \A r \in Refs :
          (IF r = localRef' THEN {l \in Ledgers : IsFaulty(l)}
           ELSE IF r \in {trippedRef, diag.tripped} THEN heap[r] ELSE {}) \in SUBSET Ledgers
  BY <1>5
<1>q. QED BY <1>3, <1>4, <1>5, <1>6

LEMMA TypeStep == TypeOK /\ [Next]_vars => TypeOK'
<1> SUFFICES ASSUME TypeOK, [Next]_vars PROVE TypeOK'
  OBVIOUS
<1> USE DEF TypeOK, writerVars, ledgerVars, flagVars, checkVars, readVars
<1>m. AgeMax \in Nat /\ Timeout + Period + 1 <= AgeMax
  BY DEF AgeMax
<1>1. ASSUME NEW l \in Ledgers, Take(l) \/ WriteFails(l) PROVE TypeOK'
  BY <1>1, <1>m DEF Take, WriteFails
<1>2. ASSUME NEW l \in Ledgers, LogWriteSuccess(l) PROVE TypeOK'
  BY <1>2, <1>m DEF LogWriteSuccess
<1>3. CASE StartWatchdog
  <2>1. isMonitoring' \in BOOLEAN
    BY <1>3, Zenon DEF StartWatchdog
  <2>q. QED BY <1>3, <1>m, <2>1 DEF StartWatchdog
<1>4. CASE StopWatchdog
  <2>1. isMonitoring' \in BOOLEAN
    BY <1>4, Zenon DEF StopWatchdog
  <2>q. QED BY <1>4, <2>1 DEF StopWatchdog
<1>5. CASE CheckerEnds
  BY <1>5 DEF CheckerEnds
<1>6. CASE Scan
  BY <1>6, ScanFacts DEF Scan
<1>7. CASE SetFlag
  <2>1. systemFaulted' \in BOOLEAN
    BY <1>7, Zenon DEF SetFlag
  <2>q. QED BY <1>7, <2>1 DEF SetFlag
<1>8. CASE SetList
  BY <1>8 DEF SetList
<1>9. CASE ReadFlag
  BY <1>9 DEF ReadFlag
<1>10. CASE ReadList
  BY <1>10 DEF ReadList
<1>11. CASE Dispatch
  <2>1. cycled' \in BOOLEAN
    BY <1>11, Zenon DEF Dispatch
  <2>q. QED BY <1>11, <2>1 DEF Dispatch, NoDiag, Refs
<1>12. CASE Tick
  <2>1. cycled' \in BOOLEAN
    BY <1>12, Zenon DEF Tick
  <2>2. \A l \in Ledgers : Older(age[l]) \in 0..AgeMax
    BY <1>m DEF Older
  <2>3. \A l \in Ledgers : Held(l) \in 0..AgeMax /\ 0 \in 0..AgeMax
    BY <1>m DEF Held
  <2>4. age' \in [Ledgers -> 0..AgeMax] /\ held' \in [Ledgers -> 0..AgeMax]
    BY <1>12, <2>2, <2>3 DEF Tick
  <2>5. sleep' \in 0..Period
    BY <1>12 DEF Tick
  <2>q. QED BY <1>12, <2>1, <2>4, <2>5 DEF Tick
<1>13. CASE UNCHANGED vars
  BY <1>13 DEF vars
<1>q. QED BY <1>1, <1>2, <1>3, <1>4, <1>5, <1>6, <1>7, <1>8, <1>9, <1>10, <1>11, <1>12, <1>13 DEF Next

-----------------------------------------------------------------------------
(* Time.                                                                   *)

\* Between two ticks an age stays, with the depth reported, or a report zeroes it.
Fresh == \A l \in Ledgers : age'[l] > 0 => age'[l] = age[l] /\ depths'[l] = depths[l]

LEMMA FreshStep ==
    ASSUME TypeOK, Next, ~Tick
    PROVE  Fresh
<1> USE DEF Fresh
<1>1. CASE age' = age /\ depths' = depths
  BY <1>1
<1>2. ASSUME NEW l \in Ledgers, LogWriteSuccess(l) PROVE Fresh
  BY <1>2 DEF LogWriteSuccess, TypeOK
<1>3. CASE StartWatchdog
  BY <1>3 DEF StartWatchdog
<1>4. CASE \/ \E l \in Ledgers : Take(l) \/ WriteFails(l)
           \/ StopWatchdog \/ CheckerEnds \/ Scan \/ SetFlag \/ SetList
           \/ ReadFlag \/ ReadList \/ Dispatch
  BY <1>1, <1>4 DEF Take, WriteFails, StopWatchdog, CheckerEnds, Scan, SetFlag, SetList, ReadFlag,
                    ReadList, Dispatch, ledgerVars
<1>q. QED BY <1>2, <1>3, <1>4 DEF Next

\* So what is late, or quiet, was so before.
LEMMA FreshKeeps ==
    ASSUME TypeOK, TypeOK', Fresh
    PROVE  /\ \A l \in Ledgers, k \in Nat :
                depths'[l] > 0 /\ age'[l] > k => depths[l] > 0 /\ age[l] > k
           /\ \A k \in Nat : Quiet(k)' => Quiet(k)
<1>1. \A l \in Ledgers : age[l] \in Nat /\ age'[l] \in Nat /\ depths[l] \in Nat
  BY DEF TypeOK, AgeMax
<1>q. QED BY <1>1 DEF Fresh, Quiet

LEMMA FreshOverdue ==
    ASSUME TypeOK, TypeOK', Fresh, NEW l \in Ledgers
    PROVE  (Overdue(l, 0)' => Overdue(l, 0)) /\ (Overdue(l, 1)' => Overdue(l, 1))
<1>1. Timeout + Period + 0 \in Nat /\ Timeout + Period + 1 \in Nat
  OBVIOUS
<1>q. QED BY <1>1, FreshKeeps DEF Overdue

\* A tick makes nothing older by more than one.
LEMMA TickKeeps ==
    ASSUME TypeOK, Tick
    PROVE  /\ depths' = depths
           /\ \A l \in Ledgers, k \in Int : age'[l] > k + 1 => age[l] > k
           /\ \A k \in Int : Quiet(k + 1)' => Quiet(k)
<1>1. \A l \in Ledgers : age[l] \in Nat /\ (age'[l] = age[l] + 1 \/ age'[l] = age[l])
  BY DEF TypeOK, Tick, Older, AgeMax
<1>2. depths' = depths
  BY DEF Tick
<1>3. \A l \in Ledgers, k \in Int : age'[l] > k + 1 => age[l] > k
  BY <1>1
<1>q. QED BY <1>2, <1>3 DEF Quiet

\* A scan counts what is late with rows waiting among the faults, and nothing when
\* no ledger has left rows waiting.
LEMMA ScanSees ==
    ASSUME TypeOK
    PROVE  /\ \A l \in Ledgers : depths[l] > 0 /\ age[l] > Timeout => IsFaulty(l)
           /\ Quiet(0) => {l \in Ledgers : IsFaulty(l)} = {}
BY DEF IsFaulty, Quiet, TypeOK

-----------------------------------------------------------------------------
(* The checker.                                                            *)

CheckerRests == UNCHANGED <<checker, sleep, systemFaulted, trippedRef, heap, localRef>>

\* Whoever moves but the checker and the clock leaves what the checker wrote.
LEMMA OthersRest ==
    ASSUME Next
    PROVE  \/ CheckerRests /\ ~Tick
           \/ StartWatchdog \/ CheckerEnds \/ Scan \/ SetFlag \/ SetList \/ Tick
BY DEF CheckerRests, Next, Take, WriteFails, LogWriteSuccess, StopWatchdog, ReadFlag, ReadList, Dispatch,
       flagVars, checkVars, Tick

LEMMA StallStep ==
    ASSUME TypeOK, TypeOK', StallSeen, Next
    PROVE  StallSeen'
<1>t. /\ sleep \in 0..Period /\ sleep' \in 0..Period /\ Timeout \in Nat /\ Period \in Nat
      /\ heap \in [Refs -> SUBSET Ledgers] /\ localRef \in Refs
  BY DEF TypeOK
<1>1. CASE CheckerRests /\ ~Tick
  <2>1. Fresh
    BY <1>1, FreshStep
  <2>2. Timeout + (Period - sleep) \in Nat
    BY <1>t
  <2>q. QED BY <1>1, <1>t, <2>1, <2>2, FreshKeeps, FreshOverdue DEF StallSeen, CheckerRests
<1>2. CASE StartWatchdog
  <2>1. \A l \in Ledgers : depths'[l] = 0
    BY <1>2 DEF StartWatchdog
  <2>q. QED BY <1>2, <2>1 DEF StartWatchdog, StallSeen
<1>3. CASE CheckerEnds
  BY <1>3 DEF CheckerEnds, StallSeen
<1>4. CASE Scan
  <2>1. age' = age /\ depths' = depths /\ systemFaulted' = systemFaulted /\ checker' = "scanned"
    BY <1>4 DEF Scan, ledgerVars
  <2>2. \A l \in Ledgers : depths[l] > 0 /\ age[l] > Timeout => l \in heap'[localRef']
    BY <1>4, ScanFacts, ScanSees
  <2>3. \A l \in Ledgers : Overdue(l, 0) => systemFaulted
    <3>1. checker = "asleep" /\ Timeout + (Period - sleep) = Timeout + Period + 0
      BY <1>4 DEF Scan
    <3>q. QED BY <3>1 DEF StallSeen, Overdue
  <2>q. QED BY <2>1, <2>2, <2>3 DEF StallSeen, Overdue
<1>5. CASE SetFlag
  <2>1. /\ age' = age /\ depths' = depths /\ checker = "scanned" /\ checker' = "flagged"
        /\ systemFaulted' = (heap[localRef] # {})
    BY <1>5 DEF SetFlag, ledgerVars
  <2>q. QED BY <2>1 DEF StallSeen
<1>6. CASE SetList
  <2>1. /\ age' = age /\ depths' = depths /\ checker = "flagged" /\ checker' = "asleep"
        /\ systemFaulted' = systemFaulted /\ Timeout + (Period - sleep') = Timeout
    BY <1>6 DEF SetList, ledgerVars
  <2>q. QED BY <2>1 DEF StallSeen
<1>7. CASE Tick
  <2>1. /\ checker' = checker /\ systemFaulted' = systemFaulted
        /\ checker = "ended" \/ (checker = "asleep" /\ sleep > 0)
        /\ sleep > 0 => sleep' = sleep - 1
    BY <1>7 DEF Tick, flagVars
  <2>2. sleep > 0 => Timeout + (Period - sleep') = (Timeout + (Period - sleep)) + 1
    BY <1>t, <2>1
  <2>3. Timeout + (Period - sleep) \in Int
    BY <1>t
  <2>q. QED BY <1>7, <2>1, <2>2, <2>3, TickKeeps DEF StallSeen
<1>q. QED BY <1>1, <1>2, <1>3, <1>4, <1>5, <1>6, <1>7, OthersRest

LEMMA QuietStep ==
    ASSUME TypeOK, TypeOK', QuietSeen, Next
    PROVE  QuietSeen'
<1>t. /\ sleep \in 0..Period /\ sleep' \in 0..Period /\ Period \in Nat
      /\ heap \in [Refs -> SUBSET Ledgers] /\ localRef \in Refs
  BY DEF TypeOK
<1>1. CASE CheckerRests /\ ~Tick
  <2>1. Fresh
    BY <1>1, FreshStep
  <2>2. Period - sleep \in Nat /\ 0 \in Nat
    BY <1>t
  <2>3. /\ Quiet(Period - sleep)' => Quiet(Period - sleep)
        /\ Quiet(Period)' => Quiet(Period)
        /\ Quiet(0)' => Quiet(0)
    <3>1. /\ sleep' = sleep
          /\ \A l \in Ledgers : age[l] \in Nat /\ age'[l] \in Nat
      BY <1>1 DEF CheckerRests, TypeOK, AgeMax
    <3>q. QED BY <1>t, <2>1, <2>2, <3>1 DEF Fresh, Quiet
  <2>q. QED BY <1>1, <2>3 DEF QuietSeen, CheckerRests
<1>2. CASE StartWatchdog
  <2>1. \A l \in Ledgers : age'[l] = 0
    BY <1>2 DEF StartWatchdog
  <2>2. ~Quiet(Period - sleep)'
    BY <1>2, <1>t, <2>1 DEF Quiet
  <2>q. QED BY <1>2, <2>2 DEF StartWatchdog, QuietSeen
<1>3. CASE CheckerEnds
  BY <1>3 DEF CheckerEnds, QuietSeen
<1>4. CASE Scan
  <2>1. age' = age /\ depths' = depths /\ systemFaulted' = systemFaulted /\ checker' = "scanned"
    BY <1>4 DEF Scan, ledgerVars
  <2>2. Quiet(0) => heap'[localRef'] = {}
    BY <1>4, ScanFacts, ScanSees
  <2>3. Quiet(Period) => ~systemFaulted
    <3>1. checker = "asleep" /\ Period - sleep = Period
      BY <1>4 DEF Scan
    <3>q. QED BY <3>1 DEF QuietSeen
  <2>q. QED BY <2>1, <2>2, <2>3 DEF QuietSeen, Quiet
<1>5. CASE SetFlag
  <2>1. /\ age' = age /\ depths' = depths /\ checker = "scanned" /\ checker' = "flagged"
        /\ systemFaulted' = (heap[localRef] # {})
    BY <1>5 DEF SetFlag, ledgerVars
  <2>q. QED BY <2>1 DEF QuietSeen, Quiet
<1>6. CASE SetList
  <2>1. /\ age' = age /\ depths' = depths /\ checker = "flagged" /\ checker' = "asleep"
        /\ systemFaulted' = systemFaulted /\ Period - sleep' = 0
    BY <1>6 DEF SetList, ledgerVars
  <2>q. QED BY <2>1 DEF QuietSeen, Quiet
<1>7. CASE Tick
  <2>1. /\ checker' = checker /\ systemFaulted' = systemFaulted
        /\ checker = "ended" \/ (checker = "asleep" /\ sleep > 0)
        /\ sleep > 0 => sleep' = sleep - 1
    BY <1>7 DEF Tick, flagVars
  <2>2. sleep > 0 => (Quiet(Period - sleep)' => Quiet(Period - sleep))
    <3>1. sleep > 0 => Period - sleep' = (Period - sleep) + 1
      BY <1>t, <2>1
    <3>2. Period - sleep \in Int
      BY <1>t
    <3>q. QED BY <1>7, <3>1, <3>2, TickKeeps DEF Quiet
  <2>q. QED BY <2>1, <2>2 DEF QuietSeen
<1>q. QED BY <1>1, <1>2, <1>3, <1>4, <1>5, <1>6, <1>7, OthersRest

LEMMA ListStep ==
    ASSUME TypeOK, ListMatches, Next
    PROVE  ListMatches'
<1>t. heap \in [Refs -> SUBSET Ledgers] /\ localRef \in Refs /\ trippedRef \in Refs
  BY DEF TypeOK
<1>1. CASE CheckerRests
  BY <1>1 DEF ListMatches, CheckerRests
<1>2. CASE StartWatchdog \/ CheckerEnds \/ Tick
  BY <1>2 DEF StartWatchdog, CheckerEnds, Tick, ListMatches, flagVars
<1>3. CASE Scan
  BY <1>3 DEF Scan, ListMatches
<1>4. CASE SetFlag
  BY <1>4 DEF SetFlag, ListMatches
<1>5. CASE SetList
  <2>1. checker = "flagged" /\ checker' = "asleep" /\ systemFaulted' = systemFaulted
    BY <1>5 DEF SetList
  <2>2. CASE systemFaulted
    <3>1. heap'[trippedRef'] = heap[localRef]
      BY <1>5, <2>2 DEF SetList
    <3>q. QED BY <2>1, <2>2, <3>1 DEF ListMatches
  <2>3. CASE ~systemFaulted
    <3>1. heap'[trippedRef'] = {}
      BY <1>5, <1>t, <2>3 DEF SetList
    <3>q. QED BY <2>1, <2>3, <3>1 DEF ListMatches
  <2>q. QED BY <2>2, <2>3
<1>q. QED BY <1>1, <1>2, <1>3, <1>4, <1>5, OthersRest

-----------------------------------------------------------------------------
(* The main loop.                                                          *)

\* The flag is up within the timeout and a period, and down within a period.
LEMMA FlagIsTimely ==
    ASSUME TypeOK, StallSeen, QuietSeen, checker # "ended"
    PROVE  /\ \A l \in Ledgers : Overdue(l, 0) => systemFaulted
           /\ Quiet(Period) => ~systemFaulted
<1>t. /\ sleep \in 0..Period /\ Timeout \in Nat /\ Period \in Nat
      /\ checker \in {"asleep", "scanned", "flagged"}
      /\ \A l \in Ledgers : age[l] \in Nat
  BY DEF TypeOK, AgeMax
<1>1. \A l \in Ledgers : Overdue(l, 0) =>
          depths[l] > 0 /\ age[l] > Timeout /\ age[l] > Timeout + (Period - sleep)
  BY <1>t DEF Overdue
<1>2. Quiet(Period) => Quiet(Period - sleep) /\ Quiet(0)
  BY <1>t DEF Quiet
<1>q. QED BY <1>t, <1>1, <1>2 DEF StallSeen, QuietSeen

LoopRests == UNCHANGED <<reader, cycled, diag, torque>>

LEMMA ObeyStep ==
    ASSUME TypeOK, TypeOK', StallSeen, QuietSeen, OneCycle, Obeyed, Next
    PROVE  OneCycle' /\ Obeyed'
<1>1. CASE Tick
  <2>1. /\ reader' = reader /\ diag' = diag /\ torque' = torque /\ cycled /\ ~cycled'
        /\ checker' = checker /\ reader = "computing"
    BY <1>1 DEF Tick, OneCycle
  <2>2. \A l \in Ledgers : Overdue(l, 1)' => Overdue(l, 0)
    <3>1. Timeout + Period \in Int /\ Timeout + Period + 0 = Timeout + Period
      OBVIOUS
    <3>q. QED BY <1>1, <3>1, TickKeeps DEF Overdue
  <2>3. Quiet(Period + 1)' => Quiet(Period)
    <3>1. Period \in Int
      OBVIOUS
    <3>q. QED BY <1>1, <3>1, TickKeeps
  <2>q. QED BY <2>1, <2>2, <2>3 DEF OneCycle, Obeyed
<1>2. CASE StartWatchdog
  <2>1. LoopRests /\ \A l \in Ledgers : age'[l] = 0 /\ depths'[l] = 0
    BY <1>2 DEF StartWatchdog, LoopRests, readVars
  <2>2. (\A l \in Ledgers : ~Overdue(l, 0)' /\ ~Overdue(l, 1)')
    BY <2>1 DEF Overdue
  <2>3. ~Quiet(Period)' /\ ~Quiet(Period + 1)'
    BY <2>1 DEF Quiet
  <2>q. QED BY <2>1, <2>2, <2>3 DEF OneCycle, Obeyed, LoopRests
<1>3. ASSUME ~Tick, ~StartWatchdog
      PROVE  /\ \A l \in Ledgers : (Overdue(l, 0)' => Overdue(l, 0)) /\ (Overdue(l, 1)' => Overdue(l, 1))
             /\ (Quiet(Period)' => Quiet(Period)) /\ (Quiet(Period + 1)' => Quiet(Period + 1))
             /\ checker' # "ended" => checker # "ended"
  <2>1. Fresh
    BY <1>3, FreshStep
  <2>2. Period \in Nat /\ Period + 1 \in Nat
    OBVIOUS
  <2>3. checker' # "ended" => checker # "ended"
    BY <1>3, OthersRest DEF CheckerRests, CheckerEnds, Scan, SetFlag, SetList
  <2>q. QED BY <2>1, <2>2, <2>3, FreshKeeps, FreshOverdue
<1>4. CASE LoopRests /\ ~Tick /\ ~StartWatchdog
  BY <1>3, <1>4 DEF OneCycle, Obeyed, LoopRests
<1>5. CASE ReadFlag
  <2>1. /\ reader = "computing" /\ ~cycled /\ cycled' = cycled /\ torque' = torque
        /\ diag' = [diag EXCEPT !.faulted = systemFaulted] /\ diag \in [faulted : BOOLEAN, tripped : Refs]
    BY <1>5 DEF ReadFlag, TypeOK
  <2>2. diag'.faulted = systemFaulted
    BY <2>1
  <2>3. ~Tick /\ ~StartWatchdog
    BY <1>5, <2>1 DEF ReadFlag, Tick, StartWatchdog, readVars
  <2>q. QED BY <1>3, <2>1, <2>2, <2>3, FlagIsTimely DEF OneCycle, Obeyed
<1>6. CASE ReadList
  <2>1. /\ reader = "flagRead" /\ reader' = "answered" /\ cycled' = cycled /\ torque' = torque
        /\ diag' = [diag EXCEPT !.tripped = trippedRef] /\ diag \in [faulted : BOOLEAN, tripped : Refs]
    BY <1>6 DEF ReadList, TypeOK
  <2>2. diag'.faulted = diag.faulted /\ ~cycled
    BY <2>1 DEF OneCycle
  <2>3. ~Tick /\ ~StartWatchdog
    BY <2>1 DEF Tick, StartWatchdog, readVars
  <2>q. QED BY <1>3, <2>1, <2>2, <2>3 DEF OneCycle, Obeyed
<1>7. CASE Dispatch
  <2>1. /\ reader = "answered" /\ reader' = "computing" /\ cycled'
        /\ torque' = IF diag.faulted THEN "ZERO" ELSE "MATH"
    BY <1>7 DEF Dispatch
  <2>2. ~Tick /\ ~StartWatchdog
    BY <2>1 DEF Tick, StartWatchdog, readVars
  <2>3. (\A l \in Ledgers : Overdue(l, 1) => Overdue(l, 0)) /\ (Quiet(Period + 1) => Quiet(Period))
    <3>1. \A l \in Ledgers : age[l] \in Nat
      BY DEF TypeOK, AgeMax
    <3>q. QED BY <3>1 DEF Overdue, Quiet
  <2>q. QED BY <1>3, <2>1, <2>2, <2>3 DEF OneCycle, Obeyed
<1>8. LoopRests \/ ReadFlag \/ ReadList \/ Dispatch \/ Tick
  BY DEF Next, LoopRests, Take, WriteFails, LogWriteSuccess, StartWatchdog, StopWatchdog, CheckerEnds,
         Scan, SetFlag, SetList, readVars
<1>q. QED BY <1>1, <1>2, <1>4, <1>5, <1>6, <1>7, <1>8

-----------------------------------------------------------------------------
(* The theorems.                                                           *)

LEMMA NextInv == IInv /\ [Next]_vars => IInv'
<1> SUFFICES ASSUME IInv, [Next]_vars PROVE IInv'
  OBVIOUS
<1>1. CASE Next
  <2>1. TypeOK'
    BY <1>1, TypeStep DEF IInv
  <2>q. QED BY <1>1, <2>1, StallStep, QuietStep, ListStep, ObeyStep DEF IInv
<1>2. CASE UNCHANGED vars
  BY <1>2, TypeStep DEF vars, IInv, StallSeen, QuietSeen, ListMatches, OneCycle, Obeyed, Overdue, Quiet,
                        ledgerVars, flagVars, checkVars, readVars
<1>q. QED BY <1>1, <1>2

\* Types, and between two checks (_watchdog_loop) the flag says what the list says.
THEOREM FlagsCorrect == Spec => []Safety
<1>1. IInv => Safety
  BY DEF IInv, Safety, FlagsAgreeAtRest, ListMatches
<1>q. QED BY InitInv, NextInv, <1>1, PTL DEF Spec

\* A ledger that left rows waiting and fell silent (ledger_heartbeats against
\* write_timeout_sec) has raised the flag within the timeout and one period.
THEOREM StallCorrect == Spec => []StallIsFlagged
<1>1. IInv => StallIsFlagged
  BY FlagIsTimely DEF IInv, StallIsFlagged, Watching
<1>q. QED BY InitInv, NextInv, <1>1, PTL DEF Spec

\* One cycle of the main loop later the motor torque it sends is zero.
THEOREM TorqueIsCut == Spec => []StallCutsTorque
<1>1. IInv => StallCutsTorque
  BY DEF IInv, StallCutsTorque, Watching, Obeyed
<1>q. QED BY InitInv, NextInv, <1>1, PTL DEF Spec

\* A period and a cycle after the last of the ledgers has left nothing waiting, the
\* main loop sends the torque it computes.
THEOREM TorqueReturns == Spec => []TorqueIsRestored
<1>1. IInv => TorqueIsRestored
  BY DEF IInv, TorqueIsRestored, Watching, Obeyed, Quiet
<1>q. QED BY InitInv, NextInv, <1>1, PTL DEF Spec
=============================================================================
