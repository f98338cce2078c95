------------------------- MODULE ShoreFacility_proofs -------------------------
(***************************************************************************)
(* Proofs about ShoreFacility, for any queue and any number of updates,    *)
(* changes of authority, failing files and processes: who was in charge,   *)
(* the soundness of the two files, and that the ledger implements          *)
(* LedgerFifo.                                                             *)
(***************************************************************************)
EXTENDS ShoreFacility, TLAPS

USE ConstantsAssumption DEF ConstantsAssumption

\* Where a process and its parts stand relative to each other.
Stations ==
    /\ up # "down" => run >= 1
    /\ up = "up" /\ ~isLogging => writer = "none"
    /\ loop = "resolving" => updates < MaxUpdates

\* What the loop holds is of one side, and a change it has missed is its first.
OneSide ==
    /\ overtaken = 1 /\ loop = "resolving" => loopMode = mode
    /\ loop = "stored" => cache.from = loopMode
    /\ Honest(result) /\ Honest(row.data)

\* Numbers grow from the ledger over the row in hand and the queue to the update under
\* way, which has the highest number and is nowhere else yet.
InOrder ==
    /\ loop = "stored" => cache.n = updates
    /\ loop = "capture" => result.dispatched.n = updates
    /\ \A j \in 1..Len(queue) : queue[j].dispatched.n <= Captured
    /\ \A j \in 1..Len(queue) : \A i \in 1..j-1 : queue[i].dispatched.n < queue[j].dispatched.n
    /\ \A i \in 1..Len(csv) : Hash(csv[i]) <= Captured
    /\ \A i \in 1..Len(csv), j \in 1..Len(queue) : Hash(csv[i]) < queue[j].dispatched.n
    /\ writer = "append" =>
        /\ Hash(row) <= Captured
        /\ \A i \in 1..Len(csv) : Hash(csv[i]) < Hash(row)
        /\ \A j \in 1..Len(queue) : Hash(row) < queue[j].dispatched.n

LastIsMine == Len(csv) > 0 /\ csv[Len(csv)].run = run

\* The logger's cache is the digest of the last row of its own process, if any.
CacheMatches ==
    /\ \A i \in 1..Len(csv) : csv[i].run <= run
    /\ \A i \in 1..Len(csv) : \A j \in 1..i : csv[j].run <= csv[i].run
    /\ prevHash = IF LastIsMine THEN Hash(csv[Len(csv)]) ELSE 0
    /\ writer = "append" => row.prev = prevHash /\ row.run = run
    /\ writer \in {"overwrite", "dump"} => Len(csv) > 0 /\ csv[Len(csv)] = row

IInv ==
    /\ TypeOK /\ Stations /\ OneSide /\ OneSourceOfAuthority
    /\ InOrder /\ CacheMatches /\ RunsStayChained /\ LiveStateIsInLedger

-----------------------------------------------------------------------------

LEMMA InitInv == Init => IInv
<1> SUFFICES ASSUME Init PROVE IInv
  OBVIOUS
<1> USE DEF Init
<1>1. TypeOK
  <2>2. NoRow \in Row
    BY DEF NoRow, NoResult, Row, Result, Modes, Actuators, Defaults
  <2>3. result \in Result /\ cache \in Actuators
    BY DEF NoResult, Result, Modes, Actuators, Defaults
  <2>4. json \in [torn : BOOLEAN, row : Row] /\ row \in Row
    BY <2>2 DEF Torn
  <2>5. queue \in Seq(Result) /\ Len(queue) <= QueueMax /\ csv \in Seq(Row)
    OBVIOUS
  <2>6. isLogging \in BOOLEAN
    BY Zenon
  <2>q. QED BY <2>3, <2>4, <2>5, <2>6 DEF TypeOK, Modes
<1>2. Stations /\ InOrder /\ CacheMatches /\ RunsStayChained
  BY DEF Stations, InOrder, CacheMatches, RunsStayChained, LastIsMine
<1>3. OneSide /\ OneSourceOfAuthority
  BY DEF OneSide, OneSourceOfAuthority, Honest, NoResult, NoRow, Defaults
<1>4. LiveStateIsInLedger
  BY DEF LiveStateIsInLedger, Torn
<1>q. QED BY <1>1, <1>2, <1>3, <1>4 DEF IInv

-----------------------------------------------------------------------------
(* Sequences.                                                              *)

LEMMA AppendFacts ==
    ASSUME NEW S, NEW q \in Seq(S), NEW x \in S
    PROVE  /\ Append(q, x) \in Seq(S)
           /\ Len(Append(q, x)) = Len(q) + 1
           /\ \A i \in 1..Len(q) : Append(q, x)[i] = q[i]
           /\ Append(q, x)[Len(q) + 1] = x
OBVIOUS

LEMMA TailFacts ==
    ASSUME NEW S, NEW q \in Seq(S), q # << >>
    PROVE  /\ Tail(q) \in Seq(S)
           /\ Len(Tail(q)) = Len(q) - 1 /\ Len(q) \in Nat \ {0}
           /\ \A i \in 1..Len(Tail(q)) : Tail(q)[i] = q[i + 1]
           /\ Head(q) = q[1] /\ Head(q) \in S
OBVIOUS

-----------------------------------------------------------------------------
(* Types.                                                                  *)

LEMMA CaptureQueue ==
    ASSUME TypeOK, CaptureFacilityStateSnapshot
    PROVE  queue' \in Seq(Result) /\ Len(queue') <= QueueMax
<1>1. queue \in Seq(Result) /\ result \in Result /\ Len(queue) <= QueueMax
  BY DEF TypeOK
<1>2. CASE isLogging /\ Len(queue) < QueueMax
  <2>1. queue' = Append(queue, result)
    BY <1>2 DEF CaptureFacilityStateSnapshot
  <2>2. Append(queue, result) \in Seq(Result) /\ Len(Append(queue, result)) = Len(queue) + 1
    BY <1>1, AppendFacts
  <2>q. QED BY <1>2, <2>1, <2>2
<1>3. CASE ~(isLogging /\ Len(queue) < QueueMax)
  BY <1>1, <1>3 DEF CaptureFacilityStateSnapshot
<1>q. QED BY <1>2, <1>3

LEMMA TypeStep == TypeOK /\ Stations /\ [Next]_vars => TypeOK' /\ Stations'
<1> SUFFICES ASSUME TypeOK, Stations, [Next]_vars PROVE TypeOK' /\ Stations'
  OBVIOUS
<1> USE DEF TypeOK, Stations, coreVars, loopVars, logVars, fileVars, writerFrame
<1>1. CASE Boot
  <2>1. NoResult \in Result /\ Defaults \in Actuators /\ NoRow \in Row
    BY DEF NoRow, NoResult, Row, Result, Modes, Actuators, Defaults
  <2>2. isLogging' \in BOOLEAN
    BY <1>1, Zenon DEF Boot, Fresh
  <2>q. QED BY <1>1, <2>1, <2>2 DEF Boot, Fresh, Modes
<1>2. CASE SetBaseRoutingAuthority
  BY <1>2 DEF SetBaseRoutingAuthority
<1>3. CASE ReadMode
  BY <1>3 DEF ReadMode
<1>4. CASE StoreActuators
  <2>1. cache' \in Actuators
    BY <1>4 DEF StoreActuators, Actuators
  <2>2. overtaken' \in Nat
    BY <1>4 DEF StoreActuators
  <2>q. QED BY <1>4, <2>1, <2>2 DEF StoreActuators
<1>5. CASE ReturnResult
  <2>1. result' \in Result
    BY <1>5 DEF ReturnResult, Result
  <2>q. QED BY <1>5, <2>1 DEF ReturnResult
<1>6. CASE CaptureFacilityStateSnapshot
  <2>1. queue' \in Seq(Result) /\ Len(queue') <= QueueMax
    BY <1>6, CaptureQueue
  <2>q. QED BY <1>6, <2>1 DEF CaptureFacilityStateSnapshot
<1>7. CASE StartLoggerServices
  BY <1>7 DEF StartLoggerServices
<1>8. CASE StopLoggerServices
  BY <1>8 DEF StopLoggerServices
<1>9. CASE Exit \/ Crash
  BY <1>9 DEF Exit, Crash
<1>10. CASE Get
  <2>1. queue' \in Seq(Result) /\ Len(queue') <= QueueMax /\ Head(queue) \in Result
    BY <1>10, TailFacts DEF Get
  <2>2. row' \in Row
    BY <1>10, <2>1 DEF Get, Row, Running
  <2>q. QED BY <1>10, <2>1, <2>2 DEF Get
<1>11. CASE AppendRow
  <2>1. csv' \in Seq(Row)
    BY <1>11, AppendFacts DEF AppendRow
  <2>2. prevHash' \in 0..MaxUpdates
    BY <1>11 DEF AppendRow, Hash, Row, Result, Actuators
  <2>q. QED BY <1>11, <2>1, <2>2 DEF AppendRow, Running
<1>12. CASE TruncateLiveState
  <2>1. json' \in [torn : BOOLEAN, row : Row]
    <3>1. NoRow \in Row
      BY DEF NoRow, NoResult, Row, Result, Modes, Actuators, Defaults
    <3>q. QED BY <1>12, <3>1 DEF TruncateLiveState, Torn
  <2>q. QED BY <1>12, <2>1 DEF TruncateLiveState
<1>13. CASE DumpLiveState
  <2>1. json' \in [torn : BOOLEAN, row : Row]
    BY <1>13 DEF DumpLiveState, Whole
  <2>q. QED BY <1>13, <2>1 DEF DumpLiveState
<1>14. CASE FileFails
  BY <1>14 DEF FileFails
<1>15. CASE InitializeStoragePaths \/ MakeDirectoryFails \/ Wake \/ EndWriter
  BY <1>15 DEF InitializeStoragePaths, MakeDirectoryFails, Wake, EndWriter
<1>16. CASE UNCHANGED vars
  BY <1>16 DEF vars
<1>q. QED BY <1>1, <1>2, <1>3, <1>4, <1>5, <1>6, <1>7, <1>8, <1>9, <1>10, <1>11, <1>12, <1>13,
             <1>14, <1>15, <1>16 DEF Next, LoopNext, WriterNext

-----------------------------------------------------------------------------
(* Who was in charge.                                                      *)

LEMMA SideStep ==
    TypeOK /\ OneSide /\ OneSourceOfAuthority /\ [Next]_vars
        => OneSide' /\ OneSourceOfAuthority'
<1> SUFFICES ASSUME TypeOK, OneSide, OneSourceOfAuthority, [Next]_vars
             PROVE  OneSide' /\ OneSourceOfAuthority'
  OBVIOUS
<1> USE DEF OneSide, OneSourceOfAuthority
<1>t. queue \in Seq(Result) /\ csv \in Seq(Row) /\ result \in Result /\ row \in Row /\ overtaken \in Nat
  BY DEF TypeOK
<1>1. CASE Boot
  <2>1. Honest(NoResult) /\ Honest(NoRow.data)
    BY DEF Honest, NoResult, NoRow, Defaults
  <2>q. QED BY <1>1, <2>1 DEF Boot, Fresh, fileVars
<1>2. CASE SetBaseRoutingAuthority
  BY <1>2 DEF SetBaseRoutingAuthority, loopVars, logVars, fileVars
<1>3. CASE ReadMode
  BY <1>3 DEF ReadMode, coreVars, logVars, fileVars
<1>4. CASE StoreActuators
  <2>1. overtaken' <= 1
    BY <1>4, <1>t DEF StoreActuators
  <2>2. cache'.from = loopMode' /\ loop' = "stored"
    BY <1>4 DEF StoreActuators
  <2>q. QED BY <1>4, <2>1, <2>2 DEF StoreActuators, logVars, fileVars
<1>5. CASE ReturnResult
  <2>1. Honest(result')
    BY <1>5 DEF ReturnResult, Honest
  <2>q. QED BY <1>5, <2>1 DEF ReturnResult, coreVars, logVars, fileVars
<1>6. CASE CaptureFacilityStateSnapshot
  <2>1. \A i \in 1..Len(queue') : Honest(queue'[i])
    <3>1. CASE queue' = queue
      BY <3>1
    <3>2. CASE queue' = Append(queue, result)
      BY <1>t, <3>2, AppendFacts
    <3>q. QED BY <1>6, <3>1, <3>2 DEF CaptureFacilityStateSnapshot
  <2>q. QED BY <1>6, <2>1 DEF CaptureFacilityStateSnapshot, coreVars, fileVars
<1>7. CASE StartLoggerServices \/ StopLoggerServices \/ Exit \/ Crash
  BY <1>7 DEF StartLoggerServices, StopLoggerServices, Exit, Crash, coreVars, loopVars, logVars, fileVars
<1>8. CASE Get
  <2>1. queue # << >> /\ queue' = Tail(queue) /\ row'.data = Head(queue)
    BY <1>8 DEF Get
  <2>2. /\ \A i \in 1..Len(queue') : queue'[i] = queue[i + 1] /\ i + 1 \in 1..Len(queue)
        /\ row'.data = queue[1] /\ 1 \in 1..Len(queue)
    BY <1>t, <2>1, TailFacts
  <2>q. QED BY <1>8, <2>2 DEF Get, writerFrame, coreVars, loopVars, fileVars
<1>9. CASE AppendRow
  <2>1. csv' = Append(csv, row)
    BY <1>9 DEF AppendRow
  <2>2. \A i \in 1..Len(csv') : Honest(csv'[i].data)
    BY <1>t, <2>1, AppendFacts
  <2>q. QED BY <1>9, <2>2 DEF AppendRow, writerFrame, coreVars, loopVars
<1>10. CASE \/ InitializeStoragePaths \/ MakeDirectoryFails \/ TruncateLiveState \/ DumpLiveState
            \/ FileFails \/ Wake \/ EndWriter
  BY <1>10 DEF InitializeStoragePaths, MakeDirectoryFails, TruncateLiveState, DumpLiveState,
               FileFails, Wake, EndWriter, writerFrame, coreVars, loopVars, fileVars
<1>11. CASE UNCHANGED vars
  BY <1>11 DEF vars, coreVars, loopVars, logVars, fileVars
<1>q. QED BY <1>1, <1>2, <1>3, <1>4, <1>5, <1>6, <1>7, <1>8, <1>9, <1>10, <1>11
          DEF Next, LoopNext, WriterNext

-----------------------------------------------------------------------------
(* The numbers of the updates.                                             *)

LEMMA OrderStep ==
    TypeOK /\ InOrder /\ [Next]_vars => InOrder'
<1> SUFFICES ASSUME TypeOK, InOrder, [Next]_vars PROVE InOrder'
  OBVIOUS
<1> USE DEF InOrder
<1>t. /\ queue \in Seq(Result) /\ csv \in Seq(Row) /\ result \in Result /\ row \in Row
      /\ updates \in Nat
      /\ loop \in {"top", "resolving", "stored", "capture"}
  BY DEF TypeOK
<1>i. /\ Hash(row) \in Int
      /\ \A i \in 1..Len(queue) : queue[i].dispatched.n \in Int
      /\ \A i \in 1..Len(csv) : Hash(csv[i]) \in Int
  <2>1. \A r \in Result : r.dispatched.n \in Int
    BY DEF Result, Actuators
  <2>2. \A r \in Row : Hash(r) \in Int
    BY <2>1 DEF Row, Hash
  <2>3. \A i \in 1..Len(queue) : queue[i] \in Result
    BY <1>t
  <2>4. \A i \in 1..Len(csv) : csv[i] \in Row
    BY <1>t
  <2>q. QED BY <1>t, <2>1, <2>2, <2>3, <2>4
<1>l. Captured \in Int
  BY <1>t DEF Captured
<1>1. CASE Boot
  <2>1. /\ loop' = "top" /\ queue' = << >> /\ writer' = "none" /\ csv' = csv
        /\ Captured <= Captured' /\ Captured' \in Int
    BY <1>1, <1>t DEF Boot, Fresh, fileVars, Captured
  <2>2. \A i \in 1..Len(csv) : Hash(csv[i]) <= Captured'
    <3>1. \A i \in 1..Len(csv) : Hash(csv[i]) <= Captured
      OBVIOUS
    <3>q. QED BY <1>i, <1>l, <2>1, <3>1
  <2>q. QED BY <2>1, <2>2 DEF Hash
<1>2. CASE SetBaseRoutingAuthority \/ StartLoggerServices \/ StopLoggerServices \/ Exit \/ Crash
  <2>1. /\ Captured' = Captured /\ queue' = queue /\ csv' = csv /\ row' = row /\ loop' = loop
        /\ result' = result /\ updates' = updates
        /\ writer' = "append" => writer = "append"
        /\ cache' = cache
    BY <1>2 DEF SetBaseRoutingAuthority, StartLoggerServices, StopLoggerServices, Exit, Crash,
                coreVars, loopVars, logVars, fileVars, Captured
  <2>q. QED BY <2>1 DEF Hash
<1>3. CASE ReadMode
  <2>1. Captured' = Captured
    BY <1>3 DEF ReadMode, Captured
  <2>q. QED BY <1>3, <2>1 DEF ReadMode, coreVars, logVars, fileVars, Hash
<1>4. CASE StoreActuators
  <2>1. Captured' = Captured
    BY <1>4, <1>t DEF StoreActuators, Captured
  <2>2. cache'.n = updates' /\ loop' = "stored"
    BY <1>4 DEF StoreActuators
  <2>q. QED BY <1>4, <2>1, <2>2 DEF StoreActuators, logVars, fileVars, Hash
<1>5. CASE ReturnResult
  <2>1. Captured' = Captured
    BY <1>5, <1>t DEF ReturnResult, Captured
  <2>2. result'.dispatched.n = updates' /\ loop' = "capture"
    BY <1>5 DEF ReturnResult
  <2>q. QED BY <1>5, <2>1, <2>2 DEF ReturnResult, coreVars, logVars, fileVars, Hash
<1>6. CASE CaptureFacilityStateSnapshot
  <2>1. /\ loop = "capture" /\ loop' = "top" /\ Captured = updates - 1 /\ Captured' = updates
        /\ csv' = csv /\ row' = row /\ writer' = writer /\ result.dispatched.n = updates
    BY <1>6, <1>t DEF CaptureFacilityStateSnapshot, Captured, coreVars, fileVars
  <2>4. /\ \A j \in 1..Len(queue) : queue[j].dispatched.n < updates /\ queue[j].dispatched.n <= updates
        /\ \A i \in 1..Len(csv) : Hash(csv[i]) < updates /\ Hash(csv[i]) <= updates
        /\ writer = "append" => Hash(row) < updates /\ Hash(row) <= updates
    <3>1. /\ \A j \in 1..Len(queue) : queue[j].dispatched.n <= updates - 1
          /\ \A i \in 1..Len(csv) : Hash(csv[i]) <= updates - 1
          /\ writer = "append" => Hash(row) <= updates - 1
      BY <2>1
    <3>q. QED BY <3>1, <1>t, <1>i
  <2>2. CASE queue' = queue
    <3>1. /\ \A j \in 1..Len(queue') : queue'[j].dispatched.n <= Captured'
          /\ \A i \in 1..Len(csv') : Hash(csv'[i]) <= Captured'
          /\ writer' = "append" => Hash(row') <= Captured'
      BY <1>t, <1>i, <2>1, <2>2, <2>4 DEF Hash
    <3>q. QED BY <2>1, <2>2, <3>1 DEF Hash
  <2>3. CASE queue' = Append(queue, result)
    <3>1. /\ Len(queue') = Len(queue) + 1 /\ Len(queue) \in Nat
          /\ \A i \in 1..Len(queue) : queue'[i] = queue[i]
          /\ queue'[Len(queue) + 1] = result
      BY <1>t, <2>3, AppendFacts
    <3>a. \A j \in 1..Len(queue') :
             \/ j = Len(queue) + 1 /\ queue'[j].dispatched.n = updates
             \/ j \in 1..Len(queue) /\ queue'[j] = queue[j]
      BY <2>1, <3>1
    <3>2. \A j \in 1..Len(queue') : queue'[j].dispatched.n <= Captured'
      <4>1. \A j \in 1..Len(queue) : queue[j].dispatched.n <= updates
        BY <2>4
      <4>2. Captured' = updates /\ updates <= updates
        BY <1>t, <2>1
      <4> HIDE DEF InOrder
      <4>q. QED BY <3>a, <4>1, <4>2
    <3>3. \A j \in 1..Len(queue') : \A i \in 1..j-1 : queue'[i].dispatched.n < queue'[j].dispatched.n
      <4> SUFFICES ASSUME NEW j \in 1..Len(queue'), NEW i \in 1..j-1
                   PROVE  queue'[i].dispatched.n < queue'[j].dispatched.n
        OBVIOUS
      <4>1. i \in 1..Len(queue) /\ queue'[i] = queue[i]
        BY <3>1
      <4>2. CASE j = Len(queue) + 1 /\ queue'[j].dispatched.n = updates
        BY <2>4, <4>1, <4>2
      <4>3. CASE j \in 1..Len(queue) /\ queue'[j] = queue[j]
        BY <4>1, <4>3
      <4>q. QED BY <3>a, <4>2, <4>3
    <3>4. \A i \in 1..Len(csv'), j \in 1..Len(queue') : Hash(csv'[i]) < queue'[j].dispatched.n
      BY <2>1, <2>4, <3>a
    <3>5. \A i \in 1..Len(csv') : Hash(csv'[i]) <= Captured'
      BY <1>t, <1>i, <2>1, <2>4
    <3>6. writer' = "append" =>
            /\ Hash(row') <= Captured'
            /\ \A i \in 1..Len(csv') : Hash(csv'[i]) < Hash(row')
            /\ \A j \in 1..Len(queue') : Hash(row') < queue'[j].dispatched.n
      <4>1. Hash(row') = Hash(row) /\ \A i \in 1..Len(csv') : Hash(csv'[i]) = Hash(csv[i])
        BY <2>1 DEF Hash
      <4>q. QED BY <1>t, <1>i, <2>1, <2>4, <3>a, <4>1
    <3>q. QED BY <2>1, <3>2, <3>3, <3>4, <3>5, <3>6 DEF Hash
  <2>q. QED BY <1>6, <2>2, <2>3 DEF CaptureFacilityStateSnapshot
<1>7. CASE Get
  <2>1. /\ queue # << >> /\ queue' = Tail(queue) /\ row'.data = Head(queue) /\ writer' = "append"
        /\ csv' = csv /\ Captured' = Captured /\ loop' = loop /\ result' = result
        /\ updates' = updates /\ cache' = cache
    BY <1>7 DEF Get, writerFrame, coreVars, loopVars, fileVars, Captured
  <2>2. /\ Len(queue) \in Nat \ {0} /\ Len(queue') = Len(queue) - 1
        /\ \A i \in 1..Len(queue') : queue'[i] = queue[i + 1] /\ i + 1 \in 1..Len(queue)
        /\ row'.data = queue[1] /\ 1 \in 1..Len(queue)
    BY <1>t, <2>1, TailFacts
  <2>3. Hash(row') = queue[1].dispatched.n
    BY <2>2 DEF Hash
  <2>4. \A j \in 1..Len(queue') : queue'[j].dispatched.n <= Captured'
    BY <2>1, <2>2
  <2>5. \A j \in 1..Len(queue') : \A i \in 1..j-1 : queue'[i].dispatched.n < queue'[j].dispatched.n
    <3> SUFFICES ASSUME NEW j \in 1..Len(queue'), NEW i \in 1..j-1
                 PROVE  queue'[i].dispatched.n < queue'[j].dispatched.n
      OBVIOUS
    <3>1. i \in 1..Len(queue') /\ i + 1 \in 1..(j+1)-1 /\ j + 1 \in 1..Len(queue)
      BY <2>2
    <3>2. queue[i + 1].dispatched.n < queue[j + 1].dispatched.n
      BY <3>1
    <3>q. QED BY <2>2, <3>1, <3>2
  <2>6. \A i \in 1..Len(csv'), j \in 1..Len(queue') : Hash(csv'[i]) < queue'[j].dispatched.n
    BY <2>1, <2>2
  <2>7. Hash(row') <= Captured' /\ \A i \in 1..Len(csv') : Hash(csv'[i]) < Hash(row')
    BY <2>1, <2>2, <2>3
  <2>8. \A j \in 1..Len(queue') : Hash(row') < queue'[j].dispatched.n
    BY <2>2, <2>3
  <2>q. QED BY <2>1, <2>4, <2>5, <2>6, <2>7, <2>8 DEF Hash
<1>8. CASE AppendRow
  <2>1. /\ csv' = Append(csv, row) /\ writer = "append" /\ writer' = "overwrite"
        /\ queue' = queue /\ Captured' = Captured /\ loop' = loop /\ result' = result
        /\ updates' = updates /\ cache' = cache
    BY <1>8 DEF AppendRow, writerFrame, coreVars, loopVars, Captured
  <2>2. /\ Len(csv') = Len(csv) + 1 /\ Len(csv) \in Nat
        /\ \A i \in 1..Len(csv) : csv'[i] = csv[i]
        /\ csv'[Len(csv) + 1] = row
    BY <1>t, <2>1, AppendFacts
  <2>3. \A i \in 1..Len(csv') : Hash(csv'[i]) <= Captured'
    BY <2>1, <2>2
  <2>4. \A i \in 1..Len(csv'), j \in 1..Len(queue') : Hash(csv'[i]) < queue'[j].dispatched.n
    BY <2>1, <2>2
  <2>q. QED BY <2>1, <2>3, <2>4 DEF Hash
<1>9. CASE \/ InitializeStoragePaths \/ MakeDirectoryFails \/ TruncateLiveState \/ DumpLiveState
           \/ FileFails \/ Wake \/ EndWriter
  <2>1. /\ Captured' = Captured /\ queue' = queue /\ csv' = csv /\ loop' = loop
        /\ result' = result /\ updates' = updates /\ cache' = cache /\ writer' # "append"
    BY <1>9 DEF InitializeStoragePaths, MakeDirectoryFails, TruncateLiveState, DumpLiveState,
                FileFails, Wake, EndWriter, writerFrame,
                coreVars, loopVars, fileVars, Captured
  <2>q. QED BY <2>1 DEF Hash
<1>10. CASE UNCHANGED vars
  BY <1>10 DEF vars, coreVars, loopVars, logVars, fileVars, Captured, Hash
<1>q. QED BY <1>1, <1>2, <1>3, <1>4, <1>5, <1>6, <1>7, <1>8, <1>9, <1>10
          DEF Next, LoopNext, WriterNext

-----------------------------------------------------------------------------
(* The chain.                                                              *)

\* The row appended is linked to the last of its process, or to nothing.
LEMMA AppendChains ==
    TypeOK /\ InOrder /\ CacheMatches /\ RunsStayChained /\ AppendRow
        => CacheMatches' /\ RunsStayChained'
<1> SUFFICES ASSUME TypeOK, InOrder, CacheMatches, RunsStayChained, AppendRow
             PROVE  CacheMatches' /\ RunsStayChained'
  OBVIOUS
<1> DEFINE n == Len(csv)
<1>1. /\ csv \in Seq(Row) /\ row \in Row /\ n \in Nat /\ run \in Nat
      /\ \A i \in 1..n : csv[i].run \in Int
  <2>1. csv \in Seq(Row) /\ row \in Row /\ n \in Nat /\ run \in Nat
    BY DEF TypeOK
  <2>2. \A i \in 1..n : csv[i] \in Row
    BY <2>1
  <2>q. QED BY <2>1, <2>2 DEF Row
<1>2. /\ csv' = Append(csv, row) /\ writer = "append" /\ writer' = "overwrite"
      /\ prevHash' = Hash(row) /\ row' = row /\ run' = run
  BY DEF AppendRow, writerFrame
<1>3. /\ Len(csv') = n + 1 /\ csv'[n + 1] = row
      /\ \A i \in 1..n : csv'[i] = csv[i]
  BY <1>1, <1>2, AppendFacts
<1>4. /\ row.prev = prevHash /\ row.run = run
      /\ \A i \in 1..n : csv[i].run <= run
      /\ \A i \in 1..n : \A j \in 1..i : csv[j].run <= csv[i].run
      /\ prevHash = IF LastIsMine THEN Hash(csv[n]) ELSE 0
  BY <1>2 DEF CacheMatches
<1>5. \A i \in 1..n : Hash(csv[i]) < Hash(row)
  BY <1>2 DEF InOrder
<1>6. CacheMatches'
  <2>1. Len(csv') > 0 /\ csv'[Len(csv')] = row'
    BY <1>1, <1>2, <1>3
  <2>2. LastIsMine' /\ prevHash' = Hash(csv'[Len(csv')])
    BY <1>2, <1>4, <2>1 DEF LastIsMine
  <2>3. \A i \in 1..Len(csv') : csv'[i].run <= run'
    BY <1>1, <1>2, <1>3, <1>4
  <2>4. \A i \in 1..Len(csv') : \A j \in 1..i : csv'[j].run <= csv'[i].run
    <3> SUFFICES ASSUME NEW i \in 1..Len(csv'), NEW j \in 1..i
                 PROVE  csv'[j].run <= csv'[i].run
      OBVIOUS
    <3>1. CASE i = n + 1
      BY <1>2, <1>3, <1>4, <2>3, <3>1
    <3>2. CASE i \in 1..n
      <4>1. j \in 1..n
        BY <1>1, <3>2
      <4>q. QED BY <1>3, <1>4, <3>2, <4>1
    <3>q. QED BY <1>1, <1>3, <3>1, <3>2
  <2>q. QED BY <1>2, <2>1, <2>2, <2>3, <2>4 DEF CacheMatches, Hash
<1>7. RunsStayChained'
  <2> DEFINE Earlier(s, i) == {j \in 1..i-1 : s[j].run = s[i].run}
  <2>1. \A i \in 1..n :
           /\ \A j \in 1..i-1 : Hash(csv[j]) < Hash(csv[i])
           /\ csv[i].prev = IF Earlier(csv, i) = {} THEN 0 ELSE Hash(csv[i-1])
    BY DEF RunsStayChained
  <2>2. ASSUME NEW i \in 1..Len(csv')
        PROVE  /\ \A j \in 1..i-1 : Hash(csv'[j]) < Hash(csv'[i])
               /\ csv'[i].prev = IF Earlier(csv', i) = {} THEN 0 ELSE Hash(csv'[i-1])
    <3>1. CASE i \in 1..n
      <4>1. csv'[i] = csv[i] /\ \A j \in 1..i-1 : csv'[j] = csv[j] /\ j \in 1..n
        BY <1>1, <1>3, <3>1
      <4>2. Earlier(csv', i) = Earlier(csv, i)
        BY <4>1
      <4>3. Earlier(csv, i) # {} => csv'[i-1] = csv[i-1]
        <5> SUFFICES ASSUME Earlier(csv, i) # {} PROVE csv'[i-1] = csv[i-1]
          OBVIOUS
        <5>1. i - 1 \in 1..i-1
          BY <1>1, <3>1
        <5>q. QED BY <4>1, <5>1
      <4> HIDE DEF Earlier
      <4>q. QED BY <2>1, <3>1, <4>1, <4>2, <4>3
    <3>2. CASE i = n + 1
      <4>1. csv'[i] = row /\ \A j \in 1..i-1 : csv'[j] = csv[j] /\ j \in 1..n
        BY <1>1, <1>3, <3>2
      <4>2. LastIsMine => n \in Earlier(csv', i)
        BY <1>1, <1>4, <3>2, <4>1 DEF LastIsMine
      <4>3. ~LastIsMine => Earlier(csv', i) = {}
        <5> SUFFICES ASSUME ~LastIsMine, NEW j \in Earlier(csv', i) PROVE FALSE
          OBVIOUS
        <5>1. j \in 1..n /\ csv[j].run = run
          BY <1>1, <1>4, <4>1
        <5>2. n \in 1..n /\ j \in 1..n /\ n > 0
          BY <1>1, <5>1
        <5>3. csv[j].run <= csv[n].run /\ csv[n].run <= run
          BY <1>4, <5>2
        <5>4. csv[n].run = run
          BY <1>1, <5>1, <5>2, <5>3
        <5>q. QED BY <5>2, <5>4 DEF LastIsMine
      <4>4. LastIsMine => csv'[i-1] = csv[n]
        BY <1>1, <3>2, <4>1 DEF LastIsMine
      <4>5. csv'[i].prev = IF Earlier(csv', i) = {} THEN 0 ELSE Hash(csv'[i-1])
        <5> HIDE DEF Earlier
        <5>1. CASE LastIsMine
          BY <1>4, <4>1, <4>2, <4>4, <5>1
        <5>2. CASE ~LastIsMine
          BY <1>4, <4>1, <4>3, <5>2
        <5>q. QED BY <5>1, <5>2
      <4>q. QED BY <1>5, <4>1, <4>5
    <3>q. QED BY <1>1, <1>3, <3>1, <3>2
  <2>q. QED BY <2>2 DEF RunsStayChained, Hash
<1>q. QED BY <1>6, <1>7

LEMMA ChainStep ==
    TypeOK /\ InOrder /\ CacheMatches /\ RunsStayChained /\ [Next]_vars
        => CacheMatches' /\ RunsStayChained'
<1> SUFFICES ASSUME TypeOK, InOrder, CacheMatches, RunsStayChained, [Next]_vars
             PROVE  CacheMatches' /\ RunsStayChained'
  OBVIOUS
<1>1. CASE AppendRow
  BY <1>1, AppendChains
<1>2. csv' = csv => RunsStayChained'
  BY DEF RunsStayChained, Hash
<1>3. CASE Boot
  <2>1. /\ csv' = csv /\ run' = run + 1 /\ prevHash' = 0 /\ writer' = "none"
    BY <1>3 DEF Boot, Fresh, fileVars
  <2>2. csv \in Seq(Row) /\ run \in Nat /\ \A i \in 1..Len(csv) : csv[i] \in Row
    BY DEF TypeOK
  <2>3. \A i \in 1..Len(csv) : csv[i].run < run' /\ csv[i].run <= run'
    BY <2>1, <2>2 DEF CacheMatches, Row
  <2>4. ~LastIsMine'
    BY <2>1, <2>2, <2>3 DEF LastIsMine, Row
  <2>5. CacheMatches'
    BY <2>1, <2>3, <2>4 DEF CacheMatches
  <2>q. QED BY <1>2, <2>1, <2>5
<1>4. CASE Get
  BY <1>2, <1>4 DEF Get, CacheMatches, LastIsMine, Hash, writerFrame, fileVars
<1>5. CASE SetBaseRoutingAuthority \/ LoopNext \/ StopLoggerServices \/ Exit \/ Crash
  <2>1. csv' = csv /\ run' = run /\ prevHash' = prevHash /\ writer' = writer /\ row' = row
    BY <1>5 DEF SetBaseRoutingAuthority, LoopNext, ReadMode, StoreActuators, ReturnResult,
                CaptureFacilityStateSnapshot, StopLoggerServices, Exit, Crash, logVars, fileVars
  <2>q. QED BY <1>2, <2>1 DEF CacheMatches, LastIsMine, Hash
<1>6. CASE \/ StartLoggerServices \/ InitializeStoragePaths \/ MakeDirectoryFails
           \/ DumpLiveState \/ FileFails \/ Wake \/ EndWriter
  <2>1. /\ csv' = csv /\ run' = run /\ prevHash' = prevHash /\ row' = row
        /\ writer' \notin {"append", "overwrite", "dump"}
    BY <1>6 DEF StartLoggerServices, InitializeStoragePaths, MakeDirectoryFails, DumpLiveState,
                FileFails, Wake, EndWriter,
                logVars, fileVars, writerFrame
  <2>q. QED BY <1>2, <2>1 DEF CacheMatches, LastIsMine, Hash
<1>7. CASE TruncateLiveState
  BY <1>2, <1>7 DEF TruncateLiveState, CacheMatches, LastIsMine, Hash, writerFrame
<1>8. CASE UNCHANGED vars
  BY <1>2, <1>8 DEF vars, logVars, fileVars, CacheMatches, LastIsMine, Hash
<1>q. QED BY <1>1, <1>3, <1>4, <1>5, <1>6, <1>7, <1>8 DEF Next, WriterNext

-----------------------------------------------------------------------------
(* The live state.                                                         *)

\* A readable live state keeps its row and its distance while neither file changes.
LEMMA LiveKept ==
    ASSUME TypeOK, LiveStateIsInLedger, csv' = csv, json' = json,
           failures' \in Int, run' \in Int,
           failures' + run' + (IF writer' = "overwrite" THEN 1 ELSE 0)
               >= failures + run + (IF writer = "overwrite" THEN 1 ELSE 0)
    PROVE  LiveStateIsInLedger'
<1> SUFFICES ASSUME ~json.torn
             PROVE  \E i \in 1..Len(csv) :
                        /\ csv[i] = json.row
                        /\ Len(csv) - i <= failures' + (run' - csv[i].run)
                                               + (IF writer' = "overwrite" THEN 1 ELSE 0)
  BY DEF LiveStateIsInLedger
<1>1. PICK i \in 1..Len(csv) :
          /\ csv[i] = json.row
          /\ Len(csv) - i <= failures + (run - csv[i].run) + (IF writer = "overwrite" THEN 1 ELSE 0)
  BY DEF LiveStateIsInLedger
<1>2. failures \in Int /\ run \in Int /\ csv[i].run \in Int /\ Len(csv) \in Int
  <2>1. csv \in Seq(Row) /\ failures \in Int /\ run \in Int
    BY DEF TypeOK
  <2>2. csv[i] \in Row
    BY <2>1
  <2>q. QED BY <2>1, <2>2 DEF Row
<1> DEFINE was == IF writer = "overwrite" THEN 1 ELSE 0
           is == IF writer' = "overwrite" THEN 1 ELSE 0
<1>3. was \in Int /\ is \in Int /\ failures' + run' + is >= failures + run + was
  OBVIOUS
<1>4. Len(csv) - i <= failures' + (run' - csv[i].run) + is
  <2>1. Len(csv) - i <= failures + (run - csv[i].run) + was
    BY <1>1
  <2>2. \A f, r, w, g, s, v, d, c \in Int :
            g + s + v >= f + r + w /\ d <= f + (r - c) + w => d <= g + (s - c) + v
    OBVIOUS
  <2>3. Len(csv) - i \in Int
    BY <1>2
  <2> HIDE DEF was, is
  <2>q. QED BY <1>2, <1>3, <2>1, <2>2, <2>3
<1>q. QED BY <1>1, <1>4

LEMMA LiveStep ==
    TypeOK /\ Stations /\ CacheMatches /\ LiveStateIsInLedger /\ [Next]_vars
        => LiveStateIsInLedger'
<1> SUFFICES ASSUME TypeOK, Stations, CacheMatches, LiveStateIsInLedger, [Next]_vars
             PROVE  LiveStateIsInLedger'
  OBVIOUS
<1>t. /\ failures \in Nat /\ run \in Nat /\ csv \in Seq(Row) /\ row \in Row
      /\ \A i \in 1..Len(csv) : csv[i] \in Row
  BY DEF TypeOK
<1>1. CASE Boot
  <2>1. csv' = csv /\ json' = json /\ failures' = failures /\ run' = run + 1
    BY <1>1 DEF Boot, fileVars
  <2>q. QED BY <1>t, <2>1, LiveKept
<1>2. CASE SetBaseRoutingAuthority \/ LoopNext \/ StopLoggerServices \/ Exit \/ Crash
  <2>1. csv' = csv /\ json' = json /\ failures' = failures /\ run' = run /\ writer' = writer
    BY <1>2 DEF SetBaseRoutingAuthority, LoopNext, ReadMode, StoreActuators, ReturnResult,
                CaptureFacilityStateSnapshot, StopLoggerServices, Exit, Crash, logVars, fileVars
  <2>q. QED BY <1>t, <2>1, LiveKept
<1>3. CASE \/ StartLoggerServices \/ InitializeStoragePaths \/ MakeDirectoryFails
           \/ Get \/ Wake \/ EndWriter
  <2>1. /\ csv' = csv /\ json' = json /\ failures' = failures /\ run' = run
        /\ writer # "overwrite" /\ writer' # "overwrite"
    BY <1>3 DEF StartLoggerServices, InitializeStoragePaths, MakeDirectoryFails, Get, Wake,
                EndWriter, Stations, writerFrame, fileVars
  <2>q. QED BY <1>t, <2>1, LiveKept
<1>4. CASE AppendRow
  <2>1. /\ csv' = Append(csv, row) /\ json' = json /\ failures' = failures /\ run' = run
        /\ writer = "append" /\ writer' = "overwrite"
    BY <1>4 DEF AppendRow, writerFrame
  <2>2. /\ Len(csv') = Len(csv) + 1 /\ Len(csv) \in Nat
        /\ \A i \in 1..Len(csv) : csv'[i] = csv[i]
    BY <1>t, <2>1, AppendFacts
  <2>3. SUFFICES ASSUME ~json.torn
                 PROVE  \E i \in 1..Len(csv') :
                            /\ csv'[i] = json.row
                            /\ Len(csv') - i <= failures + (run - csv'[i].run) + 1
    BY <2>1 DEF LiveStateIsInLedger
  <2>4. PICK i \in 1..Len(csv) :
            csv[i] = json.row /\ Len(csv) - i <= failures + (run - csv[i].run) + 0
    BY <2>1, <2>3 DEF LiveStateIsInLedger
  <2>5. csv[i].run \in Int
    BY <1>t DEF Row
  <2>q. QED BY <1>t, <2>2, <2>4, <2>5
<1>5. CASE TruncateLiveState
  BY <1>5 DEF TruncateLiveState, Torn, LiveStateIsInLedger
<1>6. CASE DumpLiveState
  <2>1. /\ csv' = csv /\ json'.row = row /\ failures' = failures /\ run' = run
        /\ writer = "dump" /\ writer' = "get"
    BY <1>6 DEF DumpLiveState, Whole, writerFrame
  <2>2. Len(csv) \in 1..Len(csv) /\ csv[Len(csv)] = row
    BY <1>t, <2>1 DEF CacheMatches
  <2>3. csv[Len(csv)].run <= run /\ csv[Len(csv)].run \in Int
    BY <1>t, <2>2 DEF CacheMatches, Row
  <2>4. Len(csv) - Len(csv) <= failures + (run - csv[Len(csv)].run) + 0
    BY <1>t, <2>2, <2>3
  <2>q. QED BY <2>1, <2>2, <2>4 DEF LiveStateIsInLedger
<1>7. CASE FileFails
  <2>1. csv' = csv /\ json' = json /\ failures' = failures + 1 /\ run' = run
    BY <1>7 DEF FileFails, writerFrame
  <2>q. QED BY <1>t, <2>1, LiveKept
<1>8. CASE UNCHANGED vars
  <2>1. csv' = csv /\ json' = json /\ failures' = failures /\ run' = run /\ writer' = writer
    BY <1>8 DEF vars, logVars, fileVars
  <2>q. QED BY <1>t, <2>1, LiveKept
<1>q. QED BY <1>1, <1>2, <1>3, <1>4, <1>5, <1>6, <1>7, <1>8 DEF Next, WriterNext

-----------------------------------------------------------------------------
(* The theorems.                                                           *)

LEMMA NextInv == IInv /\ [Next]_vars => IInv'
<1> SUFFICES ASSUME IInv, [Next]_vars PROVE IInv'
  OBVIOUS
<1>1. /\ TypeOK /\ Stations /\ OneSide /\ OneSourceOfAuthority
      /\ InOrder /\ CacheMatches /\ RunsStayChained /\ LiveStateIsInLedger
  BY DEF IInv
<1>2. TypeOK' /\ Stations'
  BY <1>1, TypeStep
<1>3. OneSide' /\ OneSourceOfAuthority'
  BY <1>1, SideStep
<1>4. InOrder'
  BY <1>1, OrderStep
<1>5. CacheMatches' /\ RunsStayChained'
  BY <1>1, ChainStep
<1>6. LiveStateIsInLedger'
  BY <1>1, LiveStep
<1>q. QED BY <1>2, <1>3, <1>4, <1>5, <1>6 DEF IInv

\* Single-source authority (execute_infrastructure_update_step): what the ledger and
\* its queue name as the side in charge is the side whose inputs were dispatched, and
\* a change of authority overtakes one update at most.
THEOREM AuthorityCorrect == Spec => []OneSourceOfAuthority
<1>1. IInv => OneSourceOfAuthority
  BY DEF IInv
<1>q. QED BY InitInv, NextInv, <1>1, PTL DEF Spec

\* The ledger file and the live-state file (_async_writer_loop): well typed, the rows
\* in order and linked to the last one of their process, the live state a row of the
\* ledger that only failures and ends of processes let grow old.
THEOREM FilesCorrect == Spec => []FilesAreSound
<1>1. IInv => FilesAreSound
  BY DEF IInv, FilesAreSound
<1>q. QED BY InitInv, NextInv, <1>1, PTL DEF Spec
-----------------------------------------------------------------------------
(* The ledger as a queue.                                                  *)

LEMMA ElementFact == ASSUME NEW S, NEW q \in Seq(S), NEW i \in 1..Len(q) PROVE q[i] \in S
OBVIOUS

LEMMA SequenceIsFunction == ASSUME NEW q \in Seq(Int) PROVE q = [i \in 1..Len(q) |-> q[i]]
OBVIOUS

LEMMA NumberFact == ASSUME NEW r \in Result PROVE r.dispatched.n \in Int
BY DEF Result, Actuators

LEMMA HashFact == ASSUME NEW r \in Row PROVE Hash(r) \in Int
BY NumberFact DEF Row, Hash

\* What waits is a sequence of numbers, the row in hand before the queue.
LEMMA WaitingFacts ==
    ASSUME TypeOK
    PROVE  /\ InHand \in Seq(Int) /\ Numbers(queue) \in Seq(Int)
           /\ Len(Numbers(queue)) = Len(queue)
           /\ Captured \in Int
<1>1. queue \in Seq(Result) /\ row \in Row /\ updates \in Int
  BY DEF TypeOK
<1>2. \A i \in 1..Len(queue) : queue[i].dispatched.n \in Int
  BY <1>1, ElementFact, NumberFact
<1>3. Hash(row) \in Int
  BY <1>1, HashFact
<1>4. Len(queue) \in Nat
  BY <1>1
<1>5. Numbers(queue) \in [1..Len(queue) -> Int]
  BY <1>2 DEF Numbers
<1>6. Numbers(queue) \in Seq(Int) /\ Len(Numbers(queue)) = Len(queue)
  BY <1>4, <1>5
<1>7. InHand \in Seq(Int)
  BY <1>3 DEF InHand
<1>q. QED BY <1>1, <1>6, <1>7 DEF Captured

\* A result at the end of a queue is its number at the end of the numbers.
LEMMA NumbersGrow ==
    ASSUME TypeOK, NEW r \in Result
    PROVE  Numbers(Append(queue, r)) = Append(Numbers(queue), r.dispatched.n)
<1>1. queue \in Seq(Result)
  BY DEF TypeOK
<1> DEFINE longer == Append(queue, r)
           grown == Append(Numbers(queue), r.dispatched.n)
<1>2. /\ longer \in Seq(Result) /\ Len(longer) = Len(queue) + 1
      /\ \A i \in 1..Len(queue) : longer[i] = queue[i]
      /\ longer[Len(queue) + 1] = r
  BY <1>1, AppendFacts
<1>3. r.dispatched.n \in Int
  BY DEF Result, Actuators
<1>4. /\ grown \in Seq(Int) /\ Len(grown) = Len(queue) + 1
      /\ \A i \in 1..Len(queue) : grown[i] = Numbers(queue)[i]
      /\ grown[Len(queue) + 1] = r.dispatched.n
  BY <1>3, WaitingFacts, AppendFacts
<1>5. \A i \in 1..Len(queue) : Numbers(queue)[i] = queue[i].dispatched.n
  BY DEF Numbers
<1> HIDE DEF longer, grown
<1>6. Len(queue) \in Nat
  BY <1>1
<1>7. \A i \in 1..Len(longer) : grown[i] = longer[i].dispatched.n
  BY <1>2, <1>4, <1>5, <1>6
<1>8. grown = [i \in 1..Len(grown) |-> grown[i]]
  BY <1>4, SequenceIsFunction
<1>9. grown = Numbers(longer)
  BY <1>2, <1>4, <1>7, <1>8 DEF Numbers
<1>q. QED BY <1>9 DEF longer, grown

\* The head of a queue and the rest of its numbers are its numbers.
LEMMA NumbersSplit ==
    ASSUME TypeOK, queue # << >>
    PROVE  Numbers(queue) = <<Head(queue).dispatched.n>> \o Numbers(Tail(queue))
<1>1. queue \in Seq(Result)
  BY DEF TypeOK
<1> DEFINE rest == Tail(queue)
           first == Head(queue).dispatched.n
<1>2. /\ rest \in Seq(Result) /\ Len(rest) = Len(queue) - 1 /\ Len(queue) \in Nat \ {0}
      /\ \A i \in 1..Len(rest) : rest[i] = queue[i + 1]
      /\ Head(queue) = queue[1] /\ Head(queue) \in Result
  BY <1>1, TailFacts
<1>3. first \in Int
  BY <1>2 DEF Result, Actuators
<1> HIDE DEF rest
<1>4. \A i \in 1..Len(rest) : rest[i].dispatched.n \in Int
  BY <1>2, ElementFact, NumberFact
<1>5. Numbers(rest) \in [1..Len(rest) -> Int] /\ Len(rest) \in Nat
  BY <1>2, <1>4 DEF Numbers
<1>6. Numbers(rest) \in Seq(Int) /\ Len(Numbers(rest)) = Len(rest)
  BY <1>5
<1> DEFINE both == <<first>> \o Numbers(rest)
<1>7. \A i \in 1..Len(rest) : Numbers(rest)[i] = rest[i].dispatched.n
  BY DEF Numbers
<1> HIDE DEF first
<1>8. /\ both \in Seq(Int) /\ Len(both) = Len(queue)
      /\ both[1] = first
      /\ \A i \in 2..Len(queue) : both[i] = Numbers(rest)[i - 1]
  BY <1>2, <1>3, <1>6
<1> HIDE DEF both
<1>9. \A i \in 1..Len(queue) : both[i] = queue[i].dispatched.n
  <2> SUFFICES ASSUME NEW i \in 1..Len(queue) PROVE both[i] = queue[i].dispatched.n
    OBVIOUS
  <2>1. CASE i = 1
    BY <1>2, <1>8, <2>1 DEF first
  <2>2. CASE i # 1
    <3>1. i \in 2..Len(queue) /\ i - 1 \in 1..Len(rest) /\ (i - 1) + 1 = i
      BY <1>2, <2>2
    <3>2. both[i] = rest[i - 1].dispatched.n /\ rest[i - 1] = queue[i]
      BY <1>2, <1>7, <1>8, <3>1
    <3>q. QED BY <3>2
  <2>q. QED BY <2>1, <2>2
<1>10. both = [i \in 1..Len(both) |-> both[i]]
  BY <1>8, SequenceIsFunction
<1>11. both = Numbers(queue)
  BY <1>8, <1>9, <1>10 DEF Numbers
<1>q. QED BY <1>11 DEF both, rest, first

\* The row appended is the oldest number waiting, at the end of the one volume.
LEMMA OldestIsStored ==
    ASSUME TypeOK, Running, AppendRow
    PROVE  Fifo!Store
<1>1. /\ writer = "append" /\ writer' = "overwrite" /\ csv' = Append(csv, row)
      /\ queue' = queue /\ Running' /\ Captured' = Captured
  BY DEF AppendRow, Running, Captured, writerFrame, loopVars
<1>2. /\ Numbers(queue) \in Seq(Int) /\ Hash(row) \in Int
      /\ Waiting = <<Hash(row)>> \o Numbers(queue)
  BY <1>1, WaitingFacts, HashFact DEF Waiting, InHand, TypeOK
<1>3. Waiting' = << >> \o Numbers(queue)
  BY <1>1 DEF Waiting, InHand
<1>4. Waiting # << >> /\ Head(Waiting) = Hash(row) /\ Waiting' = Tail(Waiting)
  BY <1>2, <1>3
<1> DEFINE old == [i \in 1..Len(csv) |-> Hash(csv[i])]
           new == [i \in 1..Len(csv') |-> Hash(csv'[i])]
<1>5. csv \in Seq(Row) /\ row \in Row
  BY DEF TypeOK
<1>6. /\ Len(csv') = Len(csv) + 1 /\ Len(csv) \in Nat
      /\ \A i \in 1..Len(csv) : csv'[i] = csv[i]
      /\ csv'[Len(csv) + 1] = row
  BY <1>1, <1>5, AppendFacts
<1>7. \A i \in 1..Len(csv) : Hash(csv[i]) \in Int
  BY <1>5, ElementFact, HashFact
<1>8. old \in [1..Len(csv) -> Int]
  BY <1>7
<1>9. \A i \in 1..Len(csv) : old[i] = Hash(csv[i])
  OBVIOUS
<1>10. \A i \in 1..Len(csv') : new[i] = Hash(csv'[i])
  OBVIOUS
<1>11. OnDisk = [v \in {1} |-> old] /\ OnDisk' = [v \in {1} |-> new]
  BY DEF OnDisk
<1>12. new = [i \in 1..Len(csv) + 1 |-> new[i]]
  BY <1>6
<1> HIDE DEF old, new
<1>13. old \in Seq(Int) /\ Len(old) = Len(csv)
  BY <1>6, <1>8
<1> DEFINE grown == Append(old, Hash(row))
<1>14. /\ grown \in Seq(Int) /\ Len(grown) = Len(csv) + 1
       /\ \A i \in 1..Len(csv) : grown[i] = old[i]
       /\ grown[Len(csv) + 1] = Hash(row)
  BY <1>2, <1>13, AppendFacts
<1>15. grown = [i \in 1..Len(grown) |-> grown[i]]
  BY <1>14, SequenceIsFunction
<1> HIDE DEF grown
<1>16. \A i \in 1..Len(csv) + 1 : new[i] = grown[i]
  BY <1>6, <1>9, <1>10, <1>14
<1>17. new = grown
  BY <1>12, <1>14, <1>15, <1>16
<1>18. OnDisk' = [OnDisk EXCEPT ![1] = Append(@, Head(Waiting))]
  BY <1>4, <1>11, <1>17 DEF grown
<1>19. Fifo!StoreOldest
  BY <1>4, <1>18 DEF Fifo!StoreOldest
<1>q. QED BY <1>1, <1>4, <1>19 DEF Fifo!Store

\* Every step of facility and logger is a step of the queue, or none.
LEMMA StepIsFifo ==
    ASSUME IInv, [Next]_vars
    PROVE  [Fifo!Next]_(Fifo!vars)
<1> USE DEF Fifo!vars, Running, coreVars, loopVars, logVars, fileVars, writerFrame
<1>0. /\ TypeOK /\ InOrder
      /\ queue \in Seq(Result) /\ result \in Result /\ updates \in Nat
      /\ InHand \in Seq(Int) /\ Numbers(queue) \in Seq(Int) /\ Captured \in Int
  BY WaitingFacts DEF IInv, TypeOK
<1>1. CASE Boot
  <2>1. Waiting = << >> /\ Waiting' = << >> /\ Captured' \in {Captured, Captured + 1}
    BY <1>0, <1>1 DEF Boot, Fresh, Waiting, InHand, Numbers, Captured
  <2>2. OnDisk' = OnDisk
    BY <1>1 DEF Boot, OnDisk
  <2>q. QED BY <2>1, <2>2 DEF Fifo!Next, Fifo!Take
<1>2. CASE SetBaseRoutingAuthority \/ ReadMode \/ ReturnResult \/ StopLoggerServices
  BY <1>2 DEF SetBaseRoutingAuthority, ReadMode, ReturnResult, StopLoggerServices,
              Waiting, InHand, Captured, OnDisk
<1>3. CASE StoreActuators
  BY <1>0, <1>3 DEF StoreActuators, Waiting, InHand, Captured, OnDisk
<1>4. CASE CaptureFacilityStateSnapshot
  <2>1. /\ Captured' = Captured + 1 /\ result.dispatched.n = Captured'
        /\ OnDisk' = OnDisk /\ InHand' = InHand
    BY <1>0, <1>4 DEF CaptureFacilityStateSnapshot, Captured, OnDisk, InHand, InOrder
  <2>2. Numbers(queue') \in {Numbers(queue), Append(Numbers(queue), Captured')}
    BY <1>0, <1>4, <2>1, NumbersGrow DEF CaptureFacilityStateSnapshot
  <2>3. InHand \o Append(Numbers(queue), Captured') = Append(InHand \o Numbers(queue), Captured')
    BY <1>0, <2>1
  <2>4. Waiting' \in {Waiting, Append(Waiting, Captured')}
    BY <1>4, <2>1, <2>2, <2>3 DEF CaptureFacilityStateSnapshot, Waiting
  <2>q. QED BY <2>1, <2>4 DEF Fifo!Next, Fifo!Take
<1>5. CASE StartLoggerServices
  <2>1. InHand' = InHand
    BY <1>5 DEF IInv, Stations, StartLoggerServices, InHand
  <2>q. QED BY <1>5, <2>1 DEF StartLoggerServices, Waiting, Captured, OnDisk
<1>6. CASE Exit \/ Crash
  <2>1. Waiting' = << >> /\ Captured' = Captured /\ OnDisk' = OnDisk
    BY <1>6 DEF Exit, Crash, Waiting, Captured, OnDisk
  <2>q. QED BY <2>1 DEF Fifo!Next, Fifo!LoseAll
<1>7. CASE Get
  <2>1. /\ queue # << >> /\ queue' = Tail(queue)
        /\ InHand = << >> /\ InHand' = <<Head(queue).dispatched.n>>
    BY <1>7 DEF Get, InHand, Hash
  <2>2. Numbers(queue) = InHand' \o Numbers(queue')
    BY <1>0, <2>1, NumbersSplit
  <2>3. InHand \o Numbers(queue) = Numbers(queue)
    BY <1>0, <2>1
  <2>4. Waiting' = Waiting
    BY <1>7, <2>2, <2>3 DEF Get, Waiting
  <2>q. QED BY <1>7, <2>4 DEF Get, Captured, OnDisk
<1>8. CASE AppendRow
  BY <1>0, <1>8, OldestIsStored DEF AppendRow, Fifo!Next
<1>9. CASE FileFails
  <2>1. Captured' = Captured /\ OnDisk' = OnDisk /\ queue' = queue
    BY <1>9 DEF FileFails, Captured, OnDisk
  <2>2. CASE writer = "append"
    <3>1. Waiting = <<Hash(row)>> \o Numbers(queue) /\ Waiting' = << >> \o Numbers(queue)
      BY <1>9, <2>1, <2>2 DEF FileFails, Waiting, InHand
    <3>2. Waiting # << >> /\ Waiting' = Tail(Waiting)
      BY <1>0, <2>2, <3>1 DEF InHand
    <3>q. QED BY <2>1, <3>2 DEF Fifo!Next, Fifo!Lose
  <2>3. CASE writer # "append"
    BY <1>9, <2>1, <2>3 DEF FileFails, Waiting, InHand
  <2>q. QED BY <2>2, <2>3
<1>10. CASE \/ InitializeStoragePaths \/ MakeDirectoryFails \/ TruncateLiveState \/ DumpLiveState
            \/ Wake \/ EndWriter \/ UNCHANGED vars
  BY <1>10 DEF InitializeStoragePaths, MakeDirectoryFails, TruncateLiveState, DumpLiveState,
               Wake, EndWriter, vars,
               Waiting, InHand, Captured, OnDisk
<1>q. QED
  BY <1>1, <1>2, <1>3, <1>4, <1>5, <1>6, <1>7, <1>8, <1>9, <1>10 DEF Next, LoopNext, WriterNext

\* The facility's ledger keeps the promise of the ship's: updates reach the file in the
\* order in which they were captured and at most once each, across full queues, failing
\* files, crashes and further processes (capture_facility_state_snapshot and
\* _io_writer_worker_loop).
THEOREM Refinement == Spec => ImplementsFifo
<1>1. Init => Fifo!Init
  BY DEF Init, Fifo!Init, Captured, Waiting, Running, OnDisk
<1>2. IInv /\ [Next]_vars => [Fifo!Next]_(Fifo!vars)
  BY StepIsFifo
<1>q. QED BY InitInv, NextInv, <1>1, <1>2, PTL DEF Spec, ImplementsFifo, Fifo!Spec
=============================================================================
