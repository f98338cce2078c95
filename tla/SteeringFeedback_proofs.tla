----------------------- MODULE SteeringFeedback_proofs -----------------------
(***************************************************************************)
(* Proofs about SteeringFeedback, for any angles, tolerance, jam time and  *)
(* number of outputs.                                                      *)
(***************************************************************************)
EXTENDS SteeringFeedback, TLAPS

\* Where the newest output is while main goes through its cycle.
OutputIsRouted ==
    /\ main \in {"boot", "top", "computing"} => commands = output /\ udpData = output
    /\ main = "routing" => commands = udpData /\ output.cycle = commands.cycle + 1
    /\ main = "updating" => commands = output /\ commands.cycle = udpData.cycle + 1

\* The socket is closed by the last step of stop, when the flag has been down; if the
\* thread is not gone then, it has one frame at most to send.
StopIsOrdered ==
    /\ main \in {"joining", "stopped"} => ~isRunning
    /\ ~sockOpen <=> main = "stopped"
    /\ sockOpen => refused = 0
    /\ main = "stopped" => tx = "ended" \/ timedOut
    /\ refused > 0 => timedOut
    /\ refused <= 1 /\ (tx = "copied" => refused = 0)

\* The clock counts the deviations at the end of the reports' history, and nothing
\* else has a say in whether there is a jam.
ClockCounts ==
    /\ errorTime <= Len(offs)
    /\ \A i \in 1..Len(offs) : i > Len(offs) - errorTime => offs[i]
    /\ errorTime < Len(offs) => ~offs[Len(offs) - errorTime]
    /\ status.jammed <=> errorTime = JamTime

IInv == TypeOK /\ OrdersFlowDown /\ OutputIsRouted /\ StopIsOrdered /\ ClockCounts

LEMMA InitIInv == Init => IInv
<1> SUFFICES ASSUME Init PROVE IInv
  OBVIOUS
<1> USE ConstantsAssumption DEF ConstantsAssumption, Init, NoOutput, NoFeedback, Dicts, Feedback, Output
<1>1. TypeOK
  <2>1. offs \in Seq(BOOLEAN) /\ Len(offs) <= JamTime
    OBVIOUS
  <2>2. cache \in [Dicts -> Feedback] /\ commands \in Output
    OBVIOUS
  <2>3. output \in Output /\ snapshot \in Feedback /\ udpData \in Output /\ txFrame \in Output
        /\ wire \in Output /\ errorTime \in 0..JamTime /\ bound \in Dicts /\ ordered \in Angles
    OBVIOUS
  <2>4. status \in [measured : Angles, active : BOOLEAN, jammed : BOOLEAN]
    OBVIOUS
  <2> QED BY <2>1, <2>2, <2>3, <2>4 DEF TypeOK
<1>2. OrdersFlowDown
  BY DEF OrdersFlowDown
<1>3. OutputIsRouted /\ StopIsOrdered
  BY DEF OutputIsRouted, StopIsOrdered
<1>4. ClockCounts
  BY DEF ClockCounts
<1> QED BY <1>1, <1>2, <1>3, <1>4 DEF IInv

-----------------------------------------------------------------------------
(* Type correctness.                                                       *)

\* The history of deviations keeps at most JamTime entries.
LEMMA OffsType ==
    ASSUME TypeOK, GoodReport
    PROVE  offs' \in Seq(BOOLEAN) /\ Len(offs') <= JamTime
<1>1. PICK measured \in Angles :
        offs' = LET all == Append(offs, Deviates(measured))
                IN  IF Len(all) > JamTime THEN Tail(all) ELSE all
  BY DEF GoodReport
<1> DEFINE all == Append(offs, Deviates(measured))
<1>2. Deviates(measured) \in BOOLEAN
  BY DEF Deviates
<1>3. offs \in Seq(BOOLEAN) /\ Len(offs) <= JamTime /\ JamTime \in Nat \ {0}
  BY ConstantsAssumption DEF ConstantsAssumption, TypeOK
<1>4. all \in Seq(BOOLEAN) /\ Len(all) = Len(offs) + 1 /\ all # << >>
  BY <1>2, <1>3
<1>5. Tail(all) \in Seq(BOOLEAN) /\ Len(Tail(all)) = Len(all) - 1
  BY <1>4
<1>6. offs' = IF Len(all) > JamTime THEN Tail(all) ELSE all
  BY <1>1
<1> HIDE DEF all
<1>7. CASE Len(all) > JamTime
  <2>1. offs' = Tail(all)
    BY <1>6, <1>7
  <2> QED BY <2>1, <1>3, <1>4, <1>5
<1>8. CASE ~(Len(all) > JamTime)
  <2>1. offs' = all
    BY <1>6, <1>8
  <2> QED BY <2>1, <1>3, <1>4, <1>8
<1> QED BY <1>7, <1>8

LEMMA TypeStep == TypeOK /\ [Next]_vars => TypeOK'
<1> SUFFICES ASSUME TypeOK, [Next]_vars PROVE TypeOK'
  OBVIOUS
<1> USE ConstantsAssumption DEF ConstantsAssumption, TypeOK, Output, Feedback, Dicts
<1> USE DEF routerVars, mainVars, feedVars, udpVars, history
<1>1. CASE IngestRawSerialLine
  BY <1>1 DEF IngestRawSerialLine
<1>2. CASE StartRouterServices
  BY <1>2 DEF StartRouterServices
<1>3. CASE GetSynchronizedTelemetry
  BY <1>3 DEF GetSynchronizedTelemetry
<1>4. CASE ExecuteBridgeLoop
  BY <1>4 DEF ExecuteBridgeLoop
<1>5. CASE RouteToRouter
  BY <1>5 DEF RouteToRouter
<1>6. CASE RouteToUdp
  BY <1>6 DEF RouteToUdp
<1>7. CASE StopInterface
  BY <1>7 DEF StopInterface
<1>8. CASE CloseInterface
  BY <1>8 DEF CloseInterface
<1>9. CASE ReadOrder
  BY <1>9 DEF ReadOrder
<1>10. CASE UnusableReport
  BY <1>10 DEF UnusableReport
<1>11. CASE GoodReport
  <2>1. offs' \in Seq(BOOLEAN) /\ Len(offs') <= JamTime
    BY <1>11, OffsType
  <2>2. errorTime' \in 0..JamTime
    BY <1>11 DEF GoodReport, Clock
  <2>3. status' \in [measured : Angles, active : BOOLEAN, jammed : BOOLEAN]
    BY <1>11 DEF GoodReport, Deviates
  <2> QED BY <1>11, <2>1, <2>2, <2>3 DEF GoodReport
<1>12. CASE StoreReport
  BY <1>12 DEF StoreReport
<1>13. CASE TxCopy
  BY <1>13 DEF TxCopy
<1>14. CASE TxSend
  BY <1>14 DEF TxSend
<1>15. CASE TxNothing
  BY <1>15 DEF TxNothing
<1>16. CASE TxEnds
  BY <1>16 DEF TxEnds
<1>17. CASE TxRefused
  BY <1>17 DEF TxRefused
<1>18. CASE UNCHANGED vars
  BY <1>18 DEF vars
<1> QED BY <1>1, <1>2, <1>3, <1>4, <1>5, <1>6, <1>7, <1>8, <1>9, <1>10, <1>11, <1>12,
           <1>13, <1>14, <1>15, <1>16, <1>17, <1>18 DEF Next

-----------------------------------------------------------------------------
(* The way of an output from main to the drive.                            *)

\* What these parts of the invariant speak of.
orderVars == <<commands, main, output, isRunning, udpData, sockOpen, tx, txFrame, wire,
               timedOut, refused>>

\* The actions of the serial listener and of the reader touch none of it.
LEMMA OthersLeaveOrders ==
    ASSUME IngestRawSerialLine \/ ReadOrder \/ UnusableReport \/ GoodReport \/ StoreReport
           \/ UNCHANGED vars
    PROVE  UNCHANGED orderVars
BY DEF IngestRawSerialLine, ReadOrder, UnusableReport, GoodReport, StoreReport, vars, orderVars,
       routerVars, mainVars, feedVars, udpVars, history

LEMMA OrderStep ==
    ASSUME TypeOK, OrdersFlowDown, OutputIsRouted, [Next]_vars
    PROVE  OrdersFlowDown' /\ OutputIsRouted'
<1> USE DEF OrdersFlowDown, OutputIsRouted, routerVars, mainVars, feedVars, udpVars
<1>0. /\ commands.cycle \in Nat /\ udpData.cycle \in Nat /\ output.cycle \in Nat
      /\ txFrame.cycle \in Nat /\ wire.cycle \in Nat
  BY ConstantsAssumption DEF ConstantsAssumption, TypeOK, Output
<1>1. CASE IngestRawSerialLine \/ ReadOrder \/ UnusableReport \/ GoodReport \/ StoreReport
           \/ UNCHANGED vars
  BY <1>1, OthersLeaveOrders DEF orderVars
<1>2. CASE StartRouterServices
  BY <1>2 DEF StartRouterServices
<1>3. CASE GetSynchronizedTelemetry
  BY <1>3 DEF GetSynchronizedTelemetry
<1>4. CASE ExecuteBridgeLoop
  <2>1. output'.cycle = output.cycle + 1
    BY <1>4 DEF ExecuteBridgeLoop
  <2> QED BY <1>4, <2>1 DEF ExecuteBridgeLoop
<1>5. CASE RouteToRouter
  <2>1. commands' = output /\ commands'.cycle = udpData.cycle + 1
    BY <1>5 DEF RouteToRouter
  <2>2. \A frame \in {udpData, txFrame, wire} : frame.cycle # commands'.cycle
    BY <1>0, <2>1
  <2> QED BY <1>0, <1>5, <2>1, <2>2 DEF RouteToRouter
<1>6. CASE RouteToUdp
  <2>1. udpData' = commands /\ udpData'.cycle = udpData.cycle + 1
    BY <1>6 DEF RouteToUdp
  <2> QED BY <1>0, <1>6, <2>1 DEF RouteToUdp
<1>7. CASE StopInterface
  BY <1>7 DEF StopInterface
<1>8. CASE CloseInterface
  BY <1>8 DEF CloseInterface
<1>9. CASE TxCopy
  BY <1>0, <1>9 DEF TxCopy
<1>10. CASE TxSend
  BY <1>0, <1>10 DEF TxSend
<1>11. CASE TxNothing \/ TxRefused
  BY <1>11 DEF TxNothing, TxRefused
<1>12. CASE TxEnds
  BY <1>12 DEF TxEnds
<1> QED BY <1>1, <1>2, <1>3, <1>4, <1>5, <1>6, <1>7, <1>8, <1>9, <1>10, <1>11, <1>12 DEF Next

LEMMA StopStep ==
    ASSUME TypeOK, StopIsOrdered, [Next]_vars
    PROVE  StopIsOrdered'
<1> USE DEF StopIsOrdered, TypeOK, routerVars, mainVars, feedVars, udpVars, history
<1>1. CASE IngestRawSerialLine \/ ReadOrder \/ UnusableReport \/ GoodReport \/ StoreReport
           \/ UNCHANGED vars
  BY <1>1, OthersLeaveOrders DEF orderVars
<1>2. CASE StartRouterServices
  BY <1>2 DEF StartRouterServices
<1>3. CASE GetSynchronizedTelemetry \/ ExecuteBridgeLoop \/ RouteToRouter \/ RouteToUdp
  BY <1>3 DEF GetSynchronizedTelemetry, ExecuteBridgeLoop, RouteToRouter, RouteToUdp
<1>4. CASE StopInterface
  BY <1>4 DEF StopInterface
<1>5. CASE CloseInterface
  <2>1. tx = "ended" \/ timedOut'
    BY <1>5, Zenon DEF CloseInterface
  <2>2. ~isRunning /\ refused = 0
    BY <1>5 DEF CloseInterface
  <2> QED BY <1>5, <2>1, <2>2 DEF CloseInterface
<1>6. CASE TxCopy \/ TxSend \/ TxNothing \/ TxRefused
  BY <1>6 DEF TxCopy, TxSend, TxNothing, TxRefused
<1>7. CASE TxEnds
  BY <1>7 DEF TxEnds
<1> QED BY <1>1, <1>2, <1>3, <1>4, <1>5, <1>6, <1>7 DEF Next

-----------------------------------------------------------------------------
(* The jam clock.                                                          *)

LEMMA ClockStep ==
    ASSUME TypeOK, ClockCounts, [Next]_vars
    PROVE  ClockCounts'
<1>1. CASE GoodReport
  <2>1. PICK measured \in Angles :
          LET elapsed == Clock(measured)
              jam     == Deviates(measured) /\ elapsed >= JamTime
          IN  /\ errorTime' = IF elapsed > JamTime THEN JamTime ELSE elapsed
              /\ status'.jammed = jam
              /\ offs' = LET all == Append(offs, Deviates(measured))
                         IN  IF Len(all) > JamTime THEN Tail(all) ELSE all
    BY <1>1 DEF GoodReport
  <2> DEFINE off == Deviates(measured)
  <2> DEFINE all == Append(offs, off)
  <2>2. off \in BOOLEAN /\ JamTime \in Nat \ {0} /\ offs \in Seq(BOOLEAN) /\ Len(offs) <= JamTime
        /\ errorTime \in 0..JamTime /\ Len(offs) \in Nat
    BY ConstantsAssumption DEF ConstantsAssumption, TypeOK, Deviates
  <2>3. /\ errorTime' = IF off THEN (IF errorTime = JamTime THEN JamTime ELSE errorTime + 1) ELSE 0
        /\ status'.jammed <=> off /\ errorTime + 1 >= JamTime
    <3>1. Clock(measured) = IF off THEN errorTime + 1 ELSE 0
      BY DEF Clock
    <3>2. errorTime' = IF Clock(measured) > JamTime THEN JamTime ELSE Clock(measured)
      BY <2>1
    <3>3. status'.jammed = (off /\ Clock(measured) >= JamTime)
      BY <2>1
    <3> HIDE DEF off
    <3>4. CASE off
      <4>1. Clock(measured) = errorTime + 1
        BY <3>1, <3>4
      <4>2. errorTime' = IF errorTime = JamTime THEN JamTime ELSE errorTime + 1
        BY <2>2, <3>2, <4>1
      <4>3. status'.jammed <=> errorTime + 1 >= JamTime
        BY <3>3, <3>4, <4>1, Zenon
      <4> QED BY <3>4, <4>2, <4>3
    <3>5. CASE ~off
      <4>1. Clock(measured) = 0
        BY <3>1, <3>5
      <4>2. errorTime' = 0
        BY <2>2, <3>2, <4>1
      <4>3. ~status'.jammed
        BY <3>3, <3>5, Zenon
      <4> QED BY <3>5, <4>2, <4>3
    <3> QED BY <3>4, <3>5
  <2>4. /\ Len(all) = Len(offs) + 1 /\ all[Len(offs) + 1] = off
        /\ \A i \in 1..Len(offs) : all[i] = offs[i]
    BY <2>2
  <2>5. offs' = IF Len(all) > JamTime THEN Tail(all) ELSE all
    BY <2>1
  <2>6. Len(Tail(all)) = Len(offs) /\ \A i \in 1..Len(offs) : Tail(all)[i] = all[i+1]
    BY <2>2, <2>4
  <2> HIDE DEF off, all
  <2>7. CASE Len(offs) < JamTime
    <3>1. offs' = all
      BY <2>2, <2>4, <2>5, <2>7
    <3>2. errorTime < JamTime
      BY <2>2, <2>7 DEF ClockCounts
    <3> QED BY <2>2, <2>3, <2>4, <2>7, <3>1, <3>2 DEF ClockCounts
  <2>8. CASE Len(offs) = JamTime
    <3>1. offs' = Tail(all)
      BY <2>2, <2>4, <2>5, <2>8
    <3>2. Len(offs') = JamTime /\ offs'[JamTime] = off
          /\ \A i \in 1..JamTime - 1 : offs'[i] = offs[i+1]
      BY <2>2, <2>4, <2>6, <2>8, <3>1
    <3> QED BY <2>2, <2>3, <2>8, <3>2 DEF ClockCounts
  <2> QED BY <2>2, <2>7, <2>8
<1>2. CASE ~GoodReport
  <2>1. UNCHANGED <<errorTime, offs, status>>
    BY <1>2 DEF Next, IngestRawSerialLine, StartRouterServices, GetSynchronizedTelemetry,
         ExecuteBridgeLoop, RouteToRouter, RouteToUdp, StopInterface, CloseInterface, ReadOrder,
         UnusableReport, StoreReport, TxCopy, TxSend, TxNothing, TxRefused, TxEnds, vars, feedVars, history
  <2> QED BY <2>1 DEF ClockCounts
<1> QED BY <1>1, <1>2

-----------------------------------------------------------------------------
(* The theorems.                                                           *)

THEOREM Invariance == Spec => []IInv
<1>1. IInv /\ [Next]_vars => IInv'
  BY TypeStep, OrderStep, StopStep, ClockStep DEF IInv
<1> QED BY InitIInv, <1>1, PTL DEF Spec

\* The UDP interface and the datagrams it sends follow the router's commands in
\* order, by at most one output, and never run ahead of them.
THEOREM OrdersCorrect == Spec => []OrdersFlowDown
<1>1. IInv => OrdersFlowDown
  BY DEF IInv
<1> QED BY Invariance, <1>1, PTL

\* The receiver declares a jam exactly when the last JamTime good reports, each
\* against the order of its time, all found the rudder off.
THEOREM JamCorrect == Spec => []JamNeedsTime
<1>1. IInv => JamNeedsTime
  <2> SUFFICES ASSUME IInv PROVE JamNeedsTime
    OBVIOUS
  <2>0. offs \in Seq(BOOLEAN) /\ DOMAIN offs = 1..Len(offs)
    BY DEF IInv, TypeOK
  <2>1. JamTime \in Nat /\ JamTime > 0 /\ Len(offs) \in Nat /\ Len(offs) <= JamTime
        /\ errorTime \in Nat /\ errorTime <= JamTime
    BY ConstantsAssumption DEF ConstantsAssumption, IInv, TypeOK
  <2>2. CASE errorTime = JamTime
    <3>1. Len(offs) = JamTime
      <4>1. errorTime <= Len(offs)
        BY DEF IInv, ClockCounts
      <4> QED BY <2>1, <2>2, <4>1
    <3>2. \A i \in DOMAIN offs : offs[i]
      BY <2>0, <2>1, <2>2, <3>1 DEF IInv, ClockCounts
    <3> QED BY <2>2, <3>1, <3>2 DEF IInv, ClockCounts, JamNeedsTime
  <2>3. CASE errorTime < JamTime
    <3>1. ASSUME Len(offs) = JamTime PROVE ~offs[JamTime - errorTime] /\ JamTime - errorTime \in DOMAIN offs
      BY <2>0, <2>1, <2>3, <3>1 DEF IInv, ClockCounts
    <3>2. ~status.jammed
      BY <2>1, <2>3 DEF IInv, ClockCounts
    <3> QED BY <3>1, <3>2 DEF JamNeedsTime
  <2> QED BY <2>1, <2>2, <2>3
<1> QED BY Invariance, <1>1, PTL

\* In every reachable state the variables keep to the values the code can give them,
\* and a datagram is sent to a closed socket only if stop_interface gave up waiting for
\* the transmitter, and then once: the loop is not entered again.
THEOREM StopCorrect == Spec => []Safety
<1>1. IInv => Safety
  BY DEF IInv, StopIsOrdered, ClosedAfterLastSend, Safety
<1> QED BY Invariance, <1>1, PTL

\* After the first sentence no step makes a stored hardware fault unknown.
THEOREM FaultSurvives == Spec => FaultSurvivesSentences
<1> DEFINE Kept == bound = "parser" /\ cache[bound].fault
                     => bound' = "parser" /\ cache'[bound'].fault
<1>1. TypeOK /\ [Next]_vars => [Kept]_<<bound, cache>>
  <2> SUFFICES ASSUME TypeOK, [Next]_vars, bound = "parser", cache[bound].fault
               PROVE  (bound' = "parser" /\ cache'[bound'].fault) \/ UNCHANGED <<bound, cache>>
    OBVIOUS
  <2>1. CASE IngestRawSerialLine
    BY <2>1 DEF IngestRawSerialLine
  <2>2. CASE StoreReport
    <3>1. cache \in [Dicts -> Feedback] /\ bound \in Dicts
      BY DEF TypeOK
    <3>2. cache'[bound] = [rudder |-> status.measured,
                           fault |-> cache[bound].fault \/ status.active]
      BY <2>2, <3>1 DEF StoreReport
    <3>3. cache'[bound].fault = (cache[bound].fault \/ status.active)
      BY <3>2
    <3>4. bound' = bound
      BY <2>2 DEF StoreReport
    <3> QED BY <3>3, <3>4
  <2>3. CASE ~IngestRawSerialLine /\ ~StoreReport
    BY <2>3 DEF Next, StartRouterServices, GetSynchronizedTelemetry, ExecuteBridgeLoop,
         RouteToRouter, RouteToUdp, StopInterface, CloseInterface, ReadOrder, UnusableReport,
         GoodReport, TxCopy, TxSend, TxNothing, TxRefused, TxEnds, vars, routerVars
  <2> QED BY <2>1, <2>2, <2>3
<1>2. TypeOK /\ [Next]_vars => [Kept]_<<bound, cache>>
  BY <1>1
<1>3. IInv => TypeOK
  BY DEF IInv
<1> QED BY Invariance, <1>2, <1>3, PTL DEF Spec, FaultSurvivesSentences
=============================================================================
