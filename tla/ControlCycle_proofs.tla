-------------------------- MODULE ControlCycle_proofs --------------------------
(***************************************************************************)
(* Proofs about ControlCycle, for any queue, any pace of the writer and    *)
(* any number of cycles: what reaches the wire, and when the queue fills.  *)
(***************************************************************************)
EXTENDS ControlCycle, FiniteSetTheorems, TLAPS

USE ConstantsAssumption DEF ConstantsAssumption

\* The place of an actuator in FrameOrder, and the number of a frame: how many were
\* put up to it since the start.
Index(d) == CASE d = "anchor" -> 1 [] d = "bilge" -> 2 [] d = "flag" -> 3
              [] d = "port" -> 4 [] d = "stbd" -> 5
Num(f) == 5 * (f.cycle - 1) + Index(f.dev)

\* Of n frames put, how many the writer is done with.
Done(n) == n - Len(txQueue) - Len(inHand)

\* n frames were put: where the loop stands, what is under way, what was written.
LoopAt(n) ==
    /\ 5 * (cycle - 1) <= n
    /\ loop = "top" => n = 5 * (cycle - 1)
    /\ loop = "put" => n = 5 * (cycle - 1) + next - 1 /\ next <= 5
    /\ loop \in {"dispatch", "sleep"} => n = 5 * cycle

UnderWay(n) ==
    /\ \A i \in 1..Len(txQueue) : Num(txQueue[i]) = n - Len(txQueue) + i
    /\ inHand # << >> => Num(inHand[1]) = n - Len(txQueue)
    /\ Done(n) >= 0

Written(n) ==
    /\ \A d \in Actuators : wire[d].dev = d /\ Num(wire[d]) <= Done(n)
    /\ ports = "none" => \A d \in Actuators : wire[d].cycle = 0
    /\ ~lost /\ ports = "open" => \A d \in {"port", "stbd"} : Done(n) < Num(wire[d]) + 5

Numbered == \E n \in 0..(5 * cycle) : LoopAt(n) /\ UnderWay(n) /\ Written(n)

\* A writer of full pace has got rid of what the cycle has put, but for what is under way.
PutThisCycle == IF loop = "top" THEN 0 ELSE IF loop = "put" THEN next - 1 ELSE 5
PaceKept ==
    pace >= 5 /\ QueueMax >= 5 =>
        /\ loop \notin {"shutdown", "over"} =>
            Len(txQueue) + Len(inHand) + written = PutThisCycle
        /\ ended # "Full"

PutRange == loop = "put" => next <= 5

IInv == TypeOK /\ PutRange /\ Numbered /\ PaceKept

-----------------------------------------------------------------------------
(* Frames and their numbers.                                               *)

LEMMA IndexFacts ==
    /\ \A d \in Actuators : Index(d) \in 1..5
    /\ \A d, e \in Actuators : Index(d) = Index(e) => d = e
    /\ \A i \in 1..5 : FrameOrder[i] \in Actuators /\ Index(FrameOrder[i]) = i
    /\ Len(FrameOrder) = 5
<1>1. /\ Index("anchor") = 1 /\ Index("bilge") = 2 /\ Index("flag") = 3
      /\ Index("port") = 4 /\ Index("stbd") = 5
  BY DEF Index
<1>2. /\ FrameOrder[1] = "anchor" /\ FrameOrder[2] = "bilge" /\ FrameOrder[3] = "flag"
      /\ FrameOrder[4] = "port" /\ FrameOrder[5] = "stbd" /\ Len(FrameOrder) = 5
  BY DEF FrameOrder
<1>3. \A i \in 1..5 : i = 1 \/ i = 2 \/ i = 3 \/ i = 4 \/ i = 5
  OBVIOUS
<1>q. QED BY <1>1, <1>2, <1>3 DEF Actuators

LEMMA FrameFacts ==
    ASSUME NEW f \in Frame
    PROVE  f.dev \in Actuators /\ f.cycle \in Nat /\ Index(f.dev) \in 1..5 /\ Num(f) \in Int
<1>1. f.dev \in Actuators /\ f.cycle \in Nat
  BY DEF Frame
<1>q. QED BY <1>1, IndexFacts DEF Num

\* Two frames for one actuator are as many puts apart as their cycles are rounds.
LEMMA SameDevice ==
    ASSUME NEW f \in Frame, NEW g \in Frame
    PROVE  /\ f.dev = g.dev => Num(f) - Num(g) = 5 * (f.cycle - g.cycle)
           /\ Num(f) = Num(g) + 5 => f.dev = g.dev
<1>1. Num(f) = 5 * (f.cycle - 1) + Index(f.dev) /\ Num(g) = 5 * (g.cycle - 1) + Index(g.dev)
  BY DEF Num
<1>2. Num(f) = Num(g) + 5 => Index(f.dev) = Index(g.dev)
  BY <1>1, FrameFacts
<1>q. QED BY <1>1, <1>2, FrameFacts, IndexFacts

LEMMA FiveActuators == Cardinality(Actuators) = 5
<1>1. IsFiniteSet({"anchor"}) /\ Cardinality({"anchor"}) = 1
  BY FS_Singleton
<1>2. IsFiniteSet({"anchor"} \cup {"bilge"}) /\ Cardinality({"anchor"} \cup {"bilge"}) = 2
  BY <1>1, FS_AddElement
<1>3. /\ IsFiniteSet({"anchor", "bilge"} \cup {"flag"})
      /\ Cardinality({"anchor", "bilge"} \cup {"flag"}) = 3
  <2>1. {"anchor"} \cup {"bilge"} = {"anchor", "bilge"} /\ "flag" \notin {"anchor", "bilge"}
    OBVIOUS
  <2>q. QED BY <1>2, <2>1, FS_AddElement
<1>4. /\ IsFiniteSet({"anchor", "bilge", "flag"} \cup {"port"})
      /\ Cardinality({"anchor", "bilge", "flag"} \cup {"port"}) = 4
  <2>1. /\ {"anchor", "bilge"} \cup {"flag"} = {"anchor", "bilge", "flag"}
        /\ "port" \notin {"anchor", "bilge", "flag"}
    OBVIOUS
  <2>q. QED BY <1>3, <2>1, FS_AddElement
<1>5. Cardinality({"anchor", "bilge", "flag", "port"} \cup {"stbd"}) = 5
  <2>1. /\ {"anchor", "bilge", "flag"} \cup {"port"} = {"anchor", "bilge", "flag", "port"}
        /\ "stbd" \notin {"anchor", "bilge", "flag", "port"}
    OBVIOUS
  <2>q. QED BY <1>4, <2>1, FS_AddElement
<1>6. {"anchor", "bilge", "flag", "port"} \cup {"stbd"} = Actuators
  BY DEF Actuators
<1>q. QED BY <1>5, <1>6

-----------------------------------------------------------------------------

LEMMA InitInv == Init => IInv
<1> SUFFICES ASSUME Init PROVE IInv
  OBVIOUS
<1> USE DEF Init
<1>1. TypeOK
  <2>1. \A d \in Actuators : NoFrame(d) \in Frame
    <3>1. FALSE \in BOOLEAN
      OBVIOUS
    <3>q. QED BY <3>1 DEF NoFrame, Frame
  <2>2. wire \in [Actuators -> Frame]
    BY <2>1
  <2>3. lost \in BOOLEAN
    BY Zenon
  <2>4. txQueue \in Seq(Frame) /\ Len(txQueue) = 0 /\ inHand \in Seq(Frame) /\ Len(inHand) = 0
    OBVIOUS
  <2>q. QED BY <2>2, <2>3, <2>4, IndexFacts DEF TypeOK
<1>2. Numbered
  <2>1. LoopAt(0) /\ UnderWay(0)
    BY DEF LoopAt, UnderWay, Done
  <2>2. \A d \in Actuators : wire[d].dev = d /\ wire[d].cycle = 0 /\ Num(wire[d]) = Index(d) - 5
    <3> SUFFICES ASSUME NEW d \in Actuators
                 PROVE  wire[d].dev = d /\ wire[d].cycle = 0 /\ Num(wire[d]) = Index(d) - 5
      OBVIOUS
    <3>1. wire[d].dev = d /\ wire[d].cycle = 0
      BY DEF NoFrame
    <3>2. Index(wire[d].dev) = Index(d)
      BY <3>1
    <3>3. Num(wire[d]) = 5 * (0 - 1) + Index(d)
      BY <3>1, <3>2 DEF Num
    <3>q. QED BY <3>1, <3>3, IndexFacts
  <2>3. Done(0) = 0 /\ {"port", "stbd"} \subseteq Actuators
    <3>1. Len(txQueue) = 0 /\ Len(inHand) = 0
      OBVIOUS
    <3>2. {"port", "stbd"} \subseteq Actuators
      BY DEF Actuators
    <3>3. Done(0) = 0 - 0 - 0
      BY <3>1, Zenon DEF Done
    <3>4. Done(0) = 0
      BY <3>3
    <3>q. QED BY <3>2, <3>4, Zenon
  <2>4. Written(0)
    <3>1. \A d \in Actuators : Index(d) \in 1..5
      BY IndexFacts
    <3>q. QED BY <2>2, <2>3, <3>1 DEF Written
  <2>5. 0 \in 0..(5 * cycle)
    OBVIOUS
  <2>q. QED BY <2>1, <2>4, <2>5 DEF Numbered
<1>3. PutRange /\ PaceKept
  BY DEF PutRange, PaceKept, PutThisCycle
<1>q. QED BY <1>1, <1>2, <1>3 DEF IInv

-----------------------------------------------------------------------------
(* Types.                                                                  *)

LEMMA AppendFacts ==
    ASSUME NEW S, NEW q \in Seq(S), NEW x \in S
    PROVE  /\ Append(q, x) \in Seq(S)
           /\ Len(Append(q, x)) = Len(q) + 1
           /\ \A i \in 1..Len(q) : Append(q, x)[i] = q[i]
           /\ Append(q, x)[Len(q) + 1] = x
OBVIOUS

LEMMA TailFacts ==
    ASSUME NEW S, NEW q \in Seq(S), q # << >>
    PROVE  /\ Tail(q) \in Seq(S)
           /\ Len(Tail(q)) = Len(q) - 1 /\ Len(q) \in Nat \ {0}
           /\ \A i \in 1..Len(Tail(q)) : Tail(q)[i] = q[i + 1]
           /\ Head(q) = q[1] /\ Head(q) \in S
OBVIOUS

LEMMA OneFrame ==
    ASSUME NEW S, NEW x \in S
    PROVE  <<x>> \in Seq(S) /\ Len(<<x>>) = 1 /\ <<x>>[1] = x /\ <<x>> # << >>
OBVIOUS

LEMMA NewFrameFacts ==
    ASSUME TypeOK, next \in 1..5
    PROVE  /\ NewFrame \in Frame
           /\ NewFrame.cycle = cycle /\ Num(NewFrame) = 5 * (cycle - 1) + next
<1>1. NewFrame.dev = FrameOrder[next] /\ NewFrame.cycle = cycle
  BY DEF NewFrame
<1>2. NewFrame \in Frame
  <2>1. (anchorState = "LOCKED_EMERGENCY") \in BOOLEAN
    OBVIOUS
  <2>2. FrameOrder[next] \in Actuators /\ cycle \in Nat
    BY IndexFacts DEF TypeOK
  <2>q. QED BY <2>1, <2>2 DEF NewFrame, Frame
<1>q. QED BY <1>1, <1>2, IndexFacts DEF Num

LEMMA TypeStep == TypeOK /\ PutRange /\ [Next]_vars => TypeOK' /\ PutRange'
<1> SUFFICES ASSUME TypeOK, PutRange, [Next]_vars PROVE TypeOK' /\ PutRange'
  OBVIOUS
<1> USE DEF TypeOK, PutRange, inputVars, lawVars, wireVars, txVars
<1>l. Len(FrameOrder) = 5
  BY IndexFacts
<1>1. CASE Ingest
  <2>1. gunState' \in {"quiet", "moving"} /\ anchorState' \in {"RELEASED", "LOCKED_EMERGENCY"}
    BY <1>1 DEF Ingest, IngestEncoder, AnchorAfter
  <2>q. QED BY <1>1, <1>l, <2>1 DEF Ingest, Raise
<1>2. CASE Put
  <2>1. next \in 1..5
    BY <1>2, <1>l DEF Put
  <2>2. txQueue' \in Seq(Frame) /\ Len(txQueue') <= QueueMax
    <3>1. NewFrame \in Frame
      BY <2>1, NewFrameFacts
    <3>2. /\ Append(txQueue, NewFrame) \in Seq(Frame)
          /\ Len(Append(txQueue, NewFrame)) = Len(txQueue) + 1
      BY <3>1, AppendFacts
    <3>3. CASE Len(txQueue) < QueueMax /\ txQueue' = Append(txQueue, NewFrame)
      BY <3>2, <3>3
    <3>4. CASE txQueue' = txQueue
      BY <3>4
    <3>q. QED BY <1>2, <3>3, <3>4 DEF Put
  <2>3. /\ next' \in 1..6 /\ loop' \in {"over", "dispatch", "put"} /\ (loop' = "put" => next' <= 5)
        /\ ended' \in {"NO", "KeyError", "SerialException", "AttributeError", "Full", "Interrupt"}
    BY <1>2, <1>l, <2>1 DEF Put, AfterPut, Raise
  <2>q. QED BY <1>2, <1>l, <2>2, <2>3 DEF Put
<1>3. CASE Dispatch
  BY <1>3 DEF Dispatch
<1>4. CASE NextCycle
  BY <1>4 DEF NextCycle
<1>5. CASE Interrupt
  BY <1>5 DEF Interrupt
<1>6. CASE Shutdown
  BY <1>6 DEF Shutdown, Raise
<1>7. CASE TxGet
  <2>1. txQueue' \in Seq(Frame) /\ Len(txQueue') <= QueueMax /\ Head(txQueue) \in Frame
    BY <1>7, TailFacts DEF TxGet
  <2>2. inHand' \in Seq(Frame) /\ Len(inHand') <= 1
    BY <1>7, <2>1, OneFrame DEF TxGet
  <2>q. QED BY <1>7, <2>1, <2>2 DEF TxGet
<1>8. CASE TxSkip
  BY <1>8 DEF TxSkip, Count
<1>9. CASE TxWrite
  <2>1. Head(inHand) \in Frame
    BY <1>9, TailFacts DEF TxWrite
  <2>2. wire' \in [Actuators -> Frame]
    BY <1>9, <2>1 DEF TxWrite
  <2>3. inHand' \in Seq(Frame) /\ Len(inHand') <= 1 /\ written' \in 0..pace
    BY <1>9 DEF TxWrite, Count
  <2>q. QED BY <1>9, <2>2, <2>3 DEF TxWrite
<1>10. CASE TxFail
  <2>1. lost' \in BOOLEAN
    BY <1>10 DEF TxFail
  <2>2. inHand' \in Seq(Frame) /\ Len(inHand') <= 1 /\ written' \in 0..pace
    BY <1>10 DEF TxFail, Count
  <2>q. QED BY <1>10, <2>1, <2>2 DEF TxFail
<1>11. CASE SerialLine \/ World
  BY <1>11 DEF SerialLine, World
<1>12. CASE UNCHANGED vars
  BY <1>12 DEF vars
<1>q. QED BY <1>1, <1>2, <1>3, <1>4, <1>5, <1>6, <1>7, <1>8, <1>9, <1>10, <1>11, <1>12
          DEF Next, Main, Tx

-----------------------------------------------------------------------------
(* What is under way and what was written.                                 *)

\* Whoever moves but Put and the writer leaves queue, hand and wire.
TxRests == UNCHANGED <<txQueue, inHand, wire, lost, ports>>

LEMMA RestKeeps ==
    ASSUME NEW n \in Nat, UnderWay(n), Written(n), TxRests
    PROVE  UnderWay(n)' /\ Written(n)'
BY DEF TxRests, UnderWay, Written, Done, Num

LEMMA LoopMoves ==
    ASSUME TypeOK, NEW n \in 0..(5 * cycle), LoopAt(n),
           Ingest \/ Dispatch \/ NextCycle \/ Interrupt \/ Shutdown
    PROVE  n \in 0..(5 * cycle') /\ LoopAt(n)' /\ TxRests
<1>t. cycle \in Nat
  BY DEF TypeOK
<1>1. TxRests
  BY DEF Ingest, Dispatch, NextCycle, Interrupt, Shutdown, TxRests, txVars, wireVars
<1>2. CASE NextCycle
  BY <1>1, <1>2, <1>t DEF NextCycle, LoopAt
<1>3. CASE Ingest
  BY <1>1, <1>3, <1>t DEF Ingest, LoopAt, Raise
<1>4. CASE Dispatch
  BY <1>1, <1>4, <1>t DEF Dispatch, LoopAt
<1>5. CASE Interrupt \/ Shutdown
  BY <1>1, <1>5, <1>t DEF Interrupt, Shutdown, LoopAt, Raise
<1>q. QED BY <1>2, <1>3, <1>4, <1>5

LEMMA PutStep ==
    ASSUME TypeOK, PutRange, Numbered, Put
    PROVE  Numbered'
<1> PICK n \in 0..(5 * cycle) : LoopAt(n) /\ UnderWay(n) /\ Written(n)
  BY DEF Numbered
<1>t. /\ cycle \in Nat /\ n \in Nat /\ txQueue \in Seq(Frame) /\ Len(inHand) \in Nat
      /\ Len(txQueue) \in Nat
  BY DEF TypeOK
<1>1. /\ loop = "put" /\ next \in 1..5 /\ n = 5 * (cycle - 1) + next - 1
      /\ cycle' = cycle /\ inHand' = inHand /\ wire' = wire /\ lost' = lost /\ ports' = ports
  BY IndexFacts DEF Put, TypeOK, PutRange, LoopAt, wireVars
<1>2. CASE Len(txQueue) < QueueMax /\ txQueue' = Append(txQueue, NewFrame) /\ AfterPut
  <2>1. NewFrame \in Frame /\ Num(NewFrame) = n + 1
    BY <1>1, <1>t, NewFrameFacts
  <2>2. /\ Len(txQueue') = Len(txQueue) + 1
        /\ \A i \in 1..Len(txQueue) : txQueue'[i] = txQueue[i]
        /\ txQueue'[Len(txQueue) + 1] = NewFrame
    BY <1>2, <1>t, <2>1, AppendFacts
  <2>3. UnderWay(n + 1)'
    <3>1. \A i \in 1..Len(txQueue') : Num(txQueue'[i]) = (n + 1) - Len(txQueue') + i
      <4> SUFFICES ASSUME NEW i \in 1..Len(txQueue')
                   PROVE  Num(txQueue'[i]) = (n + 1) - Len(txQueue') + i
        OBVIOUS
      <4>1. CASE i = Len(txQueue) + 1
        BY <1>t, <2>1, <2>2, <4>1
      <4>2. CASE i \in 1..Len(txQueue)
        BY <1>t, <2>2, <4>2 DEF UnderWay
      <4>q. QED BY <1>t, <2>2, <4>1, <4>2
    <3>2. inHand # << >> => Num(inHand[1]) = (n + 1) - Len(txQueue')
      BY <1>t, <2>2 DEF UnderWay
    <3>3. (n + 1) - Len(txQueue') - Len(inHand) = Done(n)
      BY <1>t, <2>2 DEF Done
    <3>q. QED BY <1>1, <3>1, <3>2, <3>3 DEF UnderWay, Done, Num
  <2>4. Written(n + 1)'
    <3>1. (n + 1) - Len(txQueue') - Len(inHand') = Done(n)
      BY <1>1, <1>t, <2>2 DEF Done
    <3>q. QED BY <1>1, <3>1 DEF Written, Done, Num
  <2>5. LoopAt(n + 1)' /\ n + 1 \in 0..(5 * cycle')
    BY <1>1, <1>2, <1>t, IndexFacts DEF LoopAt, AfterPut, Raise
  <2>q. QED BY <2>3, <2>4, <2>5 DEF Numbered
<1>3. CASE Raise("Full") /\ UNCHANGED <<txQueue, next>>
  <2>1. TxRests
    BY <1>1, <1>3 DEF TxRests
  <2>2. LoopAt(n)' /\ n \in 0..(5 * cycle')
    BY <1>1, <1>3 DEF LoopAt, Raise
  <2>q. QED BY <1>t, <2>1, <2>2, RestKeeps DEF Numbered
<1>q. QED BY <1>2, <1>3 DEF Put

LEMMA GetStep ==
    ASSUME TypeOK, Numbered, TxGet
    PROVE  Numbered'
<1> PICK n \in 0..(5 * cycle) : LoopAt(n) /\ UnderWay(n) /\ Written(n)
  BY DEF Numbered
<1>t. n \in Nat /\ txQueue \in Seq(Frame) /\ inHand = << >> /\ txQueue # << >>
  BY DEF TypeOK, TxGet
<1>1. /\ inHand' = <<Head(txQueue)>> /\ txQueue' = Tail(txQueue)
      /\ UNCHANGED <<loop, cycle, next, wire, lost, ports>>
  BY DEF TxGet, wireVars
<1>2. /\ Len(txQueue) \in Nat \ {0} /\ Len(txQueue') = Len(txQueue) - 1
      /\ \A i \in 1..Len(txQueue') : txQueue'[i] = txQueue[i + 1]
      /\ Len(inHand) = 0 /\ Len(inHand') = 1 /\ inHand'[1] = txQueue[1]
  BY <1>1, <1>t, TailFacts
<1>3. n - Len(txQueue') - Len(inHand') = Done(n)
  BY <1>2, <1>t DEF Done
<1>4. UnderWay(n)'
  <2>1. \A i \in 1..Len(txQueue') : Num(txQueue'[i]) = n - Len(txQueue') + i
    <3> SUFFICES ASSUME NEW i \in 1..Len(txQueue')
                 PROVE  Num(txQueue'[i]) = n - Len(txQueue') + i
      OBVIOUS
    <3>1. i + 1 \in 1..Len(txQueue) /\ txQueue'[i] = txQueue[i + 1]
      BY <1>2
    <3>2. Num(txQueue[i + 1]) = n - Len(txQueue) + (i + 1)
      BY <3>1 DEF UnderWay
    <3>q. QED BY <1>2, <1>t, <3>1, <3>2
  <2>2. Num(inHand'[1]) = n - Len(txQueue')
    <3>1. Num(txQueue[1]) = n - Len(txQueue) + 1
      BY <1>2 DEF UnderWay
    <3>q. QED BY <1>2, <1>t, <3>1
  <2>q. QED BY <1>3, <2>1, <2>2 DEF UnderWay, Done, Num
<1>5. Written(n)'
  BY <1>1, <1>3 DEF Written, Done, Num
<1>6. LoopAt(n)' /\ n \in 0..(5 * cycle')
  BY <1>1 DEF LoopAt
<1>q. QED BY <1>4, <1>5, <1>6 DEF Numbered

\* The writer is done with the frame in its hand, written, skipped or lost.
LEMMA HandEmptied ==
    ASSUME TypeOK, NEW n \in Nat, UnderWay(n), Written(n), inHand # << >>, inHand' = << >>,
           txQueue' = txQueue
    PROVE  /\ UnderWay(n)' /\ Done(n)' = Done(n) + 1
           /\ Head(inHand) \in Frame /\ Num(Head(inHand)) = Done(n) + 1 /\ Done(n) \in Int
           /\ \A d \in Actuators : wire[d] \in Frame /\ wire[d].dev = d /\ Num(wire[d]) \in Int
<1>1. /\ inHand \in Seq(Frame) /\ Len(inHand) <= 1 /\ txQueue \in Seq(Frame)
      /\ wire \in [Actuators -> Frame]
  BY DEF TypeOK
<1>2. Len(inHand) = 1 /\ Head(inHand) \in Frame /\ Head(inHand) = inHand[1] /\ Len(inHand') = 0
  <2>1. Head(inHand) \in Frame /\ Head(inHand) = inHand[1] /\ Len(inHand) \in Nat \ {0}
    BY <1>1, TailFacts
  <2>2. Len(inHand') = 0
    OBVIOUS
  <2>3. \A k \in Nat \ {0} : k <= 1 => k = 1
    OBVIOUS
  <2>4. Len(inHand) = 1
    BY <1>1, <2>1, <2>3, Zenon
  <2>q. QED BY <2>1, <2>2, <2>4, Zenon
<1>3. Done(n)' = Done(n) + 1 /\ Done(n) \in Int /\ Done(n) = n - Len(txQueue) - 1
  BY <1>1, <1>2 DEF Done
<1>4. Num(Head(inHand)) = Done(n) + 1
  BY <1>1, <1>2, <1>3 DEF UnderWay
<1>5. UnderWay(n)'
  <2>1. Done(n)' >= 0
    <3>1. Done(n) >= 0
      BY DEF UnderWay
    <3>q. QED BY <1>3, <3>1
  <2>q. QED BY <2>1 DEF UnderWay, Num
<1>6. \A d \in Actuators : wire[d] \in Frame /\ wire[d].dev = d /\ Num(wire[d]) \in Int
  BY <1>1, FrameFacts DEF Written
<1>q. QED BY <1>2, <1>3, <1>4, <1>5, <1>6

\* A fin whose frame is not the one in hand is not yet a round behind.
LEMMA OtherFin ==
    ASSUME TypeOK, NEW n \in Nat, UnderWay(n), Written(n), inHand # << >>, inHand' = << >>,
           txQueue' = txQueue, NEW d \in Actuators, d # Head(inHand).dev, Done(n) < Num(wire[d]) + 5
    PROVE  Done(n) + 1 < Num(wire[d]) + 5
<1>1. /\ Head(inHand) \in Frame /\ Num(Head(inHand)) = Done(n) + 1 /\ Done(n) \in Int
      /\ wire[d] \in Frame /\ wire[d].dev = d /\ Num(wire[d]) \in Int
  BY HandEmptied
<1>2. Num(Head(inHand)) # Num(wire[d]) + 5
  BY <1>1, SameDevice
<1>q. QED BY <1>1, <1>2

LEMMA HandStep ==
    ASSUME TypeOK, Numbered, TxSkip \/ TxWrite \/ TxFail
    PROVE  Numbered'
<1> PICK n \in 0..(5 * cycle) : LoopAt(n) /\ UnderWay(n) /\ Written(n)
  BY DEF Numbered
<1>1. /\ inHand # << >> /\ inHand' = << >> /\ txQueue' = txQueue
      /\ UNCHANGED <<loop, cycle, next, ports>>
  BY DEF TxSkip, TxWrite, TxFail, wireVars
<1>n. n \in Nat
  BY DEF TypeOK
<1>2. /\ UnderWay(n)' /\ Done(n)' = Done(n) + 1
      /\ Head(inHand) \in Frame /\ Num(Head(inHand)) = Done(n) + 1 /\ Done(n) \in Int
      /\ \A d \in Actuators : wire[d] \in Frame /\ wire[d].dev = d /\ Num(wire[d]) \in Int
  BY <1>1, <1>n, HandEmptied
<1>f. /\ {"port", "stbd"} \subseteq Actuators /\ Head(inHand).dev \in Actuators
      /\ wire \in [Actuators -> Frame] /\ lost \in BOOLEAN
  BY <1>2, FrameFacts DEF TypeOK, Actuators
<1>3. ASSUME NEW d \in Actuators, d # Head(inHand).dev, Done(n) < Num(wire[d]) + 5
      PROVE  Done(n) + 1 < Num(wire[d]) + 5
  BY <1>1, <1>n, <1>3, OtherFin
<1>4. Written(n)'
  <2>1. CASE TxSkip
    <3>1. wire' = wire /\ ports = "none"
      BY <2>1 DEF TxSkip, wireVars
    <3>2. \A d \in Actuators : wire'[d].dev = d /\ Num(wire'[d]) <= Done(n)' /\ wire'[d].cycle = 0
      BY <1>2, <3>1 DEF Written
    <3>q. QED BY <1>1, <3>1, <3>2 DEF Written, Num, Done
  <2>2. CASE TxWrite
    <3>1. /\ ports = "open" /\ lost' = lost
          /\ wire' = [wire EXCEPT ![Head(inHand).dev] = Head(inHand)]
      BY <2>2 DEF TxWrite
    <3>2. \A d \in Actuators : wire'[d] = IF d = Head(inHand).dev THEN Head(inHand) ELSE wire[d]
      BY <1>f, <3>1
    <3>3. ASSUME NEW d \in Actuators
          PROVE  wire'[d].dev = d /\ Num(wire'[d]) <= Done(n)'
      <4>1. CASE d = Head(inHand).dev
        BY <1>2, <3>2, <4>1
      <4>2. CASE d # Head(inHand).dev
        BY <1>2, <3>2, <4>2 DEF Written
      <4>q. QED BY <4>1, <4>2
    <3>4. ASSUME ~lost, NEW d \in {"port", "stbd"}
          PROVE  Done(n)' < Num(wire'[d]) + 5
      <4>1. CASE d = Head(inHand).dev
        BY <1>f, <1>2, <3>2, <4>1
      <4>2. CASE d # Head(inHand).dev
        <5>1. Done(n) < Num(wire[d]) + 5
          BY <3>1, <3>4 DEF Written
        <5>2. Done(n) + 1 < Num(wire[d]) + 5
          BY <1>f, <1>3, <4>2, <5>1
        <5>q. QED BY <1>f, <1>2, <3>2, <4>2, <5>2
      <4>q. QED BY <4>1, <4>2
    <3>q. QED BY <1>1, <3>1, <3>3, <3>4 DEF Written, Num, Done
  <2>3. CASE TxFail
    <3>1. /\ ports = "open" /\ wire' = wire
          /\ lost' = (lost \/ Head(inHand).dev \in {"port", "stbd"})
      BY <2>3 DEF TxFail
    <3>2. \A d \in Actuators : wire'[d].dev = d /\ Num(wire'[d]) <= Done(n)'
      BY <1>2, <3>1 DEF Written
    <3>3. ASSUME ~lost', NEW d \in {"port", "stbd"}
          PROVE  Done(n)' < Num(wire'[d]) + 5
      <4>1. ~lost /\ d # Head(inHand).dev
        BY <3>1, <3>3
      <4>2. Done(n) < Num(wire[d]) + 5
        BY <3>1, <4>1 DEF Written
      <4>q. QED BY <1>f, <1>2, <1>3, <3>1, <4>1, <4>2
    <3>q. QED BY <1>1, <3>1, <3>2, <3>3 DEF Written, Num, Done
  <2>q. QED BY <2>1, <2>2, <2>3
<1>5. LoopAt(n)' /\ n \in 0..(5 * cycle')
  BY <1>1 DEF LoopAt
<1>q. QED BY <1>2, <1>4, <1>5 DEF Numbered

LEMMA NumberedStep ==
    ASSUME TypeOK, PutRange, Numbered, [Next]_vars
    PROVE  Numbered'
<1> PICK n \in 0..(5 * cycle) : LoopAt(n) /\ UnderWay(n) /\ Written(n)
  BY DEF Numbered
<1>n. n \in Nat
  BY DEF TypeOK
<1>1. CASE Ingest \/ Dispatch \/ NextCycle \/ Interrupt \/ Shutdown
  BY <1>1, <1>n, LoopMoves, RestKeeps DEF Numbered
<1>2. CASE SerialLine \/ World \/ UNCHANGED vars
  <2>1. TxRests /\ UNCHANGED <<loop, cycle, next>>
    BY <1>2 DEF SerialLine, World, vars, TxRests, txVars, wireVars
  <2>2. LoopAt(n)' /\ n \in 0..(5 * cycle')
    BY <2>1 DEF LoopAt
  <2>q. QED BY <1>n, <2>1, <2>2, RestKeeps DEF Numbered
<1>q. QED BY <1>1, <1>2, PutStep, GetStep, HandStep DEF Next, Main, Tx

-----------------------------------------------------------------------------
(* The pace of the writer.                                                 *)

LEMMA PaceStep ==
    ASSUME TypeOK, PutRange, PaceKept, [Next]_vars, pace >= 5, QueueMax >= 5
    PROVE  /\ loop' \notin {"shutdown", "over"} =>
                Len(txQueue') + Len(inHand') + written' = PutThisCycle'
           /\ ended' # "Full"
<1>t. /\ Len(txQueue) \in Nat /\ Len(inHand) \in Nat /\ written \in Nat /\ pace \in Nat /\ next \in 1..6
      /\ txQueue \in Seq(Frame) /\ inHand \in Seq(Frame) /\ Len(inHand) <= 1
  BY IndexFacts DEF TypeOK
<1>p. /\ loop \notin {"shutdown", "over"} =>
            Len(txQueue) + Len(inHand) + written = PutThisCycle
      /\ ended # "Full"
  BY DEF PaceKept
<1>1. CASE Ingest
  <2>1. /\ loop = "top" /\ loop' \in {"put", "over"} /\ (loop' = "put" => next' = 1) /\ ended' # "Full"
        /\ txQueue' = txQueue /\ inHand' = inHand /\ written' = written
    BY <1>1, <1>p DEF Ingest, Raise, txVars
  <2>q. QED BY <1>p, <2>1 DEF PutThisCycle
<1>2. CASE Put
  <2>1. loop = "put" /\ next \in 1..5 /\ inHand' = inHand /\ written' = written
    BY <1>2, <1>t DEF Put, PutRange
  <2>2. Len(txQueue) + Len(inHand) + written = next - 1
    BY <1>p, <2>1 DEF PutThisCycle
  <2>3. Len(txQueue) < QueueMax
    BY <1>t, <2>1, <2>2
  <2>4. txQueue' = Append(txQueue, NewFrame) /\ AfterPut
    BY <1>2, <2>3, <1>t DEF Put
  <2>5. Len(txQueue') = Len(txQueue) + 1
    <3>1. NewFrame \in Frame
      BY <2>1, NewFrameFacts
    <3>q. QED BY <1>t, <2>4, <3>1, AppendFacts
  <2>6. /\ ended' # "Full"
        /\ \/ loop' = "over"
           \/ loop' = "put" /\ next' = next + 1
           \/ loop' = "dispatch" /\ next = 5
    BY <1>p, <2>4, IndexFacts DEF AfterPut, Raise
  <2>q. QED BY <1>t, <2>1, <2>2, <2>5, <2>6 DEF PutThisCycle
<1>3. CASE Dispatch \/ Interrupt \/ Shutdown \/ SerialLine \/ World \/ UNCHANGED vars
  <2>1. /\ txQueue' = txQueue /\ inHand' = inHand /\ written' = written
        /\ ended' # "Full"
        /\ loop' \notin {"shutdown", "over"} =>
            PutThisCycle' = PutThisCycle /\ loop \notin {"shutdown", "over"}
    BY <1>3, <1>p DEF Dispatch, Interrupt, Shutdown, SerialLine, World, vars, Raise, txVars, PutThisCycle
  <2>q. QED BY <1>p, <2>1
<1>4. CASE NextCycle
  <2>1. /\ loop = "sleep" /\ loop' = "top" /\ written' = 0 /\ txQueue' = txQueue /\ inHand' = inHand
        /\ ended' = ended /\ (written = pace \/ (txQueue = << >> /\ inHand = << >>))
    BY <1>4 DEF NextCycle
  <2>2. Len(txQueue) + Len(inHand) + written = 5
    BY <1>p, <2>1 DEF PutThisCycle
  <2>3. Len(txQueue) = 0 /\ Len(inHand) = 0
    <3>1. CASE written = pace
      BY <1>t, <2>2, <3>1
    <3>2. CASE txQueue = << >> /\ inHand = << >>
      BY <3>2
    <3>q. QED BY <2>1, <3>1, <3>2
  <2>q. QED BY <1>p, <2>1, <2>3 DEF PutThisCycle
<1>5. CASE TxGet
  <2>1. /\ inHand = << >> /\ txQueue # << >> /\ inHand' = <<Head(txQueue)>> /\ txQueue' = Tail(txQueue)
        /\ UNCHANGED <<loop, next, ended, written>>
    BY <1>5 DEF TxGet
  <2>2. Len(txQueue') = Len(txQueue) - 1 /\ Len(inHand) = 0 /\ Len(inHand') = 1
    BY <1>t, <2>1, TailFacts
  <2>q. QED BY <1>t, <1>p, <2>1, <2>2 DEF PutThisCycle
<1>6. CASE TxSkip \/ TxWrite \/ TxFail
  <2>1. /\ inHand # << >> /\ inHand' = << >> /\ txQueue' = txQueue /\ written' = Count(written)
        /\ UNCHANGED <<loop, next, ended>>
    BY <1>6 DEF TxSkip, TxWrite, TxFail
  <2>2. Len(inHand) = 1 /\ Len(inHand') = 0
    <3>1. Len(inHand) \in Nat \ {0}
      BY <1>t, <2>1, TailFacts
    <3>2. \A k \in Nat \ {0} : k <= 1 => k = 1
      OBVIOUS
    <3>3. Len(inHand) = 1
      BY <1>t, <3>1, <3>2, Zenon
    <3>4. Len(inHand') = 0
      BY <2>1
    <3>q. QED BY <3>3, <3>4, Zenon
  <2>3. loop \notin {"shutdown", "over"} => PutThisCycle <= 5
    BY <1>t DEF PutThisCycle, PutRange
  <2>4. loop \notin {"shutdown", "over"} => written' = written + 1
    <3>1. loop \notin {"shutdown", "over"} => written <= 4
      BY <1>t, <1>p, <2>2, <2>3 DEF PutThisCycle
    <3>q. QED BY <1>t, <2>1, <3>1 DEF Count
  <2>q. QED BY <1>t, <1>p, <2>1, <2>2, <2>4 DEF PutThisCycle
<1>q. QED BY <1>1, <1>2, <1>3, <1>4, <1>5, <1>6 DEF Next, Main, Tx

-----------------------------------------------------------------------------
(* The theorems.                                                           *)

LEMMA NextInv == IInv /\ [Next]_vars => IInv'
<1> SUFFICES ASSUME IInv, [Next]_vars PROVE IInv'
  OBVIOUS
<1>1. TypeOK /\ PutRange /\ Numbered /\ PaceKept
  BY DEF IInv
<1>2. TypeOK' /\ PutRange'
  BY <1>1, TypeStep
<1>3. Numbered'
  BY <1>1, NumberedStep
<1>4. PaceKept'
  <2>1. pace' = pace
    BY DEF Next, Main, Tx, Ingest, Put, Dispatch, NextCycle, Interrupt, Shutdown, TxGet, TxSkip, TxWrite,
           TxFail, SerialLine, World, vars, txVars, wireVars
  <2>q. QED BY <1>1, <2>1, PaceStep DEF PaceKept
<1>q. QED BY <1>2, <1>3, <1>4 DEF IInv

\* Every reachable state of the loop and the writer is well typed; in particular the
\* queue never exceeds its size.
THEOREM TypeCorrect == Spec => []TypeOK
<1>1. IInv => TypeOK
  BY DEF IInv
<1>q. QED BY InitInv, NextInv, <1>1, PTL DEF Spec

\* tx_serial_worker: no actuator receives a command older than one it has received, nor
\* one that is more than a queue of cycles old.
THEOREM WireCorrect == Spec => WireAdvances
<1>1. IInv /\ [Next]_vars =>
          [\A d \in Actuators : wire'[d] # wire[d] =>
              /\ wire'[d].cycle > wire[d].cycle
              /\ cycle - wire'[d].cycle <= StaleBound]_vars
  <2> SUFFICES ASSUME IInv, Next, NEW d \in Actuators, wire'[d] # wire[d]
               PROVE  wire'[d].cycle > wire[d].cycle /\ cycle - wire'[d].cycle <= StaleBound
    OBVIOUS
  <2>1. TypeOK /\ Numbered
    BY DEF IInv
  <2>2. TxWrite
    BY DEF Next, Main, Tx, Ingest, Put, Dispatch, NextCycle, Interrupt, Shutdown, TxGet, TxSkip,
           TxFail, SerialLine, World, txVars, wireVars
  <2> PICK n \in 0..(5 * cycle) : LoopAt(n) /\ UnderWay(n) /\ Written(n)
    BY <2>1 DEF Numbered
  <2>n. /\ n \in Nat /\ cycle \in Nat /\ Len(txQueue) \in Nat /\ Len(txQueue) <= QueueMax
        /\ wire \in [Actuators -> Frame] /\ QueueMax \in Nat
    BY <2>1 DEF TypeOK
  <2> DEFINE f == Head(inHand)
  <2>3. wire' = [wire EXCEPT ![f.dev] = f] /\ inHand # << >> /\ inHand' = << >> /\ txQueue' = txQueue
    BY <2>2 DEF TxWrite
  <2>4. /\ f \in Frame /\ Num(f) = Done(n) + 1 /\ Done(n) \in Int
        /\ wire[d] \in Frame /\ wire[d].dev = d
    BY <2>1, <2>3, <2>n, HandEmptied
  <2>5. f.dev = d /\ wire'[d] = f
    BY <2>3, <2>n
  <2>6. Num(wire[d]) <= Done(n) /\ Num(wire[d]) \in Int
    BY <2>4, FrameFacts DEF Written
  <2>7. Num(f) - Num(wire[d]) = 5 * (f.cycle - wire[d].cycle)
    BY <2>4, <2>5, SameDevice
  <2>8. f.cycle \in Nat /\ wire[d].cycle \in Nat /\ Index(f.dev) \in 1..5
    BY <2>4, FrameFacts
  <2>9. f.cycle > wire[d].cycle
    <3>1. Num(f) - Num(wire[d]) > 0
      BY <2>4, <2>6
    <3>q. QED BY <2>7, <2>8, <3>1
  <2>10. 5 * (cycle - f.cycle) <= QueueMax + 5
    <3>1. Num(f) = n - Len(txQueue)
      <4>1. f = inHand[1]
        BY <2>1, <2>3, TailFacts DEF TypeOK
      <4>q. QED BY <2>3, <4>1 DEF UnderWay
    <3>2. 5 * (cycle - 1) <= n
      BY DEF LoopAt
    <3>3. Num(f) = 5 * (f.cycle - 1) + Index(f.dev)
      BY DEF Num
    <3>4. \A c, k, m, len, max \in Nat, i \in 1..5 :
              m - len = 5 * (k - 1) + i /\ 5 * (c - 1) <= m /\ len <= max
                  => 5 * (c - k) <= max + 5
      OBVIOUS
    <3>5. n - Len(txQueue) = 5 * (f.cycle - 1) + Index(f.dev)
      BY <3>1, <3>3
    <3> HIDE DEF f
    <3>q. QED BY <2>8, <2>n, <3>2, <3>4, <3>5
  <2>11. cycle - f.cycle <= StaleBound
    <3>1. StaleBound = QueueMax \div 5 + 1
      BY IndexFacts DEF StaleBound
    <3>2. \A a \in Int, q \in Nat : 5 * a <= q + 5 => a <= q \div 5 + 1
      OBVIOUS
    <3>3. cycle - f.cycle \in Int
      BY <2>8, <2>n
    <3> HIDE DEF f
    <3>q. QED BY <2>10, <2>n, <3>1, <3>2, <3>3
  <2>q. QED BY <2>5, <2>9, <2>11
<1>q. QED BY InitInv, NextInv, <1>1, PTL DEF Spec, WireAdvances

\* The fins: unless a write to one of them failed, port is at the cycle of starboard or
\* one ahead.
THEOREM FinsCorrect == Spec => []FinsInStep
<1>1. IInv => FinsInStep
  <2> SUFFICES ASSUME IInv, ~lost
               PROVE  wire["port"].cycle - wire["stbd"].cycle \in {0, 1}
    BY DEF FinsInStep
  <2>1. TypeOK /\ Numbered
    BY DEF IInv
  <2> PICK n \in 0..(5 * cycle) : UnderWay(n) /\ Written(n)
    BY <2>1 DEF Numbered
  <2>2. "port" \in Actuators /\ "stbd" \in Actuators
    BY DEF Actuators
  <2>3. CASE ports = "none"
    BY <2>2, <2>3 DEF Written
  <2>4. CASE ports = "open"
    <3>1. /\ wire["port"].cycle \in Nat /\ wire["stbd"].cycle \in Nat
          /\ wire["port"].dev = "port" /\ wire["stbd"].dev = "stbd"
      BY <2>1, <2>2, FrameFacts DEF TypeOK, Written
    <3>2. Index("port") = 4 /\ Index("stbd") = 5
      BY DEF Index
    <3>3. /\ Num(wire["port"]) = 5 * (wire["port"].cycle - 1) + 4
          /\ Num(wire["stbd"]) = 5 * (wire["stbd"].cycle - 1) + 5
      BY <3>1, <3>2 DEF Num
    <3>4. /\ Num(wire["port"]) <= Done(n) /\ Done(n) < Num(wire["port"]) + 5
          /\ Num(wire["stbd"]) <= Done(n) /\ Done(n) < Num(wire["stbd"]) + 5
      BY <2>2, <2>4 DEF Written
    <3>5. Done(n) \in Int
      BY <2>1 DEF Done, TypeOK
    <3>q. QED BY <3>1, <3>3, <3>4, <3>5
  <2>q. QED BY <2>1, <2>3, <2>4 DEF TypeOK
<1>q. QED BY InitInv, NextInv, <1>1, PTL DEF Spec

\* A writer that keeps the pace of the loop: with room for the frames of one cycle, no
\* put_nowait raises queue.Full.
THEOREM PaceCorrect ==
    ASSUME QueueMax >= Cardinality(Actuators)
    PROVE  Spec => []FastWireKeepsUp
<1>1. IInv => FastWireKeepsUp
  BY FiveActuators DEF IInv, PaceKept, FastWireKeepsUp
<1>q. QED BY InitInv, NextInv, <1>1, PTL DEF Spec
=============================================================================
