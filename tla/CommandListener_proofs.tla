----------------------- MODULE CommandListener_proofs -----------------------
(***************************************************************************)
(* Proofs about CommandListener, for any set of clients and any number of  *)
(* lines: its invariants, and that it implements SetpointRegister.         *)
(***************************************************************************)
EXTENDS CommandListener, TLAPS

\* The positions in a client's stream: processed, delivered, sent.
StreamOrdered ==
    \A c \in Clients :
        /\ Len(sent[c]) <= MaxLines
        /\ taken[c] <= received[c] /\ received[c] <= Len(sent[c])
        /\ handler[c] \in {"rpm", "yaw"} => taken[c] >= 1

\* data_lock is held between the two assignments of a command, and only then; a
\* free lock means that both setpoints stem from the same command.
LockGuards ==
    /\ \A c \in Clients : handler[c] = "yaw" <=> lock = c
    /\ \A c \in Clients : handler[c] = "yaw" => rpm = <<c, taken[c]>>
    /\ lock = "free" => rpm = yaw

\* An open connection is known to active_connections from before its handler
\* starts, and a server that stops accepts no other.
OpenIsActive ==
    /\ \A c \in Clients : handler[c] \notin {"none", "ended"} => closed[c] \/ c \in active
    /\ \A c \in Clients : handler[c] = "remove" => closed[c]
    /\ accepter = "adding" => accepted \in Clients
    /\ stopper # "out" => ~isRunning
    /\ isRunning \/ stopper # "out" => accepter # "off"
    /\ stopper = "stopped" => accepter = "ended"

\* A connection that accept() has not returned, or that is not yet in the list,
\* has no handler.
Newcomers ==
    /\ \A c \in Clients : peer[c] \in {"away", "queued"} => handler[c] = "none"
    /\ accepter = "adding" => handler[accepted] = "none" /\ peer[accepted] \in {"here", "gone"}

\* A client that has read every answer in full has got one for each line that was
\* taken, but for the one the handler is busy with or has died of.
Paired(c) ==
    ~Cut(c, Len(answers[c])) =>
        /\ Len(answers[c]) <= taken[c]
        /\ handler[c] \in {"none", "start", "recv", "line"} => Len(answers[c]) = taken[c]
        /\ handler[c] \in {"rpm", "yaw", "accept", "refuse"} => Len(answers[c]) + 1 = taken[c]
        /\ handler[c] \in {"rpm", "yaw", "accept"} => Verdict(sent[c][taken[c]]) = "OK"
        /\ handler[c] = "refuse" => Verdict(sent[c][taken[c]]) = "ERROR"

\* AnswersMatchLines for one client.
Matched(c) ==
    \A n \in 1..Len(answers[c]) :
        ~Cut(c, n) => n <= Len(sent[c]) /\ answers[c][n] = Verdict(sent[c][n])

Answered == \A c \in Clients : Paired(c) /\ Matched(c)

IInv ==
    /\ TypeOK /\ StreamOrdered /\ LockGuards /\ OpenIsActive
    /\ SnapshotIsOneCommand /\ StopClosesAll /\ Newcomers /\ Answered

LEMMA InitIInv == Init => IInv
<1> SUFFICES ASSUME Init PROVE IInv
  OBVIOUS
<1>1. <<>> \in Seq(Lines) /\ <<>> \in Seq({"OK", "ERROR", "CUT"}) /\ Len(<<>>) = 0
  OBVIOUS
<1>2. TypeOK
  <2>1. /\ sent \in [Clients -> Seq(Lines)] /\ answers \in [Clients -> Seq({"OK", "ERROR", "CUT"})]
    BY <1>1 DEF Init
  <2>2. received \in [Clients -> 0..MaxLines] /\ taken \in [Clients -> 0..MaxLines]
    BY ConstantsAssumption DEF Init
  <2>3. handler \in [Clients -> HandlerStates]
    BY DEF Init, HandlerStates
  <2>4. rpm \in Commands /\ yaw \in Commands /\ snapshot \in [rpm : Commands, yaw : Commands]
    BY DEF Init, Commands
  <2> QED
    BY <2>1, <2>2, <2>3, <2>4 DEF Init, TypeOK
<1>3. StreamOrdered
  BY <1>1, ConstantsAssumption DEF Init, StreamOrdered
<1>4. LockGuards /\ OpenIsActive /\ SnapshotIsOneCommand /\ StopClosesAll
  BY ConstantsAssumption
     DEF Init, LockGuards, OpenIsActive, SnapshotIsOneCommand, StopClosesAll
<1>5. Newcomers /\ Answered
  BY <1>1 DEF Init, Newcomers, Answered, Paired, Matched
<1> QED
  BY <1>2, <1>3, <1>4, <1>5 DEF IInv

-----------------------------------------------------------------------------
(* Types.                                                                  *)

\* Where a line of the batch, or its end, takes the handler.
LEMMA NextLineGoes ==
    ASSUME TypeOK, StreamOrdered, NEW c \in Clients, NextLine(c)
    PROVE  \E s \in {"start", "rpm", "refuse", "leave"} : Goto(c, s)
<1>1. CASE taken[c] = received[c]
  BY <1>1 DEF NextLine
<1>2. CASE taken[c] # received[c]
  <2>1. sent[c][taken[c] + 1] \in Lines
    BY <1>2, ConstantsAssumption DEF TypeOK, StreamOrdered
  <2> QED
    BY <1>2, <2>1 DEF NextLine, Lines
<1> QED
  BY <1>1, <1>2

LEMMA NextTypeOK ==
    ASSUME TypeOK, StreamOrdered, OpenIsActive, [Next]_vars
    PROVE  TypeOK'
<1> USE ConstantsAssumption
<1>1. ASSUME NEW c \in Clients, Connect(c) PROVE TypeOK'
  BY <1>1 DEF TypeOK, Connect, serverVars, targetVars, streamVars
<1>2. ASSUME NEW c \in Clients, Send(c) PROVE TypeOK'
  <2>1. sent' \in [Clients -> Seq(Lines)]
    BY <1>2 DEF TypeOK, Send
  <2> QED
    BY <1>2, <2>1 DEF TypeOK, Send, serverVars, targetVars, streamVars
<1>3. ASSUME NEW c \in Clients, Disconnect(c) PROVE TypeOK'
  BY <1>3 DEF TypeOK, Disconnect, serverVars, targetVars, streamVars
<1>4. ASSUME NEW c \in Clients, Accept(c) PROVE TypeOK'
  BY <1>4 DEF TypeOK, Accept, targetVars, streamVars
<1>5. CASE Server
  <2>1. CASE StartServer
    BY <2>1 DEF TypeOK, StartServer, targetVars, streamVars, clientVars
  <2>2. CASE Bind
    BY <2>2 DEF TypeOK, Bind, targetVars, streamVars, clientVars
  <2>3. CASE AddConnection
    BY <2>3 DEF TypeOK, OpenIsActive, AddConnection, Goto, HandlerStates, targetVars, clientVars
  <2>4. CASE AcceptEnds
    BY <2>4 DEF TypeOK, AcceptEnds, targetVars, streamVars, clientVars
  <2>5. CASE StopServer
    BY <2>5 DEF TypeOK, StopServer, targetVars, streamVars, clientVars
  <2>6. CASE CloseConnections
    BY <2>6 DEF TypeOK, CloseConnections, targetVars, streamVars, clientVars
  <2> QED
    BY <1>5, <2>1, <2>2, <2>3, <2>4, <2>5, <2>6 DEF Server
<1>6. CASE GetLatestTargets
  BY <1>6 DEF TypeOK, GetLatestTargets, serverVars, streamVars, clientVars
<1>7. ASSUME NEW c \in Clients, Handler(c) PROVE TypeOK'
  <2>1. CASE Begin(c)
    BY <2>1 DEF TypeOK, Begin, Goto, HandlerStates, serverVars, targetVars, clientVars
  <2>2. CASE Receive(c)
    <3>1. received' \in [Clients -> 0..MaxLines]
      BY <2>2 DEF TypeOK, StreamOrdered, Receive
    <3> QED
      BY <2>2, <3>1 DEF TypeOK, Receive, Goto, HandlerStates, serverVars, targetVars, clientVars
  <2>3. CASE ReceiveEnds(c)
    BY <2>3 DEF TypeOK, ReceiveEnds, Goto, HandlerStates, serverVars, targetVars, clientVars
  <2>4. CASE NextLine(c)
    <3>1. taken' \in [Clients -> 0..MaxLines]
      <4>1. CASE taken[c] = received[c]
        BY <2>4, <4>1 DEF TypeOK, NextLine
      <4>2. CASE taken[c] # received[c]
        <5>1. taken[c] + 1 \in 0..MaxLines
          BY <4>2 DEF TypeOK, StreamOrdered
        <5> QED
          BY <2>4, <4>2, <5>1 DEF TypeOK, NextLine
      <4> QED
        BY <4>1, <4>2
    <3>2. handler' \in [Clients -> HandlerStates]
      BY <2>4, NextLineGoes DEF TypeOK, Goto, HandlerStates
    <3> QED
      BY <2>4, <3>1, <3>2 DEF TypeOK, NextLine, serverVars, targetVars, clientVars
  <2>5. CASE SetRpm(c)
    <3>1. <<c, taken[c]>> \in Commands
      BY <2>5 DEF TypeOK, StreamOrdered, SetRpm, Commands
    <3> QED
      BY <2>5, <3>1 DEF TypeOK, SetRpm, Goto, HandlerStates, serverVars, clientVars
  <2>6. CASE SetYaw(c)
    <3>1. <<c, taken[c]>> \in Commands
      BY <2>6 DEF TypeOK, StreamOrdered, SetYaw, Commands
    <3> QED
      BY <2>6, <3>1 DEF TypeOK, SetYaw, Goto, HandlerStates, serverVars, clientVars
  <2>7. CASE Answer(c)
    <3>1. answers' \in [Clients -> Seq({"OK", "ERROR", "CUT"})]
      <4>1. ASSUME NEW a \in {"OK", "ERROR", "CUT"}
            PROVE  [answers EXCEPT ![c] = Append(@, a)]
                       \in [Clients -> Seq({"OK", "ERROR", "CUT"})]
        BY DEF TypeOK
      <4>2. answers' \in {answers, [answers EXCEPT ![c] = Append(@, "OK")],
                          [answers EXCEPT ![c] = Append(@, "ERROR")],
                          [answers EXCEPT ![c] = Append(@, "CUT")]}
        BY <2>7 DEF Answer
      <4> QED
        BY <4>1, <4>2 DEF TypeOK
    <3>2. taken' \in [Clients -> 0..MaxLines]
      BY <2>7 DEF TypeOK, Answer
    <3>3. handler' \in [Clients -> HandlerStates]
      BY <2>7 DEF TypeOK, Answer, Goto, HandlerStates
    <3> QED
      BY <2>7, <3>1, <3>2, <3>3 DEF TypeOK, Answer, serverVars, targetVars, clientVars
  <2>8. CASE CloseSocket(c)
    BY <2>8 DEF TypeOK, CloseSocket, Goto, HandlerStates, serverVars, targetVars, clientVars
  <2>9. CASE RemoveConnection(c)
    BY <2>9 DEF TypeOK, RemoveConnection, Goto, HandlerStates, serverVars, targetVars,
                clientVars
  <2> QED
    BY <1>7, <2>1, <2>2, <2>3, <2>4, <2>5, <2>6, <2>7, <2>8, <2>9 DEF Handler
<1>8. CASE UNCHANGED vars
  BY <1>8 DEF TypeOK, vars, serverVars, targetVars, clientVars, streamVars
<1> QED
  BY <1>1, <1>2, <1>3, <1>4, <1>5, <1>6, <1>7, <1>8 DEF Next

-----------------------------------------------------------------------------
(* The rest of the invariant.                                              *)

LEMMA NextStreams ==
    ASSUME TypeOK, StreamOrdered, OpenIsActive, [Next]_vars
    PROVE  StreamOrdered'
<1> USE ConstantsAssumption
<1>1. ASSUME NEW c \in Clients, Send(c) PROVE StreamOrdered'
  <2>1. \A d \in Clients : Len(sent'[d]) = IF d = c THEN Len(sent[d]) + 1 ELSE Len(sent[d])
    BY <1>1 DEF TypeOK, Send
  <2>2. Len(sent[c]) < MaxLines /\ \A d \in Clients : Len(sent[d]) \in Nat
    BY <1>1 DEF TypeOK, Send
  <2>3. UNCHANGED <<received, taken, handler>>
    BY <1>1 DEF Send, streamVars
  <2>4. \A d \in Clients : received[d] \in Nat
    BY DEF TypeOK
  <2> QED
    BY <2>1, <2>2, <2>3, <2>4 DEF StreamOrdered
<1>2. ASSUME NEW c \in Clients, Receive(c) PROVE StreamOrdered'
  BY <1>2 DEF TypeOK, StreamOrdered, Receive, Goto, clientVars
<1>3. ASSUME NEW c \in Clients, NextLine(c) PROVE StreamOrdered'
  <2>1. CASE taken[c] = received[c]
    BY <1>3, <2>1 DEF TypeOK, StreamOrdered, NextLine, Goto, clientVars
  <2>2. CASE taken[c] # received[c]
    <3>1. /\ taken' = [taken EXCEPT ![c] = taken[c] + 1] /\ UNCHANGED <<sent, received>>
          /\ \A d \in Clients : d # c => handler'[d] = handler[d]
      BY <1>3, <2>2 DEF TypeOK, NextLine, Goto, clientVars
    <3>2. taken[c] + 1 <= received[c] /\ taken[c] + 1 >= 1
      BY <2>2 DEF TypeOK, StreamOrdered
    <3> QED
      BY <3>1, <3>2 DEF TypeOK, StreamOrdered
  <2> QED
    BY <2>1, <2>2
<1>4. ASSUME NEW c \in Clients, SetRpm(c) PROVE StreamOrdered'
  BY <1>4 DEF TypeOK, StreamOrdered, SetRpm, Goto, clientVars
<1>5. ASSUME NEW c \in Clients, Answer(c) PROVE StreamOrdered'
  BY <1>5 DEF TypeOK, StreamOrdered, Answer, Goto, clientVars
<1>6. ASSUME NEW c \in Clients, UNCHANGED <<sent, received, taken>>,
             Goto(c, "start") \/ Goto(c, "recv") \/ Goto(c, "leave") \/ Goto(c, "accept")
                 \/ Goto(c, "remove") \/ Goto(c, "ended")
      PROVE  StreamOrdered'
  BY <1>6 DEF TypeOK, StreamOrdered, Goto
<1>7. ASSUME NEW c \in Clients,
             Begin(c) \/ ReceiveEnds(c) \/ SetYaw(c) \/ CloseSocket(c) \/ RemoveConnection(c)
      PROVE  StreamOrdered'
  <2>1. UNCHANGED <<sent, received, taken>>
    BY <1>7 DEF Begin, ReceiveEnds, SetYaw, CloseSocket, RemoveConnection, clientVars
  <2>2. Goto(c, "start") \/ Goto(c, "recv") \/ Goto(c, "leave") \/ Goto(c, "accept")
            \/ Goto(c, "remove") \/ Goto(c, "ended")
    BY <1>7 DEF Begin, ReceiveEnds, SetYaw, CloseSocket, RemoveConnection
  <2> QED
    BY <1>6, <2>1, <2>2
<1>8. CASE AddConnection
  BY <1>6, <1>8 DEF AddConnection, OpenIsActive, clientVars
<1>9. CASE UNCHANGED <<sent, received, taken, handler>>
  BY <1>9 DEF StreamOrdered
<1>10. ASSUME NEW c \in Clients, Connect(c) \/ Disconnect(c) \/ Accept(c) PROVE StreamOrdered'
  BY <1>9, <1>10 DEF Connect, Disconnect, Accept, streamVars
<1>11. CASE \/ StartServer \/ Bind \/ AcceptEnds \/ StopServer \/ CloseConnections
            \/ GetLatestTargets \/ UNCHANGED vars
  BY <1>9, <1>11 DEF StartServer, Bind, AcceptEnds, StopServer, CloseConnections,
                     GetLatestTargets, vars, clientVars, streamVars
<1> QED
  BY <1>1, <1>2, <1>3, <1>4, <1>5, <1>7, <1>8, <1>10, <1>11 DEF Next, Server, Handler

LEMMA NextLock ==
    ASSUME TypeOK, StreamOrdered, LockGuards, OpenIsActive, [Next]_vars
    PROVE  LockGuards'
<1> USE ConstantsAssumption
<1>1. ASSUME NEW c \in Clients, SetRpm(c) PROVE LockGuards'
  BY <1>1 DEF TypeOK, LockGuards, SetRpm, Goto
<1>2. ASSUME NEW c \in Clients, SetYaw(c) PROVE LockGuards'
  BY <1>2 DEF TypeOK, LockGuards, SetYaw, Goto
\* A step of a handler that neither holds nor takes the lock.
<1>3. ASSUME NEW c \in Clients, handler[c] # "yaw", UNCHANGED <<lock, rpm, yaw>>,
             NEW s \in HandlerStates \ {"yaw"}, Goto(c, s),
             \A d \in Clients \ {c} : taken'[d] = taken[d]
      PROVE  LockGuards'
  <2>1. \A d \in Clients : handler'[d] = IF d = c THEN s ELSE handler[d]
    BY <1>3 DEF TypeOK, Goto
  <2> QED
    BY <1>3, <2>1 DEF LockGuards
<1>4. ASSUME NEW c \in Clients, Begin(c) \/ ReceiveEnds(c) \/ Receive(c) PROVE LockGuards'
  BY <1>3, <1>4 DEF Begin, ReceiveEnds, Receive, targetVars, HandlerStates
<1>5. ASSUME NEW c \in Clients, CloseSocket(c) \/ RemoveConnection(c) PROVE LockGuards'
  BY <1>3, <1>5 DEF CloseSocket, RemoveConnection, targetVars, HandlerStates
<1>6. ASSUME NEW c \in Clients, Answer(c) PROVE LockGuards'
  <2>1. \A d \in Clients \ {c} : taken'[d] = taken[d]
    BY <1>6 DEF TypeOK, Answer
  <2> QED
    BY <1>3, <1>6, <2>1 DEF Answer, targetVars, HandlerStates
<1>7. ASSUME NEW c \in Clients, NextLine(c) PROVE LockGuards'
  <2>1. \A d \in Clients \ {c} : taken'[d] = taken[d]
    BY <1>7 DEF TypeOK, NextLine
  <2>2. handler[c] = "line" /\ UNCHANGED <<lock, rpm, yaw>>
    BY <1>7 DEF NextLine, targetVars
  <2>3. PICK s \in {"start", "rpm", "refuse", "leave"} : Goto(c, s)
    BY <1>7, NextLineGoes
  <2> QED
    BY <1>3, <2>1, <2>2, <2>3 DEF HandlerStates
<1>8. CASE AddConnection
  <2>1. accepted \in Clients /\ lock = "free" /\ UNCHANGED <<lock, rpm, yaw, taken>>
    BY <1>8 DEF AddConnection, OpenIsActive, targetVars
  <2>2. handler[accepted] # "yaw"
    BY <2>1 DEF LockGuards
  <2> QED
    BY <1>3, <1>8, <2>1, <2>2 DEF AddConnection, HandlerStates
<1>9. CASE UNCHANGED <<lock, rpm, yaw, handler, taken>>
  BY <1>9 DEF LockGuards
<1>10. ASSUME NEW c \in Clients, Connect(c) \/ Send(c) \/ Disconnect(c) \/ Accept(c)
       PROVE  LockGuards'
  BY <1>9, <1>10 DEF Connect, Send, Disconnect, Accept, targetVars, streamVars
<1>11. CASE \/ StartServer \/ Bind \/ AcceptEnds \/ StopServer \/ CloseConnections
            \/ GetLatestTargets \/ UNCHANGED vars
  BY <1>9, <1>11 DEF StartServer, Bind, AcceptEnds, StopServer, CloseConnections,
                     GetLatestTargets, vars, targetVars, streamVars
<1> QED
  BY <1>1, <1>2, <1>4, <1>5, <1>6, <1>7, <1>8, <1>10, <1>11 DEF Next, Server, Handler

\* The main thread reads the setpoints only when the lock is free.
LEMMA NextSnapshot ==
    ASSUME LockGuards, SnapshotIsOneCommand, [Next]_vars
    PROVE  SnapshotIsOneCommand'
<1>1. CASE GetLatestTargets
  BY <1>1 DEF GetLatestTargets, LockGuards, SnapshotIsOneCommand
<1>2. CASE ~GetLatestTargets
  <2>1. UNCHANGED snapshot
    BY <1>2 DEF Next, Connect, Send, Disconnect, Accept, Handler, Server, StartServer, Bind,
                AddConnection, AcceptEnds, StopServer, CloseConnections, Begin, Receive,
                ReceiveEnds, NextLine, SetRpm, SetYaw, Answer, CloseSocket, RemoveConnection,
                vars, targetVars
  <2> QED
    BY <2>1 DEF SnapshotIsOneCommand
<1> QED
  BY <1>1, <1>2

LEMMA NextOpen ==
    ASSUME TypeOK, StreamOrdered, OpenIsActive, StopClosesAll, [Next]_vars
    PROVE  OpenIsActive' /\ StopClosesAll'
<1> USE ConstantsAssumption
\* A step within a handler's loop.
<1>1. ASSUME NEW c \in Clients, handler[c] \notin {"none", "ended"},
             NEW s \in HandlerStates \ {"none", "remove", "ended"}, Goto(c, s),
             UNCHANGED <<serverVars, active, closed>>
      PROVE  OpenIsActive' /\ StopClosesAll'
  <2>1. \A d \in Clients : handler'[d] = IF d = c THEN s ELSE handler[d]
    BY <1>1 DEF TypeOK, Goto
  <2> QED
    BY <1>1, <2>1 DEF OpenIsActive, StopClosesAll, serverVars
<1>2. ASSUME NEW c \in Clients, Begin(c) \/ Receive(c) \/ ReceiveEnds(c)
      PROVE  OpenIsActive' /\ StopClosesAll'
  BY <1>1, <1>2 DEF Begin, Receive, ReceiveEnds, HandlerStates
<1>3. ASSUME NEW c \in Clients, SetRpm(c) \/ SetYaw(c) \/ Answer(c)
      PROVE  OpenIsActive' /\ StopClosesAll'
  BY <1>1, <1>3 DEF SetRpm, SetYaw, Answer, HandlerStates
<1>4. ASSUME NEW c \in Clients, NextLine(c) PROVE OpenIsActive' /\ StopClosesAll'
  <2>1. handler[c] = "line" /\ UNCHANGED <<serverVars, active, closed>>
    BY <1>4 DEF NextLine
  <2>2. PICK s \in {"start", "rpm", "refuse", "leave"} : Goto(c, s)
    BY <1>4, NextLineGoes
  <2> QED
    BY <1>1, <2>1, <2>2 DEF HandlerStates
<1>5. ASSUME NEW c \in Clients, CloseSocket(c) PROVE OpenIsActive' /\ StopClosesAll'
  BY <1>5 DEF TypeOK, CloseSocket, Goto, OpenIsActive, StopClosesAll, serverVars
<1>6. ASSUME NEW c \in Clients, RemoveConnection(c) PROVE OpenIsActive' /\ StopClosesAll'
  BY <1>6 DEF TypeOK, RemoveConnection, Goto, OpenIsActive, StopClosesAll, serverVars
<1>7. CASE AddConnection
  <2>1. accepted \in Clients /\ accepter = "adding" /\ stopper # "stopped"
    BY <1>7 DEF AddConnection, OpenIsActive
  <2>2. \A d \in Clients : handler'[d] = IF d = accepted THEN "start" ELSE handler[d]
    BY <1>7, <2>1 DEF TypeOK, AddConnection, Goto
  <2> QED
    BY <1>7, <2>1, <2>2 DEF AddConnection, OpenIsActive, StopClosesAll
<1>8. CASE CloseConnections
  <2>1. \A d \in Clients : closed'[d] <=> closed[d] \/ d \in active
    BY <1>8 DEF TypeOK, CloseConnections
  <2> QED
    BY <1>8, <2>1 DEF CloseConnections, OpenIsActive, StopClosesAll, streamVars
<1>9. CASE StartServer \/ Bind \/ AcceptEnds \/ StopServer
  BY <1>9 DEF TypeOK, StartServer, Bind, AcceptEnds, StopServer, OpenIsActive, StopClosesAll,
              streamVars
<1>10. ASSUME NEW c \in Clients, Accept(c) PROVE OpenIsActive' /\ StopClosesAll'
  BY <1>10 DEF Accept, OpenIsActive, StopClosesAll, streamVars
<1>11. ASSUME UNCHANGED <<serverVars, active, closed, handler>>
       PROVE  OpenIsActive' /\ StopClosesAll'
  BY <1>11 DEF OpenIsActive, StopClosesAll, serverVars
<1>12. ASSUME NEW c \in Clients, Connect(c) \/ Send(c) \/ Disconnect(c)
       PROVE  OpenIsActive' /\ StopClosesAll'
  BY <1>11, <1>12 DEF Connect, Send, Disconnect, streamVars
<1>13. CASE GetLatestTargets \/ UNCHANGED vars
  BY <1>11, <1>13 DEF GetLatestTargets, vars, streamVars
<1> QED
  BY <1>2, <1>3, <1>4, <1>5, <1>6, <1>7, <1>8, <1>9, <1>10, <1>12, <1>13
     DEF Next, Server, Handler

LEMMA NextNewcomers ==
    ASSUME TypeOK, StreamOrdered, OpenIsActive, Newcomers, [Next]_vars
    PROVE  Newcomers'
\* Nothing changes a client that has no handler but the accept thread.
<1>1. ASSUME NEW c \in Clients, handler[c] # "none", NEW s, Goto(c, s),
             UNCHANGED <<peer, accepter, accepted>>
      PROVE  Newcomers'
  BY <1>1 DEF TypeOK, Goto, Newcomers, OpenIsActive
<1>2. ASSUME NEW c \in Clients,
             Begin(c) \/ Receive(c) \/ ReceiveEnds(c) \/ SetRpm(c) \/ SetYaw(c)
                 \/ CloseSocket(c) \/ RemoveConnection(c)
      PROVE  Newcomers'
  <2>1. handler[c] # "none" /\ UNCHANGED <<peer, accepter, accepted>>
    BY <1>2 DEF Begin, Receive, ReceiveEnds, SetRpm, SetYaw, CloseSocket, RemoveConnection,
                serverVars, clientVars
  <2>2. \E s \in HandlerStates : Goto(c, s)
    BY <1>2 DEF Begin, Receive, ReceiveEnds, SetRpm, SetYaw, CloseSocket, RemoveConnection,
                HandlerStates
  <2> QED
    BY <1>1, <2>1, <2>2
<1>3. ASSUME NEW c \in Clients, NextLine(c) PROVE Newcomers'
  <2>1. handler[c] # "none" /\ UNCHANGED <<peer, accepter, accepted>>
    BY <1>3 DEF NextLine, serverVars, clientVars
  <2> QED
    BY <1>1, <1>3, <2>1, NextLineGoes
<1>4. ASSUME NEW c \in Clients, Answer(c) PROVE Newcomers'
  <2>1. handler[c] # "none" /\ UNCHANGED <<peer, accepter, accepted>>
    BY <1>4 DEF Answer, serverVars, clientVars
  <2>2. Goto(c, "line") \/ Goto(c, "leave") \/ Goto(c, "start")
    BY <1>4 DEF Answer
  <2> QED
    BY <1>1, <2>1, <2>2
<1>5. ASSUME NEW c \in Clients, Connect(c) \/ Disconnect(c) PROVE Newcomers'
  BY <1>5 DEF TypeOK, OpenIsActive, Connect, Disconnect, Newcomers, serverVars, streamVars
<1>6. ASSUME NEW c \in Clients, Accept(c) PROVE Newcomers'
  BY <1>6 DEF TypeOK, Accept, Newcomers, streamVars
<1>7. CASE AddConnection
  <2>1. accepted \in Clients /\ peer[accepted] \notin {"away", "queued"}
    BY <1>7 DEF AddConnection, OpenIsActive, Newcomers
  <2> QED
    BY <1>7, <2>1 DEF TypeOK, AddConnection, Goto, Newcomers, clientVars
<1>8. CASE StartServer \/ Bind \/ AcceptEnds
  BY <1>8 DEF StartServer, Bind, AcceptEnds, Newcomers, streamVars, clientVars
<1>9. CASE StopServer \/ CloseConnections \/ GetLatestTargets \/ UNCHANGED vars
  BY <1>9 DEF StopServer, CloseConnections, GetLatestTargets, vars, Newcomers, serverVars,
              streamVars, clientVars
<1>10. ASSUME NEW c \in Clients, Send(c) PROVE Newcomers'
  BY <1>10 DEF Send, Newcomers, serverVars, streamVars
<1> QED
  BY <1>2, <1>3, <1>4, <1>5, <1>6, <1>7, <1>8, <1>9, <1>10 DEF Next, Server, Handler

\* Answers that stay, to lines that stay, match as they did.
LEMMA StillMatched ==
    ASSUME TypeOK, NEW c \in Clients, Matched(c), answers'[c] = answers[c],
           Len(sent'[c]) >= Len(sent[c]), \A i \in 1..Len(sent[c]) : sent'[c][i] = sent[c][i]
    PROVE  Matched(c)'
<1>1. Len(sent[c]) \in Nat /\ Len(sent'[c]) >= Len(sent[c]) /\ Len(answers[c]) \in Nat
  BY DEF TypeOK
<1>2. \A n : Cut(c, n)' <=> Cut(c, n)
  BY DEF Cut
<1>3. SUFFICES ASSUME NEW n \in 1..Len(answers[c]), ~Cut(c, n)
               PROVE  n <= Len(sent'[c]) /\ answers[c][n] = Verdict(sent'[c][n])
  BY <1>2 DEF Matched, Verdict
<1>4. n <= Len(sent[c]) /\ answers[c][n] = Verdict(sent[c][n]) /\ n \in 1..Len(sent[c])
  BY <1>1, <1>3 DEF Matched
<1>5. sent'[c][n] = sent[c][n]
  BY <1>4
<1>6. n <= Len(sent'[c])
  BY <1>1, <1>4
<1> QED
  BY <1>4, <1>5, <1>6

\* A handler's step that sends no answer: all that counts is where it stands then.
LEMMA SilentStep ==
    ASSUME TypeOK, Answered, NEW c \in Clients, NEW s \in HandlerStates, Goto(c, s),
           UNCHANGED <<answers, sent>>, \A d \in Clients \ {c} : taken'[d] = taken[d],
           Paired(c)'
    PROVE  Answered'
<1>1. \A d \in Clients : Matched(d)'
  BY DEF Answered, Matched, Cut, Verdict
<1>2. \A d \in Clients \ {c} : handler'[d] = handler[d]
  BY DEF TypeOK, Goto
<1>3. \A d \in Clients \ {c} : Paired(d)'
  BY <1>2 DEF Answered, Paired, Cut, Verdict
<1> QED
  BY <1>1, <1>3 DEF Answered

LEMMA AnswerStep ==
    ASSUME TypeOK, StreamOrdered, Answered, NEW c \in Clients, Answer(c)
    PROVE  Answered'
<1>0. PICK k \in Nat : k = Len(answers[c])
  BY DEF TypeOK
<1>1. /\ k = Len(answers[c]) /\ answers[c] \in Seq({"OK", "ERROR", "CUT"})
      /\ handler[c] \in {"accept", "refuse"} /\ UNCHANGED sent
      /\ taken[c] \in Nat /\ taken[c] <= Len(sent[c]) /\ Len(sent[c]) \in Nat
      /\ Paired(c) /\ Matched(c)
  BY <1>0, ConstantsAssumption DEF TypeOK, StreamOrdered, Answered, Answer, clientVars
<1>2. \A d \in Clients \ {c} : /\ handler'[d] = handler[d] /\ taken'[d] = taken[d]
                               /\ answers'[d] = answers[d]
  BY DEF TypeOK, Answer, Goto
<1>3. ASSUME NEW d \in Clients \ {c} PROVE Paired(d)' /\ Matched(d)'
  <2>1. /\ answers'[d] = answers[d] /\ taken'[d] = taken[d] /\ handler'[d] = handler[d]
        /\ sent' = sent /\ Paired(d) /\ Matched(d)
    BY <1>1, <1>2 DEF Answered
  <2>2. \A n : Cut(d, n)' <=> Cut(d, n)
    BY <2>1 DEF Cut
  <2>3. Cut(d, Len(answers[d]))' <=> Cut(d, Len(answers[d]))
    BY <2>1 DEF Cut
  <2>4. Paired(d)'
    BY <2>1, <2>3 DEF Paired, Verdict
  <2>5. Matched(d)'
    BY <2>1, <2>2 DEF Matched, Verdict
  <2> QED
    BY <2>4, <2>5
<1>4. ASSUME NEW a \in {"OK", "ERROR", "CUT"}, answers'[c] = Append(answers[c], a)
      PROVE  /\ Len(answers'[c]) = k + 1 /\ answers'[c][k+1] = a
             /\ \A n \in 1..k : answers'[c][n] = answers[c][n]
             /\ \A n \in 1..k : Cut(c, n)' <=> Cut(c, n)
             /\ Cut(c, k+1)' <=> Cut(c, k) \/ a = "CUT"
  <2>1. /\ Len(answers'[c]) = k + 1 /\ answers'[c][k+1] = a
        /\ \A n \in 1..k : answers'[c][n] = answers[c][n]
    BY <1>1, <1>4
  <2>2. ASSUME NEW n \in 1..k PROVE Cut(c, n)' <=> Cut(c, n)
    <3>1. \A m \in 1..n : answers'[c][m] = answers[c][m]
      BY <2>1
    <3> QED
      BY <3>1 DEF Cut
  <2>3. Cut(c, k+1)' <=> (\E m \in 1..k : answers'[c][m] = "CUT") \/ a = "CUT"
    BY <2>1 DEF Cut
  <2>4. Cut(c, k) <=> \E m \in 1..k : answers'[c][m] = "CUT"
    BY <2>1 DEF Cut
  <2> QED
    BY <2>1, <2>2, <2>3, <2>4
<1>5. CASE /\ answers' = [answers EXCEPT ![c] =
                            Append(@, IF handler[c] = "accept" THEN "OK" ELSE "ERROR")]
           /\ Goto(c, "line") /\ UNCHANGED taken
  <2> DEFINE a == IF handler[c] = "accept" THEN "OK" ELSE "ERROR"
  <2>1. answers'[c] = Append(answers[c], a) /\ handler'[c] = "line" /\ taken'[c] = taken[c]
        /\ a \in {"OK", "ERROR", "CUT"} /\ a # "CUT"
    BY <1>5 DEF TypeOK, Goto
  <2> HIDE DEF a
  <2>2. ~Cut(c, k) => k + 1 = taken[c] /\ Verdict(sent[c][taken[c]]) = a
    BY <1>1 DEF Paired, a
  <2>3. Paired(c)'
    BY <1>1, <1>4, <2>1, <2>2 DEF Paired
  <2>4. ASSUME NEW n \in 1..(k+1), ~Cut(c, n)'
        PROVE  n <= Len(sent[c]) /\ answers'[c][n] = Verdict(sent[c][n])
    <3>1. CASE n = k + 1
      BY <1>1, <1>4, <2>1, <2>2, <2>4, <3>1
    <3>2. CASE n # k + 1
      <4>1. n \in 1..k /\ ~Cut(c, n)
        BY <1>1, <1>4, <2>1, <2>4, <3>2
      <4> QED
        BY <1>1, <1>4, <2>1, <4>1 DEF Matched
    <3> QED
      BY <3>1, <3>2
  <2>5. Matched(c)'
    BY <1>1, <1>4, <2>1, <2>4 DEF Matched, Verdict
  <2> QED
    BY <1>3, <2>3, <2>5 DEF Answered
<1>6. CASE Goto(c, "leave") /\ UNCHANGED <<answers, taken>>
  <2>1. handler'[c] = "leave"
    BY <1>6 DEF TypeOK, Goto
  <2>2. Paired(c)'
    BY <1>1, <1>6, <2>1 DEF Paired, Cut
  <2> QED
    BY <1>6, <2>2, SilentStep, <1>1 DEF HandlerStates
<1>7. CASE answers' = [answers EXCEPT ![c] = Append(@, "CUT")]
  <2>1. answers'[c] = Append(answers[c], "CUT")
    BY <1>7 DEF TypeOK
  <2>2. Len(answers'[c]) = k + 1 /\ Cut(c, k+1)' /\ (\A n \in 1..k : Cut(c, n)' <=> Cut(c, n))
        /\ \A n \in 1..k : answers'[c][n] = answers[c][n]
    BY <1>4, <2>1
  <2>3. Paired(c)'
    BY <2>2 DEF Paired
  <2>4. ASSUME NEW n \in 1..(k+1), ~Cut(c, n)'
        PROVE  n <= Len(sent[c]) /\ answers'[c][n] = Verdict(sent[c][n])
    <3>1. n \in 1..k /\ ~Cut(c, n)
      BY <1>1, <2>2, <2>4
    <3> QED
      BY <1>1, <2>2, <3>1 DEF Matched
  <2>5. Matched(c)'
    BY <1>1, <2>2, <2>4 DEF Matched, Verdict
  <2> QED
    BY <1>3, <2>3, <2>5 DEF Answered
<1> QED
  BY <1>5, <1>6, <1>7 DEF Answer

LEMMA NextAnswers ==
    ASSUME TypeOK, StreamOrdered, OpenIsActive, Newcomers, Answered, [Next]_vars
    PROVE  Answered'
<1> USE ConstantsAssumption
<1>1. ASSUME NEW c \in Clients, NEW s \in HandlerStates, Goto(c, s),
             UNCHANGED <<answers, sent, taken>>,
             \/ s \in {"leave", "remove", "ended"}
             \/ handler[c] \in {"none", "start", "recv", "line"} /\ s \in {"start", "recv", "line"}
             \/ handler[c] \in {"rpm", "yaw"} /\ s \in {"yaw", "accept"}
      PROVE  Answered'
  <2>1. handler'[c] = s /\ Paired(c)
    BY <1>1 DEF TypeOK, Goto, Answered
  <2>2. Paired(c)'
    BY <1>1, <2>1 DEF Paired, Cut, Verdict
  <2> QED
    BY <1>1, <2>2, SilentStep
<1>2. ASSUME NEW c \in Clients,
             Begin(c) \/ Receive(c) \/ ReceiveEnds(c) \/ CloseSocket(c) \/ RemoveConnection(c)
      PROVE  Answered'
  BY <1>1, <1>2 DEF Begin, Receive, ReceiveEnds, CloseSocket, RemoveConnection, clientVars,
                    HandlerStates
<1>3. ASSUME NEW c \in Clients, SetRpm(c) \/ SetYaw(c) PROVE Answered'
  BY <1>1, <1>3 DEF SetRpm, SetYaw, clientVars, HandlerStates
<1>4. CASE AddConnection
  BY <1>1, <1>4 DEF AddConnection, OpenIsActive, Newcomers, clientVars, HandlerStates
<1>5. ASSUME NEW c \in Clients, NextLine(c) PROVE Answered'
  <2>1. handler[c] = "line" /\ UNCHANGED <<answers, sent>> /\ Paired(c)
    BY <1>5 DEF NextLine, clientVars, Answered
  <2>2. CASE taken[c] = received[c]
    BY <1>1, <1>5, <2>1, <2>2 DEF NextLine, HandlerStates
  <2>3. CASE taken[c] # received[c]
    <3> DEFINE l == sent[c][taken[c] + 1]
    <3>1. l \in Lines
      BY <2>3 DEF TypeOK, StreamOrdered
    <3>2. PICK s \in HandlerStates :
              /\ Goto(c, s)
              /\ \/ s = "rpm" /\ l = "motion"
                 \/ s = "refuse" /\ l = "reject"
                 \/ s = "leave"
      BY <1>5, <2>3, <3>1 DEF NextLine, Lines, HandlerStates
    <3>3. /\ taken' = [taken EXCEPT ![c] = taken[c] + 1] /\ taken'[c] = taken[c] + 1
          /\ handler'[c] = s /\ taken[c] \in Nat
          /\ \A d \in Clients \ {c} : taken'[d] = taken[d]
      BY <1>5, <2>3, <3>2 DEF TypeOK, NextLine, Goto
    <3>4. ~Cut(c, Len(answers[c])) => Len(answers[c]) = taken[c]
      BY <2>1 DEF Paired
    <3>5. /\ s = "rpm" => Verdict(l) = "OK"
          /\ s = "refuse" => Verdict(l) = "ERROR"
      BY <3>2 DEF Verdict
    <3>6. Cut(c, Len(answers[c]))' <=> Cut(c, Len(answers[c]))
      BY <2>1 DEF Cut
    <3>7. Paired(c)'
      <4>1. s \in {"rpm", "refuse", "leave"}
        BY <3>2
      <4>2. Verdict(sent[c][taken[c]])' = Verdict(l)
        BY <2>1, <3>3 DEF Verdict
      <4> QED
        BY <2>1, <3>3, <3>4, <3>5, <3>6, <4>1, <4>2 DEF Paired
    <3> QED
      BY <2>1, <3>2, <3>3, <3>7, SilentStep
  <2> QED
    BY <2>2, <2>3
<1>6. ASSUME NEW c \in Clients, Send(c) PROVE Answered'
  <2>1. ASSUME NEW d \in Clients
        PROVE  /\ Len(sent'[d]) >= Len(sent[d]) /\ Len(sent[d]) \in Nat
               /\ \A i \in 1..Len(sent[d]) : sent'[d][i] = sent[d][i]
    BY <1>6 DEF TypeOK, Send
  <2>2. UNCHANGED <<answers, taken, handler>>
    BY <1>6 DEF Send, streamVars
  <2>3. ASSUME NEW d \in Clients PROVE Paired(d)'
    <3>1. Cut(d, Len(answers[d]))' <=> Cut(d, Len(answers[d]))
      BY <2>2 DEF Cut
    <3>2. CASE Cut(d, Len(answers[d]))
      BY <3>1, <3>2 DEF Paired
    <3>3. CASE handler[d] \notin {"rpm", "yaw", "accept", "refuse"}
      BY <2>2, <3>1, <3>3 DEF Answered, Paired
    <3>4. CASE handler[d] \in {"rpm", "yaw", "accept", "refuse"} /\ ~Cut(d, Len(answers[d]))
      <4>1. Len(answers[d]) + 1 = taken[d] /\ Len(answers[d]) \in Nat /\ taken[d] <= Len(sent[d])
        BY <3>4 DEF Answered, Paired, TypeOK, StreamOrdered
      <4>2. taken[d] \in 1..Len(sent[d])
        BY <2>1, <4>1
      <4>3. sent'[d][taken[d]] = sent[d][taken[d]]
        BY <2>1, <4>2
      <4> QED
        BY <2>2, <3>1, <3>4, <4>3 DEF Answered, Paired, Verdict
    <3> QED
      BY <3>2, <3>3, <3>4
  <2>4. ASSUME NEW d \in Clients PROVE Matched(d)'
    BY <2>1, <2>2, StillMatched DEF Answered
  <2> QED
    BY <2>3, <2>4 DEF Answered
<1>7. CASE UNCHANGED <<answers, taken, handler, sent>>
  BY <1>7 DEF Answered, Paired, Matched, Cut, Verdict
<1>8. ASSUME NEW c \in Clients, Connect(c) \/ Disconnect(c) \/ Accept(c) PROVE Answered'
  BY <1>7, <1>8 DEF Connect, Disconnect, Accept, streamVars
<1>9. CASE \/ StartServer \/ Bind \/ AcceptEnds \/ StopServer \/ CloseConnections
           \/ GetLatestTargets \/ UNCHANGED vars
  BY <1>7, <1>9 DEF StartServer, Bind, AcceptEnds, StopServer, CloseConnections,
                    GetLatestTargets, vars, clientVars, streamVars
<1> QED
  BY <1>2, <1>3, <1>4, <1>5, <1>6, <1>8, <1>9, AnswerStep DEF Next, Server, Handler

LEMMA Invariance == Spec => []IInv
<1>1. IInv /\ [Next]_vars => IInv'
  BY NextTypeOK, NextStreams, NextLock, NextSnapshot, NextOpen, NextNewcomers,
     NextAnswers DEF IInv
<1> QED
  BY InitIInv, <1>1, PTL DEF Spec

\* Every variable keeps its type, and the main loop never combines the speed of one
\* command with the turn of another, for any number of clients: CommandListener!Safety,
\* about data_lock in validate_and_update_targets and get_latest_targets.
THEOREM TargetsConsistent == Spec => []Safety
<1>1. IInv => Safety
  BY DEF IInv, Safety
<1> QED
  BY Invariance, <1>1, PTL

\* When stop_server has returned, no handler is left with an open socket, whatever
\* the accept thread was doing: CommandListener!StopClosesAll.
THEOREM StopIsThorough == Spec => []StopClosesAll
BY Invariance, PTL DEF IInv

\* The n-th answer a reading client gets is the one to its n-th line, for any
\* batching of its lines: CommandListener!AnswersMatchLines, about the loop over the
\* buffer in _handle_client_stream.
THEOREM AnswersCorrect == Spec => []AnswersMatchLines
<1>1. IInv => AnswersMatchLines
  BY DEF IInv, Answered, Matched, AnswersMatchLines
<1> QED
  BY Invariance, <1>1, PTL
-----------------------------------------------------------------------------
(* The setpoints as a register.                                            *)

\* A handler that neither reaches nor leaves its assignment, and takes no line.
LEMMA ConsideredKept ==
    ASSUME TypeOK, NEW c \in Clients, NEW s, Goto(c, s),
           handler[c] # "rpm", s # "rpm", taken' = taken
    PROVE  Considered' = Considered
<1>1. \A d \in Clients : handler'[d] = (IF d = c THEN s ELSE handler[d])
  BY DEF TypeOK, Goto
<1>2. ASSUME NEW d \in Clients
      PROVE  (IF handler'[d] = "rpm" THEN taken[d] - 1 ELSE taken[d])
              = (IF handler[d] = "rpm" THEN taken[d] - 1 ELSE taken[d])
  BY <1>1
<1> QED
  BY <1>2 DEF Considered

\* A handler that has considered more of its own lines.
LEMMA ConsideredGrows ==
    ASSUME TypeOK', StreamOrdered', NEW c \in Clients,
           \A d \in Clients \ {c} : handler'[d] = handler[d] /\ taken'[d] = taken[d],
           Considered'[c] > Considered[c]
    PROVE  Register!Consider(c)
<1>1. Considered' \in [Clients -> Nat]
  <2>1. ASSUME NEW d \in Clients
        PROVE  (IF handler'[d] = "rpm" THEN taken'[d] - 1 ELSE taken'[d]) \in Nat
    <3>1. taken'[d] \in Nat /\ (handler'[d] = "rpm" => taken'[d] >= 1)
      BY DEF TypeOK, StreamOrdered
    <3> QED
      BY <3>1
  <2> QED
    BY <2>1 DEF Considered
<1>2. \A d \in Clients \ {c} : Considered'[d] = Considered[d]
  BY DEF Considered
<1> QED
  BY <1>1, <1>2 DEF Register!Consider

\* Every step of clients, handlers and main is a step of the register, or none.
LEMMA StepIsRegister ==
    ASSUME IInv, [Next]_vars
    PROVE  [Register!Next]_(Register!vars)
<1> USE DEF Register!vars
<1>0. /\ TypeOK /\ StreamOrdered /\ LockGuards /\ OpenIsActive /\ Newcomers
      /\ TypeOK' /\ StreamOrdered'
  BY NextTypeOK, NextStreams DEF IInv
<1>1. CASE UNCHANGED <<rpm, snapshot, handler, taken>>
  BY <1>1 DEF Considered
<1>2. ASSUME NEW c \in Clients, Connect(c) \/ Send(c) \/ Disconnect(c) \/ Accept(c)
      PROVE  UNCHANGED <<rpm, snapshot, handler, taken>>
  BY <1>2 DEF Connect, Send, Disconnect, Accept, targetVars, streamVars
<1>3. ASSUME NEW c \in Clients,
             \/ Begin(c) \/ Receive(c) \/ ReceiveEnds(c) \/ SetYaw(c)
             \/ CloseSocket(c) \/ RemoveConnection(c)
      PROVE  [Register!Next]_(Register!vars)
  <2>1. PICK s \in HandlerStates \ {"rpm"} : Goto(c, s)
    BY <1>3 DEF Begin, Receive, ReceiveEnds, SetYaw, CloseSocket, RemoveConnection, HandlerStates
  <2>2. handler[c] # "rpm" /\ UNCHANGED <<taken, rpm, snapshot>>
    BY <1>3 DEF Begin, Receive, ReceiveEnds, SetYaw, CloseSocket, RemoveConnection, targetVars
  <2> QED
    BY <1>0, <2>1, <2>2, ConsideredKept
<1>4. CASE AddConnection
  <2>1. /\ accepted \in Clients /\ handler[accepted] = "none"
        /\ Goto(accepted, "start") /\ UNCHANGED <<taken, rpm, snapshot>>
    BY <1>0, <1>4 DEF AddConnection, OpenIsActive, Newcomers, targetVars
  <2> QED
    BY <1>0, <2>1, ConsideredKept
<1>5. ASSUME NEW c \in Clients, NextLine(c)
      PROVE  [Register!Next]_(Register!vars)
  <2>1. handler[c] = "line" /\ UNCHANGED <<rpm, snapshot>>
    BY <1>5 DEF NextLine, targetVars
  <2>2. PICK s \in {"start", "rpm", "refuse", "leave"} : Goto(c, s)
    BY <1>0, <1>5, NextLineGoes
  <2>3. CASE taken[c] = received[c]
    <3>1. Goto(c, "start") /\ taken' = taken
      BY <1>5, <2>3 DEF NextLine
    <3> QED
      BY <1>0, <2>1, <3>1, ConsideredKept
  <2>4. CASE taken[c] # received[c]
    <3>1. taken' = [taken EXCEPT ![c] = taken[c] + 1]
      BY <1>5, <2>4 DEF NextLine
    <3>2. /\ taken[c] \in Nat /\ taken'[c] = taken[c] + 1 /\ handler'[c] = s
          /\ \A d \in Clients \ {c} : handler'[d] = handler[d] /\ taken'[d] = taken[d]
      BY <1>0, <2>2, <3>1 DEF TypeOK, Goto
    <3>3. Considered[c] = taken[c]
      BY <2>1 DEF Considered
    <3>4. CASE s = "rpm"
      <4>1. \A d \in Clients : (IF handler'[d] = "rpm" THEN taken'[d] - 1 ELSE taken'[d])
                                 = (IF handler[d] = "rpm" THEN taken[d] - 1 ELSE taken[d])
        BY <2>1, <3>2, <3>4
      <4>2. Considered' = Considered
        BY <4>1 DEF Considered
      <4> QED
        BY <2>1, <4>2
    <3>5. CASE s # "rpm"
      <4>1. Considered'[c] = taken[c] + 1
        BY <3>2, <3>5 DEF Considered
      <4>2. Register!Consider(c)
        BY <1>0, <3>2, <3>3, <4>1, ConsideredGrows
      <4> QED
        BY <2>1, <4>2 DEF Register!Next, Register!PassOver
    <3> QED
      BY <3>4, <3>5
  <2> QED
    BY <2>3, <2>4
<1>6. ASSUME NEW c \in Clients, SetRpm(c)
      PROVE  [Register!Next]_(Register!vars)
  <2>1. /\ handler[c] = "rpm" /\ Goto(c, "yaw") /\ rpm' = <<c, taken[c]>>
        /\ UNCHANGED <<taken, snapshot>>
    BY <1>6 DEF SetRpm
  <2>2. /\ taken[c] \in Nat /\ handler'[c] = "yaw"
        /\ \A d \in Clients \ {c} : handler'[d] = handler[d]
    BY <1>0, <2>1 DEF TypeOK, Goto
  <2>3. Considered[c] = taken[c] - 1 /\ Considered'[c] = taken[c]
    BY <2>1, <2>2 DEF Considered
  <2>4. Register!Consider(c)
    BY <1>0, <2>1, <2>2, <2>3, ConsideredGrows
  <2> QED
    BY <2>1, <2>3, <2>4 DEF Register!Next, Register!Obey
<1>7. ASSUME NEW c \in Clients, Answer(c)
      PROVE  [Register!Next]_(Register!vars)
  <2>1. handler[c] # "rpm" /\ UNCHANGED <<rpm, snapshot>>
    BY <1>7 DEF Answer, targetVars
  <2>2. PICK s \in {"line", "leave", "start"} : Goto(c, s)
    BY <1>7 DEF Answer
  <2>3. CASE taken' = taken
    BY <1>0, <2>1, <2>2, <2>3, ConsideredKept
  <2>4. CASE taken' = [taken EXCEPT ![c] = received[c]]
    <3>1. /\ taken[c] \in Nat /\ received[c] \in Nat /\ taken[c] <= received[c]
          /\ taken'[c] = received[c] /\ handler'[c] = s
          /\ \A d \in Clients \ {c} : handler'[d] = handler[d] /\ taken'[d] = taken[d]
      BY <1>0, <2>2, <2>4 DEF TypeOK, StreamOrdered, Goto
    <3>2. CASE taken[c] = received[c]
      <4>1. taken' = taken
        BY <1>0, <2>4, <3>2 DEF TypeOK
      <4> QED
        BY <2>3, <4>1
    <3>3. CASE taken[c] < received[c]
      <4>1. Considered[c] = taken[c] /\ Considered'[c] = received[c]
        BY <2>1, <2>2, <3>1 DEF Considered
      <4>2. Register!Consider(c)
        BY <1>0, <3>1, <3>3, <4>1, ConsideredGrows
      <4> QED
        BY <2>1, <4>2 DEF Register!Next, Register!PassOver
    <3> QED
      BY <3>1, <3>2, <3>3
  <2> QED
    BY <1>7, <2>3, <2>4 DEF Answer
<1>8. CASE GetLatestTargets
  <2>1. rpm = yaw /\ snapshot' = [rpm |-> rpm, yaw |-> yaw] /\ UNCHANGED <<rpm, handler, taken>>
    BY <1>0, <1>8 DEF GetLatestTargets, LockGuards, streamVars
  <2>2. Considered' = Considered
    BY <2>1 DEF Considered
  <2> QED
    BY <2>1, <2>2 DEF Register!Next, Register!Read
<1>9. CASE \/ StartServer \/ Bind \/ AcceptEnds \/ StopServer \/ CloseConnections
           \/ UNCHANGED vars
  BY <1>1, <1>9 DEF StartServer, Bind, AcceptEnds, StopServer, CloseConnections, vars,
                    targetVars, streamVars
<1> QED
  BY <1>1, <1>2, <1>3, <1>4, <1>5, <1>6, <1>7, <1>8, <1>9 DEF Next, Server, Handler

\* Setpoints, lock and handlers act as one register: main reads the command in force as
\* a whole, and the lines of a client take force in their order and once at most
\* (validate_and_update_targets, get_latest_targets and _handle_client_stream).
THEOREM Linearizable == Spec => ImplementsRegister
<1>1. Init => Register!Init
  BY DEF Init, Register!Init, Considered, NoCommand
<1>2. IInv /\ [Next]_vars => [Register!Next]_(Register!vars)
  BY StepIsRegister
<1> QED
  BY Invariance, <1>1, <1>2, PTL DEF Spec, ImplementsRegister, Register!Spec

-----------------------------------------------------------------------------
(* What follows for main from the register alone.                          *)

IsCommand(r) == r = <<>> \/ \E c \in Clients, n \in Nat : r = <<c, n>>

\* No command is ahead of what its client has had considered, and the one in force is
\* not older than the one main has seen of the same client.
SeenIsOlder ==
    /\ Considered \in [Clients -> Nat]
    /\ IsCommand(rpm) /\ IsCommand(snapshot.rpm)
    /\ rpm # <<>> => rpm[2] <= Considered[rpm[1]]
    /\ snapshot.rpm # <<>> =>
        /\ rpm # <<>>
        /\ snapshot.rpm[2] <= Considered[snapshot.rpm[1]]
        /\ rpm[1] = snapshot.rpm[1] => rpm[2] >= snapshot.rpm[2]

LEMMA SeenStep ==
    ASSUME SeenIsOlder, [Register!Next]_(Register!vars)
    PROVE  SeenIsOlder'
<1>1. CASE Register!Read
  BY <1>1 DEF Register!Read, SeenIsOlder, IsCommand
<1>2. ASSUME NEW c \in Clients, Register!Obey(c) \/ Register!PassOver(c)
      PROVE  SeenIsOlder'
  <2>1. /\ Considered' \in [Clients -> Nat] /\ snapshot' = snapshot
        /\ Considered'[c] > Considered[c] /\ Considered[c] \in Nat
        /\ \A d \in Clients : Considered[d] \in Nat /\ Considered'[d] \in Nat
        /\ \A d \in Clients \ {c} : Considered'[d] = Considered[d]
    BY <1>2 DEF Register!Obey, Register!PassOver, Register!Consider, SeenIsOlder
  <2>2. CASE Register!PassOver(c)
    <3>1. rpm' = rpm /\ snapshot' = snapshot
      BY <2>2 DEF Register!PassOver
    <3>2. ASSUME NEW r, IsCommand(r), r # <<>>, r[2] <= Considered[r[1]]
          PROVE  r[2] <= Considered'[r[1]]
      <4>1. PICK d \in Clients, n \in Nat : r = <<d, n>>
        BY <3>2 DEF IsCommand
      <4> QED
        BY <2>1, <3>2, <4>1
    <3> QED
      BY <2>1, <3>1, <3>2 DEF SeenIsOlder, IsCommand
  <2>3. CASE rpm' = <<c, Considered'[c]>>
    <3>1. IsCommand(rpm)' /\ rpm' # <<>> /\ rpm'[1] = c /\ rpm'[2] = Considered'[c]
      BY <2>1, <2>3 DEF IsCommand
    <3>2. IsCommand(snapshot.rpm)'
      BY <2>1 DEF SeenIsOlder, IsCommand
    <3>3. ASSUME snapshot.rpm # <<>>
          PROVE  /\ snapshot.rpm[2] <= Considered'[snapshot.rpm[1]]
                 /\ snapshot.rpm[1] = c => Considered'[c] >= snapshot.rpm[2]
      <4>1. PICK d \in Clients, n \in Nat : snapshot.rpm = <<d, n>>
        BY <3>3 DEF SeenIsOlder, IsCommand
      <4>2. n <= Considered[d]
        BY <3>3, <4>1 DEF SeenIsOlder
      <4> QED
        BY <2>1, <4>1, <4>2
    <3> QED
      BY <2>1, <3>1, <3>2, <3>3 DEF SeenIsOlder
  <2> QED
    BY <1>2, <2>2, <2>3 DEF Register!Obey
<1>3. CASE UNCHANGED Register!vars
  BY <1>3 DEF Register!vars, SeenIsOlder, IsCommand
<1> QED
  BY <1>1, <1>2, <1>3 DEF Register!Next

\* What main reads never goes back to an earlier command of the client it read last
\* (get_latest_targets, called once per cycle).
THEOREM SnapshotNeverBack == Spec => Register!NeverBack
<1>1. IInv /\ [Next]_vars => [Register!Next]_(Register!vars)
  BY StepIsRegister
<1>2. Init => SeenIsOlder
  BY DEF Init, SeenIsOlder, IsCommand, Considered, NoCommand
<1>3. SeenIsOlder /\ [Register!Next]_(Register!vars) => SeenIsOlder'
  BY SeenStep
<1>4. SeenIsOlder /\ SeenIsOlder' /\ [Register!Next]_(Register!vars)
        => [snapshot.rpm # <<>> =>
              /\ snapshot'.rpm # <<>>
              /\ snapshot'.rpm[1] = snapshot.rpm[1]
                    => snapshot'.rpm[2] >= snapshot.rpm[2]]_(Register!vars)
  BY DEF SeenIsOlder, IsCommand, Register!Next, Register!Read, Register!Obey,
         Register!PassOver, Register!vars
<1> QED
  BY Invariance, <1>1, <1>2, <1>3, <1>4, PTL DEF Spec, Register!NeverBack
=============================================================================
