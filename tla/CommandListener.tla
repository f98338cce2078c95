-------------------------- MODULE CommandListener ---------------------------
(***************************************************************************)
(* JsonTcpCommandListener: the accept thread, one handler thread for each  *)
(* client, and the main thread that reads the setpoints 50 times a second  *)
(* and stops the server.                                                   *)
(*                                                                         *)
(* A client sends newline-terminated lines.  TCP hands them over in order, *)
(* any number at a time; a line of which a part has come counts as not yet *)
(* come.  What matters of a line is what the server does with it: "motion" *)
(* is a command within limits, "reject" one that fails a check or is no    *)
(* JSON, "value" is JSON that is no object (json_payload.get fails on it). *)
(* A command is named by the client and the position of its line.          *)
(***************************************************************************)
EXTENDS Integers, Sequences, FiniteSets

CONSTANTS
    Clients,
    MaxLines        \* bound: lines a client sends

ASSUME ConstantsAssumption ==
    IsFiniteSet(Clients) /\ {"free", "none"} \cap Clients = {} /\ MaxLines \in Nat

VARIABLES
    isRunning,
    accepter,       \* "off", "binding", "waiting", "adding", "ended"
    accepted,       \* the connection accept() has just returned
    stopper,        \* main in stop_server: "out", "joining", "stopped"
    lock,           \* who holds data_lock
    rpm, yaw,       \* target_setpoints, each as the command that set it
    snapshot,       \* what main's last get_latest_targets returned
    active,         \* active_connections
    \* per client
    peer,           \* "away", "queued" (not yet accepted), "here", "gone"
    sent,           \* the lines it has sent
    received,       \* how many of them recv has delivered
    taken,          \* how many of them the handler has begun to process
    handler,        \* where its handler thread stands
    answers,        \* the status frames sent back
    closed          \* has the server closed the socket?

serverVars == <<isRunning, accepter, accepted, stopper>>
targetVars == <<rpm, yaw, snapshot>>
clientVars == <<peer, sent>>
streamVars == <<received, taken, handler, answers>>
vars == <<serverVars, lock, targetVars, active, clientVars, streamVars, closed>>

Lines == {"motion", "reject", "value"}
NoClient == "none"
NoCommand == <<>>
Commands == {NoCommand} \cup (Clients \X (1..MaxLines))

HandlerStates ==
    {"none", "start", "recv", "line", "rpm", "yaw", "accept", "refuse", "leave", "remove", "ended"}

Init ==
    /\ isRunning = FALSE /\ accepter = "off" /\ accepted = NoClient /\ stopper = "out"
    /\ lock = "free" /\ rpm = NoCommand /\ yaw = NoCommand
    /\ snapshot = [rpm |-> NoCommand, yaw |-> NoCommand]
    /\ active = {}
    /\ peer = [c \in Clients |-> "away"] /\ sent = [c \in Clients |-> <<>>]
    /\ received = [c \in Clients |-> 0] /\ taken = [c \in Clients |-> 0]
    /\ handler = [c \in Clients |-> "none"] /\ answers = [c \in Clients |-> <<>>]
    /\ closed = [c \in Clients |-> FALSE]

Goto(c, s) == handler' = [handler EXCEPT ![c] = s]

-----------------------------------------------------------------------------
(* The clients.                                                            *)

Connect(c) ==
    /\ peer[c] = "away" /\ accepter \in {"waiting", "adding"}
    /\ peer' = [peer EXCEPT ![c] = "queued"]
    /\ UNCHANGED <<serverVars, lock, targetVars, active, sent, streamVars, closed>>

Send(c) ==
    /\ peer[c] \in {"queued", "here"} /\ Len(sent[c]) < MaxLines
    /\ \E l \in Lines : sent' = [sent EXCEPT ![c] = Append(@, l)]
    /\ UNCHANGED <<serverVars, lock, targetVars, active, peer, streamVars, closed>>

Disconnect(c) ==
    /\ peer[c] = "here"
    /\ peer' = [peer EXCEPT ![c] = "gone"]
    /\ UNCHANGED <<serverVars, lock, targetVars, active, sent, streamVars, closed>>

-----------------------------------------------------------------------------
(* The server's start, its accept thread and its stop.                     *)

StartServer ==
    /\ accepter = "off" /\ ~isRunning
    /\ isRunning' = TRUE /\ accepter' = "binding"
    /\ UNCHANGED <<accepted, stopper, lock, targetVars, active, clientVars, streamVars, closed>>

\* bind() is outside the try: if it fails, the thread ends.
Bind ==
    /\ accepter = "binding"
    /\ \/ isRunning /\ accepter' = "waiting"
       \/ accepter' = "ended"
    /\ UNCHANGED <<isRunning, accepted, stopper, lock, targetVars, active, clientVars,
                   streamVars, closed>>

\* While the accept thread is in accept(), the flag may have been cleared.
Accept(c) ==
    /\ accepter = "waiting" /\ peer[c] = "queued"
    /\ accepter' = "adding" /\ accepted' = c
    /\ peer' = [peer EXCEPT ![c] = "here"]
    /\ UNCHANGED <<isRunning, stopper, lock, targetVars, active, sent, streamVars, closed>>

AddConnection ==
    /\ accepter = "adding" /\ lock = "free"
    /\ active' = active \cup {accepted}
    /\ Goto(accepted, "start")
    /\ accepter' = IF isRunning THEN "waiting" ELSE "ended"
    /\ accepted' = NoClient
    /\ UNCHANGED <<isRunning, stopper, lock, targetVars, clientVars, received, taken, answers,
                   closed>>

\* accept() times out after a second and the loop tests the flag.
AcceptEnds ==
    /\ accepter = "waiting" /\ ~isRunning
    /\ accepter' = "ended"
    /\ UNCHANGED <<isRunning, accepted, stopper, lock, targetVars, active, clientVars,
                   streamVars, closed>>

StopServer ==
    /\ isRunning /\ stopper = "out"
    /\ isRunning' = FALSE /\ stopper' = "joining"
    /\ UNCHANGED <<accepter, accepted, lock, targetVars, active, clientVars, streamVars, closed>>

\* Mutant of CloseConnections: the accept thread is not waited for.
CloseConnections_NoJoin ==
    /\ stopper = "joining" /\ lock = "free"
    /\ closed' = [c \in Clients |-> closed[c] \/ c \in active]
    /\ active' = {}
    /\ stopper' = "stopped"
    /\ UNCHANGED <<isRunning, accepter, accepted, lock, targetVars, clientVars, streamVars>>

\* join(2.0) outlasts the second an accept() may take: the accept thread has
\* ended when every connection is closed and the list is cleared.
CloseConnections ==
    /\ stopper = "joining" /\ accepter = "ended" /\ lock = "free"
    /\ closed' = [c \in Clients |-> closed[c] \/ c \in active]
    /\ active' = {}
    /\ stopper' = "stopped"
    /\ UNCHANGED <<isRunning, accepter, accepted, lock, targetVars, clientVars, streamVars>>

-----------------------------------------------------------------------------
(* A handler thread.                                                       *)

\* The loop tests the flag when the thread starts and after each batch.
Begin(c) ==
    /\ handler[c] = "start"
    /\ Goto(c, IF isRunning THEN "recv" ELSE "leave")
    /\ UNCHANGED <<serverVars, lock, targetVars, active, clientVars, received, taken, answers,
                   closed>>

\* Mutant of Receive: the last complete line is left in the buffer as well.
Receive_KeepsLast(c) ==
    /\ handler[c] = "recv" /\ ~closed[c]
    /\ \E n \in received[c]+2..Len(sent[c]) :
        received' = [received EXCEPT ![c] = n - 1]
    /\ Goto(c, "line")
    /\ UNCHANGED <<serverVars, lock, targetVars, active, clientVars, taken, answers, closed>>

\* recv returns one or more complete lines, which become the batch.  The flag may
\* have been cleared since recv was entered.
Receive(c) ==
    /\ handler[c] = "recv" /\ ~closed[c]
    /\ \E n \in received[c]+1..Len(sent[c]) : received' = [received EXCEPT ![c] = n]
    /\ Goto(c, "line")
    /\ UNCHANGED <<serverVars, lock, targetVars, active, clientVars, taken, answers, closed>>

\* Mutant of ReceiveEnds: a failing recv is tried again.
ReceiveEnds_PeerOnly(c) ==
    /\ handler[c] = "recv" /\ peer[c] = "gone" /\ received[c] = Len(sent[c])
    /\ Goto(c, "leave")
    /\ UNCHANGED <<serverVars, lock, targetVars, active, clientVars, received, taken, answers,
                   closed>>

\* recv returns nothing more, or fails on a closed socket, or times out after
\* five seconds and the loop finds the flag cleared.
ReceiveEnds(c) ==
    /\ handler[c] = "recv"
    /\ \/ peer[c] = "gone" /\ received[c] = Len(sent[c])
       \/ closed[c] \/ ~isRunning
    /\ Goto(c, "leave")
    /\ UNCHANGED <<serverVars, lock, targetVars, active, clientVars, received, taken, answers,
                   closed>>

\* Mutant of NextLine: the AttributeError only skips the line.
NextLine_SkipsValue(c) ==
    /\ handler[c] = "line"
    /\ IF taken[c] = received[c]
       THEN Goto(c, "start") /\ UNCHANGED taken
       ELSE /\ taken' = [taken EXCEPT ![c] = @ + 1]
            /\ LET l == sent[c][taken[c] + 1] IN
                Goto(c, CASE l = "motion" -> "rpm" [] l = "reject" -> "refuse"
                          [] l = "value" -> "line")
    /\ UNCHANGED <<serverVars, lock, targetVars, active, clientVars, received, answers, closed>>

\* The next line of the batch; an AttributeError leaves the batch and the loop.
NextLine(c) ==
    /\ handler[c] = "line"
    /\ IF taken[c] = received[c]
       THEN Goto(c, "start") /\ UNCHANGED taken
       ELSE /\ taken' = [taken EXCEPT ![c] = @ + 1]
            /\ LET l == sent[c][taken[c] + 1] IN
                Goto(c, CASE l = "motion" -> "rpm" [] l = "reject" -> "refuse"
                          [] l = "value" -> "leave")
    /\ UNCHANGED <<serverVars, lock, targetVars, active, clientVars, received, answers, closed>>

SetRpm(c) ==
    /\ handler[c] = "rpm" /\ lock = "free"
    /\ lock' = c
    /\ rpm' = <<c, taken[c]>>
    /\ Goto(c, "yaw")
    /\ UNCHANGED <<serverVars, yaw, snapshot, active, clientVars, received, taken, answers,
                   closed>>

SetYaw(c) ==
    /\ handler[c] = "yaw"
    /\ lock' = "free"
    /\ yaw' = <<c, taken[c]>>
    /\ Goto(c, "accept")
    /\ UNCHANGED <<serverVars, rpm, snapshot, active, clientVars, received, taken, answers, closed>>

\* Mutant of Answer: the line whose answer timed out is processed again.
Answer_Retried(c) ==
    /\ handler[c] \in {"accept", "refuse"}
    /\ \/ /\ ~closed[c]
          /\ answers' = [answers EXCEPT ![c] =
                            Append(@, IF handler[c] = "accept" THEN "OK" ELSE "ERROR")]
          /\ Goto(c, "line") /\ UNCHANGED taken
       \/ /\ ~closed[c] /\ peer[c] = "here"
          /\ taken' = [taken EXCEPT ![c] = @ - 1]
          /\ Goto(c, "line") /\ UNCHANGED answers
    /\ UNCHANGED <<serverVars, lock, targetVars, active, clientVars, received, closed>>

\* sendall: on a closed socket or to a client that has gone it may raise, which
\* leaves the batch and the loop.  To a client that does not read it times out in
\* the middle of the frame: the handler, which takes this for an idle recv, goes
\* on without the rest of the batch.
Answer(c) ==
    /\ handler[c] \in {"accept", "refuse"}
    /\ \/ /\ ~closed[c]
          /\ answers' = [answers EXCEPT ![c] =
                            Append(@, IF handler[c] = "accept" THEN "OK" ELSE "ERROR")]
          /\ Goto(c, "line") /\ UNCHANGED taken
       \/ /\ closed[c] \/ peer[c] = "gone"
          /\ Goto(c, "leave") /\ UNCHANGED <<answers, taken>>
       \/ /\ ~closed[c] /\ peer[c] = "here"
          /\ answers' = [answers EXCEPT ![c] = Append(@, "CUT")]
          /\ taken' = [taken EXCEPT ![c] = received[c]]
          /\ Goto(c, "start")
    /\ UNCHANGED <<serverVars, lock, targetVars, active, clientVars, received, closed>>

CloseSocket(c) ==
    /\ handler[c] = "leave"
    /\ closed' = [closed EXCEPT ![c] = TRUE]
    /\ Goto(c, "remove")
    /\ UNCHANGED <<serverVars, lock, targetVars, active, clientVars, received, taken, answers>>

RemoveConnection(c) ==
    /\ handler[c] = "remove" /\ lock = "free"
    /\ active' = active \ {c}
    /\ Goto(c, "ended")
    /\ UNCHANGED <<serverVars, lock, targetVars, clientVars, received, taken, answers, closed>>

Handler(c) ==
    \/ Begin(c) \/ Receive(c) \/ ReceiveEnds(c) \/ NextLine(c) \/ SetRpm(c) \/ SetYaw(c)
    \/ Answer(c) \/ CloseSocket(c) \/ RemoveConnection(c)

-----------------------------------------------------------------------------
(* The main thread's read.                                                 *)

\* Mutant of GetLatestTargets: it does not take the lock.
GetLatestTargets_NoLock ==
    /\ snapshot' = [rpm |-> rpm, yaw |-> yaw]
    /\ UNCHANGED <<serverVars, lock, rpm, yaw, active, clientVars, streamVars, closed>>

GetLatestTargets ==
    /\ lock = "free"
    /\ snapshot' = [rpm |-> rpm, yaw |-> yaw]
    /\ UNCHANGED <<serverVars, lock, rpm, yaw, active, clientVars, streamVars, closed>>

Server == StartServer \/ Bind \/ AddConnection \/ AcceptEnds \/ StopServer \/ CloseConnections

Next ==
    \/ \E c \in Clients :
        Connect(c) \/ Send(c) \/ Disconnect(c) \/ Accept(c) \/ Handler(c)
    \/ Server \/ GetLatestTargets

Spec == Init /\ [][Next]_vars

\* The server's threads are scheduled; clients and main owe nothing.
FairSpec ==
    /\ Spec
    /\ WF_vars(Bind) /\ SF_vars(AddConnection)
    /\ WF_vars(AcceptEnds) /\ SF_vars(CloseConnections)
    /\ \A c \in Clients : /\ WF_vars(Accept(c)) /\ SF_vars(SetRpm(c))
                          /\ SF_vars(RemoveConnection(c))
                          /\ WF_vars(Begin(c) \/ Receive(c) \/ ReceiveEnds(c) \/ NextLine(c) \/ SetYaw(c)
                                     \/ Answer(c) \/ CloseSocket(c))

-----------------------------------------------------------------------------
(* Properties.                                                             *)

\* Every variable has its type.
TypeOK ==
    /\ isRunning \in BOOLEAN /\ accepted \in Clients \cup {NoClient}
    /\ accepter \in {"off", "binding", "waiting", "adding", "ended"}
    /\ stopper \in {"out", "joining", "stopped"}
    /\ lock \in Clients \cup {"free"}
    /\ rpm \in Commands /\ yaw \in Commands /\ snapshot \in [rpm : Commands, yaw : Commands]
    /\ active \subseteq Clients
    /\ peer \in [Clients -> {"away", "queued", "here", "gone"}]
    /\ sent \in [Clients -> Seq(Lines)]
    /\ received \in [Clients -> 0..MaxLines] /\ taken \in [Clients -> 0..MaxLines]
    /\ handler \in [Clients -> HandlerStates]
    /\ answers \in [Clients -> Seq({"OK", "ERROR", "CUT"})]
    /\ closed \in [Clients -> BOOLEAN]

\* The engine never steers with the speed of one command and the turn of
\* another, whatever the handlers of several clients do at the time.
SnapshotIsOneCommand == snapshot.rpm = snapshot.yaw

\* Types, and whole commands.
Safety == TypeOK /\ SnapshotIsOneCommand

Verdict(l) == IF l = "motion" THEN "OK" ELSE "ERROR"

Cut(c, n) == \E m \in 1..n : answers[c][m] = "CUT"

\* As long as a client reads, the n-th answer it gets is the one to the n-th line
\* it has sent, for all the ways in which TCP cuts its lines into batches.
AnswersMatchLines ==
    \A c \in Clients : \A n \in 1..Len(answers[c]) :
        ~Cut(c, n) => n <= Len(sent[c]) /\ answers[c][n] = Verdict(sent[c][n])

\* When stop_server has returned, no handler is left with an open socket.
StopClosesAll ==
    stopper = "stopped" =>
        \A c \in Clients : handler[c] \notin {"none", "ended"} => closed[c]

\* The handlers' two assignments and main's two reads are those of one register: a
\* command takes force with the first of them, when its line counts as considered.
Considered == [c \in Clients |-> IF handler[c] = "rpm" THEN taken[c] - 1 ELSE taken[c]]

Register == INSTANCE SetpointRegister WITH
    inForce <- rpm, seen <- snapshot, considered <- Considered

\* Main reads the command in force, whole, and no line of a client takes force twice or
\* after a later one, whatever the handlers, the network and the stop are doing.
ImplementsRegister == Register!Spec

\* Every line a connected client has sent is answered, or the server closes the
\* connection, or the client has not read: none is left lying in a handler's buffer.
LinesAreServed ==
    \A c \in Clients : \A n \in 1..MaxLines :
        (handler[c] = "recv" /\ Len(sent[c]) = n)
            ~> (Len(answers[c]) >= n \/ closed[c] \/ Cut(c, Len(answers[c])))

\* Once stopped, every handler ends and every connection is forgotten.
HandlersEnd ==
    (stopper = "stopped") ~>
        (active = {} /\ \A c \in Clients : handler[c] \in {"none", "ended"})

-----------------------------------------------------------------------------
(* What the repository's text says and the code does not do.               *)

\* "An explicit execution response sentence frame [...] for every single parsed
\* line command received": a running server leaves no parsed line of a client
\* that is still there, and reads, unanswered and moves on.
ParsedLinesAreAnswered ==
    \A c \in Clients :
        (/\ isRunning /\ peer[c] = "here" /\ ~Cut(c, Len(answers[c]))
         /\ handler[c] \in {"start", "recv", "remove", "ended"})
            => Len(answers[c]) = taken[c]
=============================================================================
