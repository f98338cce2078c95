----------------------------- MODULE SerialIntake -----------------------------
(***************************************************************************)
(* ThreadedSerialPortListener: the thread that opens the port, reads lines *)
(* from it and hands them to the router, drops the port on any exception   *)
(* and tries again three seconds later; and the caller that starts and     *)
(* stops it.                                                               *)
(*                                                                         *)
(* serial_connection and is_listening are shared without a lock, so each   *)
(* access is an action.  Time is in what may be outlasted: the two seconds *)
(* of stop_listening's join are shorter than the pause, than an open the   *)
(* driver holds up, and than a readline on bytes that never end in a line  *)
(* feed, and longer than everything else a thread does.                    *)
(***************************************************************************)
EXTENDS Integers, FiniteSets

CONSTANTS
    MaxStarts,      \* bound: calls of start_listening that start a thread
    MaxHandles      \* bound: successful opens

ASSUME ConstantsAssumption ==
    MaxStarts \in Nat \ {0} /\ MaxHandles \in Nat

VARIABLES
    pyserial,       \* is the package installed?
    plugged,        \* does the device answer?
    isListening,
    serialConn,     \* serial_connection: a handle, 0 for None
    open,           \* the handles that are open
    opened,         \* handles made so far
    odd,            \* has the router been handed an odd number of lines?
    reader,         \* the threads: where each stands
    using,          \* the handle a thread reads or closes
    worker,         \* worker_thread, 0 for None
    caller,         \* where the caller stands
    overlap,        \* history: a thread was started while another one lived
    outlasted       \* history: a thread outlasted the join, and in what

vars == <<pyserial, plugged, isListening, serialConn, open, opened, odd, reader, using, worker,
          caller, overlap, outlasted>>

Threads == 1..MaxStarts
Handles == 1..MaxHandles
Alive(t) == reader[t] \notin {"unborn", "ended"}

Init ==
    /\ pyserial \in BOOLEAN /\ plugged \in BOOLEAN
    /\ isListening = FALSE /\ serialConn = 0 /\ open = {} /\ opened = 0 /\ odd = FALSE
    /\ reader = [t \in Threads |-> "unborn"] /\ using = [t \in Threads |-> 0]
    /\ worker = 0 /\ caller = "idle"
    /\ overlap = FALSE /\ outlasted = "nothing"

\* The cable, pulled and put back.
Plug ==
    /\ plugged' = ~plugged
    /\ UNCHANGED <<pyserial, isListening, serialConn, open, opened, odd, reader, using, worker,
                   caller, overlap, outlasted>>

-----------------------------------------------------------------------------
(* The caller.                                                             *)

StartListening ==
    /\ caller \in {"idle", "stopped", "failed"} /\ ~isListening
    /\ \E t \in Threads :
        /\ reader[t] = "unborn" /\ \A u \in 1..t-1 : reader[u] # "unborn"
        /\ reader' = [reader EXCEPT ![t] = "test"]
        /\ worker' = t
    /\ isListening' = TRUE
    /\ overlap' = (overlap \/ \E t \in Threads : Alive(t))
    /\ caller' = "idle" /\ outlasted' = "nothing"
    /\ UNCHANGED <<pyserial, plugged, serialConn, open, opened, odd, using>>

callerFrame == <<pyserial, plugged, serialConn, opened, odd, reader, using, worker, overlap>>

StopListening ==
    /\ caller = "idle" /\ isListening
    /\ isListening' = FALSE
    /\ caller' = "joining"
    /\ UNCHANGED <<callerFrame, open, outlasted>>

\* Mutant of Join: the join has no effect.
Join_None ==
    /\ caller = "joining"
    /\ outlasted' = "nothing"
    /\ caller' = "closing"
    /\ UNCHANGED <<callerFrame, isListening, open>>

Join ==
    /\ caller = "joining"
    /\ \/ reader[worker] = "ended" /\ outlasted' = "nothing"
       \/ /\ reader[worker] \in {"pause", "opening", "reading"}
          /\ outlasted' = reader[worker]
    /\ caller' = "closing"
    /\ UNCHANGED <<callerFrame, isListening, open>>

\* `serial_connection and serial_connection.is_open`, then serial_connection.close():
\* the name is looked up three times.  On a None that a thread has put there since the
\* first, the AttributeError ends stop_listening.
TestPort ==
    /\ caller = "closing"
    /\ caller' = IF serialConn = 0 THEN "stopped" ELSE "asking"
    /\ UNCHANGED <<callerFrame, isListening, open, outlasted>>

AskPort ==
    /\ caller = "asking"
    /\ caller' = IF serialConn = 0 THEN "failed"
                 ELSE IF serialConn \in open THEN "shutting" ELSE "stopped"
    /\ UNCHANGED <<callerFrame, isListening, open, outlasted>>

ClosePort ==
    /\ caller = "shutting"
    /\ caller' = IF serialConn = 0 THEN "failed" ELSE "stopped"
    /\ open' = open \ {serialConn}
    /\ UNCHANGED <<callerFrame, isListening, outlasted>>

-----------------------------------------------------------------------------
(* A reader thread.                                                        *)

Goes(t, from, to) == reader[t] = from /\ reader' = [reader EXCEPT ![t] = to]
readerFrame == <<pyserial, plugged, isListening, worker, caller, overlap, outlasted>>

TestListening(t) ==
    /\ IF isListening THEN Goes(t, "test", "check") ELSE Goes(t, "test", "ended")
    /\ UNCHANGED <<readerFrame, serialConn, open, opened, odd, using>>

\* Without pyserial the thread makes up headings until it is told to stop.
Connects(t, from) == Goes(t, from, IF pyserial THEN "opening" ELSE "emulating")

\* `serial_connection is None or not serial_connection.is_open`: two lookups, and the
\* second fails on None.
TestConnection(t) ==
    /\ IF serialConn = 0 THEN Connects(t, "check") ELSE Goes(t, "check", "asking")
    /\ UNCHANGED <<readerFrame, serialConn, open, opened, odd, using>>

AskConnection(t) ==
    /\ \/ serialConn = 0 /\ Goes(t, "asking", "drop")
       \/ serialConn \in open /\ Goes(t, "asking", "read")
       \/ serialConn \notin open \cup {0} /\ Connects(t, "asking")
    /\ UNCHANGED <<readerFrame, serialConn, open, opened, odd, using>>

OpenPort(t) ==
    /\ plugged /\ opened < MaxHandles
    /\ Goes(t, "opening", "read")
    /\ opened' = opened + 1 /\ serialConn' = opened' /\ open' = open \cup {opened'}
    /\ UNCHANGED <<readerFrame, odd, using>>

OpenFails(t) ==
    /\ ~plugged
    /\ Goes(t, "opening", "drop")
    /\ UNCHANGED <<readerFrame, serialConn, open, opened, odd, using>>

\* The name is looked up, then the handle blocks; on None the lookup fails.
BeginRead(t) ==
    /\ using' = [using EXCEPT ![t] = serialConn]
    /\ IF serialConn = 0 THEN Goes(t, "read", "drop") ELSE Goes(t, "read", "reading")
    /\ UNCHANGED <<readerFrame, serialConn, open, opened, odd>>

\* A line, or bytes that a timeout cut short.
LineRead(t) ==
    /\ using[t] \in open /\ plugged
    /\ Goes(t, "reading", "ingest")
    /\ UNCHANGED <<readerFrame, serialConn, open, opened, odd, using>>

NothingRead(t) ==
    /\ using[t] \in open
    /\ Goes(t, "reading", "test")
    /\ UNCHANGED <<readerFrame, serialConn, open, opened, odd, using>>

\* The device is gone, or the handle was closed by another thread.
ReadFails(t) ==
    /\ ~plugged \/ using[t] \notin open
    /\ Goes(t, "reading", "drop")
    /\ UNCHANGED <<readerFrame, serialConn, open, opened, odd, using>>

\* Whatever the router makes of the line, or raises.
Ingest(t) ==
    /\ Goes(t, "ingest", "test")
    /\ odd' = ~odd
    /\ UNCHANGED <<readerFrame, serialConn, open, opened, using>>

Emulate(t) ==
    /\ IF isListening THEN Goes(t, "emulating", "emulating") /\ odd' = ~odd
       ELSE ~isListening /\ Goes(t, "emulating", "ended") /\ UNCHANGED odd
    /\ UNCHANGED <<readerFrame, serialConn, open, opened, using>>

\* Mutant of TestDropped: the handle is forgotten without being closed.
TestDropped_NotClosed(t) ==
    /\ Goes(t, "drop", "forgetting")
    /\ UNCHANGED <<readerFrame, serialConn, open, opened, odd, using>>

\* The exception handler, up to its sleep.
TestDropped(t) ==
    /\ Goes(t, "drop", IF serialConn = 0 THEN "pause" ELSE "closing")
    /\ UNCHANGED <<readerFrame, serialConn, open, opened, odd, using>>

\* A close that fails, or a None by now, is passed over.
CloseDropped(t) ==
    /\ Goes(t, "closing", "forgetting")
    /\ open' = open \ {serialConn}
    /\ UNCHANGED <<readerFrame, serialConn, opened, odd, using>>

\* Mutant of ForgetPort: the exception ends the thread.
ForgetPort_Ends(t) ==
    /\ Goes(t, "forgetting", "ended")
    /\ serialConn' = 0
    /\ UNCHANGED <<readerFrame, open, opened, odd, using>>

ForgetPort(t) ==
    /\ Goes(t, "forgetting", "pause")
    /\ serialConn' = 0
    /\ UNCHANGED <<readerFrame, open, opened, odd, using>>

EndPause(t) ==
    /\ Goes(t, "pause", "test")
    /\ UNCHANGED <<readerFrame, serialConn, open, opened, odd, using>>

ReaderNext(t) ==
    \/ TestListening(t) \/ TestConnection(t) \/ AskConnection(t) \/ OpenPort(t) \/ OpenFails(t)
    \/ BeginRead(t) \/ LineRead(t) \/ NothingRead(t) \/ ReadFails(t) \/ Ingest(t)
    \/ Emulate(t) \/ TestDropped(t) \/ CloseDropped(t) \/ ForgetPort(t) \/ EndPause(t)

StopNext == Join \/ TestPort \/ AskPort \/ ClosePort
CallerNext == StartListening \/ StopListening \/ StopNext
Next == Plug \/ CallerNext \/ \E t \in Threads : ReaderNext(t)

Spec == Init /\ [][Next]_vars

\* A thread goes on, and so does a stop that has begun.
FairSpec ==
    /\ Spec /\ WF_vars(StopNext)
    /\ \A t \in Threads : WF_vars(ReaderNext(t))

-----------------------------------------------------------------------------
(* Properties.                                                             *)

Places == {"unborn", "test", "check", "asking", "opening", "read", "reading", "ingest",
           "emulating", "drop", "closing", "forgetting", "pause", "ended"}
Stops == {"idle", "joining", "closing", "asking", "shutting", "stopped", "failed"}

TypeOK ==
    /\ pyserial \in BOOLEAN /\ plugged \in BOOLEAN /\ isListening \in BOOLEAN
    /\ serialConn \in Handles \cup {0} /\ open \subseteq Handles
    /\ opened \in 0..MaxHandles /\ odd \in BOOLEAN
    /\ reader \in [Threads -> Places] /\ using \in [Threads -> Handles \cup {0}]
    /\ worker \in Threads \cup {0} /\ caller \in Stops
    /\ overlap \in BOOLEAN /\ outlasted \in {"nothing", "pause", "opening", "reading"}

\* However often the device drops out, no handle is left behind: as long as no thread
\* was started over a living one, the open handle is the one in serial_connection;
\* and after a stop, failed or not, there is none, unless an open outlasted the join.
NoHandleIsLost ==
    /\ ~overlap => open \subseteq {serialConn}
    /\ (~overlap /\ caller \in {"stopped", "failed"} /\ outlasted # "opening") => open = {}

\* stop_listening finds None where it has just seen a port only if a thread outlasted its
\* join in an open or a read, or was started over another.
StopFailsIfOutlasted ==
    caller = "failed" => overlap \/ outlasted \in {"opening", "reading"}

\* Types, the handles, and the close at the end of a stop.
Safety == TypeOK /\ NoHandleIsLost /\ StopFailsIfOutlasted

\* Once stop_listening has ended, the router is handed no further line, unless a
\* thread was started over another or outlasted the join in an open or a read.
NothingAfterStop ==
    [][(caller = "stopped" /\ ~overlap /\ outlasted \in {"nothing", "pause"})
            => odd' = odd]_vars

Reading(t) == reader[t] \in {"reading", "ingest"}

\* While the listener is not stopped, a device that stays plugged in comes to be read
\* again after any number of failures.
Reconnects ==
    (isListening /\ pyserial /\ plugged)
        ~> \/ \E t \in Threads : Reading(t)
           \/ ~isListening \/ ~plugged \/ opened = MaxHandles
=============================================================================
