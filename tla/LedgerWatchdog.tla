--------------------------- MODULE LedgerWatchdog ---------------------------
(***************************************************************************)
(* MultiLedgerHardwareWatchdog between the threads that use it: the ledger *)
(* writers that report their rows, its own checker thread, and the 50 Hz   *)
(* main loop that reads the diagnostics and cuts the motor torque.         *)
(*                                                                         *)
(* A tick is the checker's cadence (0.1 s).  Timestamps are kept as ages,  *)
(* the ticks since they were taken, and an age stops counting at AgeMax,   *)
(* past every threshold.  The checker and the main loop are punctual: a    *)
(* tick does not pass before each has done what it does in one.  The       *)
(* writers owe nothing: a disk access may take for ever.  What waits in    *)
(* their queues (AuditLedger has the queues) is any number.                *)
(***************************************************************************)
EXTENDS Integers, FiniteSets

CONSTANTS
    Ledgers,        \* the keys of ledger_heartbeats
    Timeout,        \* write_timeout_sec, in ticks
    Period,         \* ticks the checker sleeps between two checks
    Overload,       \* a reported depth above this is a fault (500 in the code)
    QueueMax        \* capacity of a writer's queue

ASSUME ConstantsAssumption ==
    /\ IsFiniteSet(Ledgers) /\ Ledgers # {}
    /\ Timeout \in Nat /\ Period \in Nat \ {0} /\ Overload \in Nat /\ QueueMax \in Nat

VARIABLES
    \* the writers
    writer,         \* "idle", or "holding" a row
    held,           \* ticks since the writer took the row it holds (history only)
    \* the watchdog's attributes
    isMonitoring,
    age,            \* ticks since each ledger's heartbeat
    depths, systemFaulted,
    trippedRef,     \* which list object tripped_ledgers is bound to
    heap,           \* the contents of the list objects
    \* the checker thread
    checker,        \* where it stands
    sleep,          \* ticks left of its sleep
    localRef,       \* the list object local_faults is bound to
    \* the main loop
    reader,         \* where it stands in get_watchdog_diagnostics and after
    cycled,         \* has it completed a cycle in this tick?
    diag,           \* the flag and the list reference it was given
    torque          \* what the last cycle sent to the motor

writerVars == <<writer, held>>
ledgerVars == <<age, depths>>
flagVars   == <<systemFaulted, trippedRef, heap>>
checkVars  == <<checker, sleep, localRef>>
readVars   == <<reader, cycled, diag, torque>>
vars == <<writerVars, isMonitoring, ledgerVars, flagVars, checkVars, readVars>>

AgeMax == Timeout + Period + 2
Older(n) == IF n < AgeMax THEN n + 1 ELSE n
Held(l) == IF held[l] <= Timeout + Period THEN held[l] + 1 ELSE held[l]

\* As many list objects as are referred to at a time.
Refs == 1..3

\* Between two cycles the main loop makes no use of the last diagnostics.
NoDiag == [faulted |-> FALSE, tripped |-> 1]

Init ==
    /\ writer = [l \in Ledgers |-> "idle"]
    /\ held = [l \in Ledgers |-> 0]
    /\ isMonitoring = FALSE
    /\ age = [l \in Ledgers |-> 0] /\ depths = [l \in Ledgers |-> 0]
    /\ systemFaulted = FALSE /\ trippedRef = 1 /\ heap = [r \in Refs |-> {}]
    /\ checker = "ended" /\ sleep = 0 /\ localRef = 1
    /\ reader = "computing" /\ cycled = FALSE
    /\ diag = NoDiag /\ torque = "MATH"

-----------------------------------------------------------------------------
(* The ledger writers, as far as the watchdog sees them.                   *)

Take(l) ==
    /\ writer[l] = "idle"
    /\ writer' = [writer EXCEPT ![l] = "holding"]
    /\ UNCHANGED <<held, isMonitoring, ledgerVars, flagVars, checkVars, readVars>>

\* An IOError: the row is lost and nothing is reported.
WriteFails(l) ==
    /\ writer[l] = "holding"
    /\ writer' = [writer EXCEPT ![l] = "idle"]
    /\ held' = [held EXCEPT ![l] = 0]
    /\ UNCHANGED <<isMonitoring, ledgerVars, flagVars, checkVars, readVars>>

\* The row is written and reported, with the number of rows that wait behind it.
LogWriteSuccess(l) ==
    /\ writer[l] = "holding"
    /\ writer' = [writer EXCEPT ![l] = "idle"]
    /\ held' = [held EXCEPT ![l] = 0]
    /\ age' = [age EXCEPT ![l] = 0]
    /\ \E n \in 0..QueueMax : depths' = [depths EXCEPT ![l] = n]
    /\ UNCHANGED <<isMonitoring, flagVars, checkVars, readVars>>

-----------------------------------------------------------------------------
(* The watchdog's own thread and its start and stop.                       *)

StartWatchdog ==
    /\ ~isMonitoring /\ checker = "ended"
    /\ isMonitoring' = TRUE
    /\ age' = [l \in Ledgers |-> 0]
    /\ depths' = [l \in Ledgers |-> 0]
    /\ checker' = "asleep" /\ sleep' = 0
    /\ UNCHANGED <<writerVars, flagVars, localRef, readVars>>

\* The join of a second outlasts the checker's sleep: stop_watchdog returns when
\* the checker has ended, so a later start finds no checker running.
StopWatchdog ==
    /\ isMonitoring
    /\ isMonitoring' = FALSE
    /\ UNCHANGED <<writerVars, ledgerVars, flagVars, checkVars, readVars>>

CheckerEnds ==
    /\ checker = "asleep" /\ sleep = 0 /\ ~isMonitoring
    /\ checker' = "ended"
    /\ UNCHANGED <<writerVars, isMonitoring, ledgerVars, flagVars, sleep, localRef, readVars>>

\* Mutant of IsFaulty: an empty queue that reports nothing is a stall as well.
IsFaulty_DepthIgnored(l) == age[l] > Timeout \/ depths[l] > Overload

\* Mutant of IsFaulty: `and` for `or`.
IsFaulty_BothNeeded(l) == age[l] > Timeout /\ depths[l] > Overload

IsFaulty(l) ==
    \/ age[l] > Timeout /\ depths[l] > 0
    \/ depths[l] > Overload

\* local_faults is a new list, filled under the lock; what nothing refers to any
\* more is collected.
Scan ==
    /\ checker = "asleep" /\ sleep = 0 /\ isMonitoring
    /\ localRef' = CHOOSE r \in Refs : r \notin {trippedRef, diag.tripped}
    /\ heap' = [r \in Refs |-> IF r = localRef' THEN {l \in Ledgers : IsFaulty(l)}
                              ELSE IF r \in {trippedRef, diag.tripped} THEN heap[r] ELSE {}]
    /\ checker' = "scanned"
    /\ UNCHANGED <<writerVars, isMonitoring, ledgerVars, systemFaulted, trippedRef, sleep,
                   readVars>>

\* The flag and the list are written one after the other, outside the lock.
SetFlag ==
    /\ checker = "scanned"
    /\ systemFaulted' = (heap[localRef] # {})
    /\ checker' = "flagged"
    /\ UNCHANGED <<writerVars, isMonitoring, ledgerVars, trippedRef, heap, sleep, localRef,
                   readVars>>

\* Mutant of SetList: the list of the last fault is left in place.
SetList_NotCleared ==
    /\ checker = "flagged"
    /\ trippedRef' = IF systemFaulted THEN localRef ELSE trippedRef
    /\ checker' = "asleep" /\ sleep' = Period
    /\ UNCHANGED <<writerVars, isMonitoring, ledgerVars, systemFaulted, heap, localRef, readVars>>

\* Mutant of SetList: the pause before the next check is a tick too long.
SetList_SleepsLong ==
    /\ checker = "flagged"
    /\ IF systemFaulted
       THEN trippedRef' = localRef /\ UNCHANGED heap
       ELSE heap' = [heap EXCEPT ![trippedRef] = {}] /\ UNCHANGED trippedRef
    /\ checker' = "asleep" /\ sleep' = Period + 1
    /\ UNCHANGED <<writerVars, isMonitoring, ledgerVars, systemFaulted, localRef, readVars>>

SetList ==
    /\ checker = "flagged"
    /\ IF systemFaulted
       THEN trippedRef' = localRef /\ UNCHANGED heap
       ELSE heap' = [heap EXCEPT ![trippedRef] = {}] /\ UNCHANGED trippedRef
    /\ checker' = "asleep" /\ sleep' = Period
    /\ UNCHANGED <<writerVars, isMonitoring, ledgerVars, systemFaulted, localRef, readVars>>

-----------------------------------------------------------------------------
(* The main loop: a cycle reads the flag, then the list, then dispatches.  *)

ReadFlag ==
    /\ reader = "computing" /\ ~cycled
    /\ diag' = [diag EXCEPT !.faulted = systemFaulted]
    /\ reader' = "flagRead"
    /\ UNCHANGED <<writerVars, isMonitoring, ledgerVars, flagVars, checkVars, cycled, torque>>

ReadList ==
    /\ reader = "flagRead"
    /\ diag' = [diag EXCEPT !.tripped = trippedRef]
    /\ reader' = "answered"
    /\ UNCHANGED <<writerVars, isMonitoring, ledgerVars, flagVars, checkVars, cycled, torque>>

\* Mutant of Dispatch: the torque is cut once, on the edge of the flag.
Dispatch_EdgeOnly ==
    /\ reader = "answered"
    /\ torque' = IF diag.faulted /\ torque # "ZERO" THEN "ZERO" ELSE "MATH"
    /\ reader' = "computing" /\ cycled' = TRUE
    /\ diag' = NoDiag
    /\ UNCHANGED <<writerVars, isMonitoring, ledgerVars, flagVars, checkVars>>

Dispatch ==
    /\ reader = "answered"
    /\ torque' = IF diag.faulted THEN "ZERO" ELSE "MATH"
    /\ reader' = "computing" /\ cycled' = TRUE
    /\ diag' = NoDiag
    /\ UNCHANGED <<writerVars, isMonitoring, ledgerVars, flagVars, checkVars>>

Tick ==
    /\ checker = "ended" \/ (checker = "asleep" /\ sleep > 0)
    /\ cycled
    /\ age' = [l \in Ledgers |-> Older(age[l])]
    /\ held' = [l \in Ledgers |-> IF writer[l] = "holding" THEN Held(l) ELSE 0]
    /\ sleep' = IF sleep > 0 THEN sleep - 1 ELSE 0
    /\ cycled' = FALSE
    /\ UNCHANGED <<writer, isMonitoring, depths, flagVars, checker, localRef, reader,
                   diag, torque>>

Next ==
    \/ \E l \in Ledgers : Take(l) \/ WriteFails(l) \/ LogWriteSuccess(l)
    \/ StartWatchdog \/ StopWatchdog \/ CheckerEnds \/ Scan \/ SetFlag \/ SetList
    \/ ReadFlag \/ ReadList \/ Dispatch \/ Tick

Spec == Init /\ [][Next]_vars

-----------------------------------------------------------------------------
(* Properties.                                                             *)

\* Every variable has its type.
TypeOK ==
    /\ writer \in [Ledgers -> {"idle", "holding"}]
    /\ held \in [Ledgers -> 0..AgeMax]
    /\ isMonitoring \in BOOLEAN
    /\ age \in [Ledgers -> 0..AgeMax] /\ depths \in [Ledgers -> 0..QueueMax]
    /\ systemFaulted \in BOOLEAN /\ trippedRef \in Refs /\ heap \in [Refs -> SUBSET Ledgers]
    /\ checker \in {"ended", "asleep", "scanned", "flagged"}
    /\ sleep \in 0..Period /\ localRef \in Refs
    /\ reader \in {"computing", "flagRead", "answered"} /\ cycled \in BOOLEAN
    /\ diag \in [faulted : BOOLEAN, tripped : Refs] /\ torque \in {"MATH", "ZERO"}

Watching == isMonitoring /\ checker # "ended"

\* The last report of l left rows waiting and is older than the timeout, plus
\* the checker's period and another `slack` ticks.
Overdue(l, slack) == depths[l] > 0 /\ age[l] > Timeout + Period + slack

\* A ledger that left rows waiting and then fell silent has raised the flag
\* within the timeout and one period, however the reports of the other ledgers
\* and the two-step publication interleave.
StallIsFlagged == Watching => \A l \in Ledgers : Overdue(l, 0) => systemFaulted

\* One tick later the torque the main loop sends is zero, and stays zero.
StallCutsTorque == Watching => \A l \in Ledgers : Overdue(l, 1) => torque = "ZERO"

\* Between two checks the flag and the list agree, though each is written in
\* place, outside the lock, into a list a reader may hold.
FlagsAgreeAtRest == checker = "asleep" => (systemFaulted <=> heap[trippedRef] # {})

\* Types, and the agreement of flag and list.
Safety == TypeOK /\ FlagsAgreeAtRest

\* When all ledgers have been quiet for a period and a tick, and none had left rows
\* waiting, the motor has its torque back, however old the reports get.
TorqueIsRestored ==
    Watching /\ (\A l \in Ledgers : depths[l] = 0 /\ age[l] > Period + 1) => torque = "MATH"

-----------------------------------------------------------------------------
(* What the repository's text says and the code does not do.               *)

\* "If a file append blocks [...] the watchdog will trip within 1.5 seconds": a
\* writer that has held a row for longer, while watched, has raised the flag.
BlockedAppendIsFlagged ==
    Watching => \A l \in Ledgers :
        (held[l] > Timeout + Period /\ age[l] > Timeout + Period) => systemFaulted
=============================================================================
