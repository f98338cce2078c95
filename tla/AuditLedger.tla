---------------------------- MODULE AuditLedger ----------------------------
(***************************************************************************)
(* A hash-chained compliance ledger over several runs of the process:      *)
(* FlagHalyardFaultLogger (and its twin BilgeEnvironmentalAuditLogger),     *)
(* the disk it appends to, and the boot verification that re-reads it.      *)
(*                                                                         *)
(* Threads: the main loop (Boot, Start, Capture, Stop, Exit) and the       *)
(* daemon writer (the actions named in Writer).  The environment           *)
(* may crash the process, fail any disk access, turn the calendar page and *)
(* damage a stored row.                                                    *)
(*                                                                         *)
(* A snapshot is identified by its timestamp, a number that only grows.    *)
(* SHA-256 is taken to be free of collisions, so a digest is the sequence  *)
(* of snapshots it commits to: Sha256(data, prev) = Append(prev, data).    *)
(***************************************************************************)
EXTENDS Naturals, Sequences, FiniteSets

CONSTANTS
    QueueMax,       \* capacity of log_queue (1000 in the code)
    MaxCaptures,    \* bound: snapshots taken over all runs
    MaxRuns,        \* bound: runs of the process that pass the boot check
    MaxDays,        \* bound: calendar days
    MaxDamage,      \* bound: rows damaged on disk
    WatchdogBound   \* does the name `watchdog` resolve in the writer's module?

ASSUME ConstantsAssumption ==
    /\ QueueMax \in Nat \ {0}
    /\ MaxCaptures \in Nat /\ MaxRuns \in Nat
    /\ MaxDays \in Nat \ {0} /\ MaxDamage \in Nat
    /\ WatchdogBound \in BOOLEAN

VARIABLES
    proc,       \* "down", "up", or "stopping" (inside stop_logger_services)
    run,        \* how many runs have passed the boot check
    day,        \* the calendar day
    verdict,    \* what the last boot verification reported
    isLogging, queue, prevHash,     \* the logger's attributes
    pc,         \* where the writer thread stands
    item,       \* the snapshot it has taken off the queue
    fileDay,    \* the day in log_file_path
    reports,    \* log_write_success calls made for rows of this run
    files,      \* the ledger files on disk, one per day
    logDir,     \* does the log directory exist?  (ledgers share it)
    clock,      \* the last timestamp handed out
    damaged     \* the rows damaged on disk: pairs <<day, position>>

procVars == <<proc, run, verdict>>
logVars  == <<isLogging, queue, prevHash, pc, item, fileDay, reports>>
diskVars == <<files, damaged, logDir>>
vars     == <<procVars, logVars, diskVars, day, clock>>

Days == 1..MaxDays
Digest == Seq(Nat)
ZeroHash == <<>>
Garbage == 0        \* what a damaged cell holds; no timestamp is 0

Sha256(data, prev) == Append(prev, data)

\* `run` in a row is history only: the code does not store it.
Row == [data : Nat, sha : Digest, prev : Digest, run : Nat]
File == [made : BOOLEAN, header : BOOLEAN, rows : Seq(Row)]
NoFile == [made |-> FALSE, header |-> FALSE, rows |-> <<>>]

\* The row the writer builds from the snapshot it holds, and the files with it.
NewRow ==
    [data |-> item, sha |-> Sha256(item, prevHash), prev |-> prevHash, run |-> run]
StoredRow == [files EXCEPT ![fileDay].rows = Append(@, NewRow)]

-----------------------------------------------------------------------------
(* Boot verification: the most recent file of the ledger, row by row.      *)

Latest == {d \in Days : files[d].made /\ \A e \in Days : files[e].made => e <= d}

\* Mutant of PrevOf: the tracked hash is never shifted to the next row.
PrevOf_NotShifted(rows, i) == ZeroHash

PrevOf(rows, i) == IF i = 1 THEN ZeroHash ELSE rows[i-1].sha

\* Mutant of RowVerifies: only the links between rows are compared.
RowVerifies_LinksOnly(rows, i) == rows[i].prev = PrevOf(rows, i)

RowVerifies(rows, i) ==
    /\ rows[i].prev = PrevOf(rows, i)
    /\ rows[i].sha = Sha256(rows[i].data, PrevOf(rows, i))

ChainVerifies(rows) == \A i \in 1..Len(rows) : RowVerifies(rows, i)

FileVerdict(f) ==
    IF ~f.header
    THEN IF f.rows = <<>> THEN "FILE_ACCESS_EXCEPTION" ELSE "UNPROTECTED_SCHEMA"
    ELSE IF ChainVerifies(f.rows) THEN "PASS" ELSE "TAMPER_DETECTION_FAULT"

LedgerVerdict ==
    IF Latest = {} THEN "PASS" ELSE FileVerdict(files[CHOOSE d \in Latest : TRUE])

-----------------------------------------------------------------------------
(* The main thread.                                                        *)

Init ==
    /\ proc = "down" /\ run = 0 /\ verdict = "NONE"
    /\ isLogging = FALSE /\ queue = <<>> /\ prevHash = ZeroHash
    /\ pc = "unborn" /\ item = 0 /\ fileDay = 1 /\ reports = 0
    /\ files = [d \in Days |-> NoFile] /\ damaged = {} /\ logDir \in BOOLEAN
    /\ day = 1 /\ clock = 0

\* The process starts: a failed suite ends it at once, otherwise a new
\* logger object is built.
Boot ==
    /\ proc = "down" /\ run < MaxRuns
    /\ verdict' = LedgerVerdict
    /\ IF verdict' = "PASS"
       THEN /\ proc' = "up" /\ run' = run + 1
            /\ isLogging' = FALSE /\ queue' = <<>> /\ prevHash' = ZeroHash
            /\ pc' = "unborn" /\ item' = 0 /\ reports' = 0
       ELSE UNCHANGED <<proc, run, isLogging, queue, prevHash, pc, item, reports>>
    /\ UNCHANGED <<fileDay, diskVars, day, clock>>

Start ==
    /\ proc = "up" /\ ~isLogging
    /\ isLogging' = TRUE
    /\ pc' = "init"
    /\ UNCHANGED <<procVars, queue, prevHash, item, fileDay, reports, diskVars, day, clock>>

\* Mutant of Capture: one snapshot too many is let in.
Capture_OffByOne ==
    /\ proc = "up" /\ isLogging /\ clock < MaxCaptures
    /\ clock' = clock + 1
    /\ queue' = IF Len(queue) <= QueueMax THEN Append(queue, clock') ELSE queue
    /\ UNCHANGED <<procVars, isLogging, prevHash, pc, item, fileDay, reports, diskVars, day>>

\* put_nowait, and a full queue drops the snapshot.
Capture ==
    /\ proc = "up" /\ isLogging /\ clock < MaxCaptures
    /\ clock' = clock + 1
    /\ queue' = IF Len(queue) < QueueMax THEN Append(queue, clock') ELSE queue
    /\ UNCHANGED <<procVars, isLogging, prevHash, pc, item, fileDay, reports, diskVars, day>>

Stop ==
    /\ proc = "up" /\ isLogging
    /\ proc' = "stopping"
    /\ isLogging' = FALSE
    /\ UNCHANGED <<run, verdict, queue, prevHash, pc, item, fileDay, reports, diskVars, day, clock>>

\* join(timeout=5.0) returns when the writer has ended or the time is up; the
\* interpreter then exits and takes the daemon thread with it.  Whether a row
\* in a stream buffer is flushed on the way out is not defined.
Exit ==
    /\ proc = "stopping"
    /\ proc' = "down"
    /\ \/ UNCHANGED files
       \/ pc = "buffered" /\ files' = StoredRow
    /\ UNCHANGED <<run, verdict, logVars, damaged, logDir, day, clock>>

-----------------------------------------------------------------------------
(* The writer thread.                                                      *)

Running == proc # "down"

\* os.makedirs, if the directory is not there.
MakeDirectory ==
    /\ Running /\ pc = "init"
    /\ logDir' = TRUE
    /\ pc' = "naming"
    /\ UNCHANGED <<procVars, isLogging, queue, prevHash, item, fileDay, reports, files, damaged,
                   day, clock>>

\* No `try` encloses os.makedirs: its error ends the thread before the loop,
\* and is_logging stays as it was.
MakeDirectoryFails ==
    /\ Running /\ pc = "init" /\ ~logDir
    /\ pc' = "stillborn"
    /\ UNCHANGED <<procVars, isLogging, queue, prevHash, item, fileDay, reports, diskVars,
                   day, clock>>

\* open(path, 'w') on a path that does not exist yet creates an empty file.
OpenFile ==
    /\ Running /\ pc = "naming"
    /\ fileDay' = day
    /\ \/ /\ files[day].made
          /\ pc' = "idle" /\ UNCHANGED files
       \/ /\ ~files[day].made
          /\ files' = [files EXCEPT ![day].made = TRUE]
          /\ pc' = "header"
       \/ /\ ~files[day].made           \* the IOError is caught
          /\ pc' = "idle" /\ UNCHANGED files
    /\ UNCHANGED <<procVars, isLogging, queue, prevHash, item, reports, damaged, logDir,
                   day, clock>>

\* The header reaches the disk when the file is closed; the watchdog call
\* that follows is a NameError, outside the loop's try, if the name is unbound.
WriteHeader ==
    /\ Running /\ pc = "header"
    /\ \/ /\ files' = [files EXCEPT ![fileDay].header = TRUE]
          /\ pc' = IF WatchdogBound THEN "idle" ELSE "dead"
       \/ /\ UNCHANGED files            \* the IOError is caught
          /\ pc' = "idle"
    /\ UNCHANGED <<procVars, isLogging, queue, prevHash, item, fileDay, reports, damaged,
                   logDir, day, clock>>

Get ==
    /\ Running /\ pc = "idle" /\ queue # <<>>
    /\ item' = Head(queue) /\ queue' = Tail(queue)
    /\ pc' = "popped"
    /\ UNCHANGED <<procVars, isLogging, prevHash, fileDay, reports, diskVars, day, clock>>

\* Mutant of ExitLoop: the loop tests is_logging alone.
ExitLoop_QueueIgnored ==
    /\ Running /\ pc = "idle" /\ ~isLogging
    /\ pc' = "dead"
    /\ UNCHANGED <<procVars, isLogging, queue, prevHash, item, fileDay, reports, diskVars,
                   day, clock>>

ExitLoop ==
    /\ Running /\ pc = "idle" /\ ~isLogging /\ queue = <<>>
    /\ pc' = "dead"
    /\ UNCHANGED <<procVars, isLogging, queue, prevHash, item, fileDay, reports, diskVars,
                   day, clock>>

\* Mutant of OpenFails: the snapshot is put back, behind newer ones.
OpenFails_Requeues ==
    /\ Running /\ pc = "popped"
    /\ pc' = "backoff"
    /\ queue' = IF Len(queue) < QueueMax THEN Append(queue, item) ELSE queue
    /\ UNCHANGED <<procVars, isLogging, prevHash, item, fileDay, reports, diskVars,
                   day, clock>>

\* open(path, 'a') fails: the snapshot is gone, the writer sleeps.
OpenFails ==
    /\ Running /\ pc = "popped"
    /\ pc' = "backoff"
    /\ UNCHANGED <<procVars, isLogging, queue, prevHash, item, fileDay, reports, diskVars,
                   day, clock>>

\* Mutant of BufferRow: only a queue that is not empty is reported.
BufferRow_QuietIfEmpty ==
    /\ Running /\ pc = "popped"
    /\ pc' = "buffered"
    /\ files' = [files EXCEPT ![fileDay].made = TRUE]
    /\ reports' = IF WatchdogBound /\ queue # <<>> THEN reports + 1 ELSE reports
    /\ UNCHANGED <<procVars, isLogging, queue, prevHash, item, fileDay, damaged, logDir,
                   day, clock>>

\* open(path, 'a') creates the file if need be, writerow fills the stream's
\* buffer, and the watchdog is told of a success.
BufferRow ==
    /\ Running /\ pc = "popped"
    /\ pc' = "buffered"
    /\ files' = [files EXCEPT ![fileDay].made = TRUE]
    /\ reports' = IF WatchdogBound THEN reports + 1 ELSE reports
    /\ UNCHANGED <<procVars, isLogging, queue, prevHash, item, fileDay, damaged, logDir,
                   day, clock>>

\* Leaving the `with` block puts the row on disk; then the hash is cached.
\* On the way out of a NameError the row is stored too, but the thread ends.
CloseRow ==
    /\ Running /\ pc = "buffered"
    /\ files' = StoredRow
    /\ IF WatchdogBound
       THEN prevHash' = NewRow.sha /\ pc' = "idle"
       ELSE prevHash' = prevHash /\ pc' = "dead"
    /\ UNCHANGED <<procVars, isLogging, queue, item, fileDay, reports, damaged, logDir,
                   day, clock>>

\* Mutant of CloseFails: the hash was cached before the row was on disk.
CloseFails_HashCached ==
    /\ Running /\ pc = "buffered"
    /\ pc' = "backoff"
    /\ prevHash' = NewRow.sha
    /\ UNCHANGED <<procVars, isLogging, queue, item, fileDay, reports, diskVars, day, clock>>

\* The write-back at close fails.
CloseFails ==
    /\ Running /\ pc = "buffered"
    /\ pc' = "backoff"
    /\ UNCHANGED <<procVars, isLogging, queue, prevHash, item, fileDay, reports, diskVars,
                   day, clock>>

Recover ==
    /\ Running /\ pc = "backoff"
    /\ pc' = "idle"
    /\ UNCHANGED <<procVars, isLogging, queue, prevHash, item, fileDay, reports, diskVars,
                   day, clock>>

-----------------------------------------------------------------------------
(* The environment.                                                        *)

Crash ==
    /\ Running
    /\ proc' = "down"
    /\ UNCHANGED <<run, verdict, logVars, diskVars, day, clock>>

NextDay ==
    /\ day < MaxDays
    /\ day' = day + 1
    /\ UNCHANGED <<procVars, logVars, diskVars, clock>>

\* A stored cell is altered.
Damage ==
    /\ Cardinality(damaged) < MaxDamage
    /\ \E d \in Days : \E i \in 1..Len(files[d].rows) :
        /\ <<d, i>> \notin damaged
        /\ files' = [files EXCEPT ![d].rows[i].data = Garbage]
        /\ damaged' = damaged \cup {<<d, i>>}
    /\ UNCHANGED <<procVars, logVars, logDir, day, clock>>

Writer == MakeDirectory \/ MakeDirectoryFails \/ OpenFile \/ WriteHeader \/ Get \/ ExitLoop
          \/ OpenFails \/ BufferRow \/ CloseRow \/ CloseFails \/ Recover

Next == Boot \/ Start \/ Capture \/ Stop \/ Exit \/ Writer \/ Crash \/ NextDay \/ Damage

Spec == Init /\ [][Next]_vars

\* The writer thread is scheduled and its disk accesses return.
FairSpec == Spec /\ WF_vars(Writer)

-----------------------------------------------------------------------------
(* Properties.                                                             *)

PcValues == {"unborn", "init", "stillborn", "naming", "header", "idle", "popped", "buffered",
             "backoff", "dead"}
Verdicts == {"NONE", "PASS", "TAMPER_DETECTION_FAULT", "UNPROTECTED_SCHEMA",
             "FILE_ACCESS_EXCEPTION"}

\* Every variable has its type.
TypeOK ==
    /\ proc \in {"down", "up", "stopping"} /\ run \in Nat
    /\ verdict \in Verdicts
    /\ isLogging \in BOOLEAN /\ queue \in Seq(Nat \ {0}) /\ Len(queue) <= QueueMax
    /\ prevHash \in Digest /\ pc \in PcValues /\ item \in Nat
    /\ fileDay \in Days /\ reports \in Nat
    /\ files \in [Days -> File] /\ logDir \in BOOLEAN /\ damaged \subseteq Days \X (Nat \ {0})
    /\ day \in Days /\ clock \in Nat

FirstOfRun(rows, i) == i = 1 \/ rows[i-1].run # rows[i].run

\* Whatever fails and whenever the process dies, a stored row is linked to the
\* row stored before it by the same run, or to the zero hash if it is the first
\* of its run; and unless it was damaged it carries the digest of its data.
\* (The lost-write and back-off paths of _io_writer_worker_loop must not move
\* previous_row_hash past a row that is not on disk.)
RunsAreChained ==
    \A d \in Days : LET rows == files[d].rows IN \A i \in 1..Len(rows) :
        /\ rows[i].prev = IF FirstOfRun(rows, i) THEN ZeroHash ELSE rows[i-1].sha
        /\ <<d, i>> \notin damaged => rows[i].sha = Sha256(rows[i].data, rows[i].prev)

\* The boot check raises no alarm over an undamaged file with a header that a
\* single run wrote: verify_cryptographic_ledger_integrity agrees with the writer.
OneRunVerifies ==
    \A d \in Days : LET f == files[d] IN
        ( /\ f.header
          /\ \A i, j \in 1..Len(f.rows) : f.rows[i].run = f.rows[j].run
          /\ \A i \in 1..Len(f.rows) : <<d, i>> \notin damaged )
        => FileVerdict(f) = "PASS"

\* A run starts only if no row of the most recent file is damaged: the chain
\* check misses no altered data cell, however rows of several runs are mixed.
BootSeesDamage ==
    [][run' > run => \A d \in Latest : \A i \in 1..Len(files[d].rows) :
                        <<d, i>> \notin damaged]_vars

InQueue(t) == Running /\ \E i \in 1..Len(queue) : queue[i] = t

\* No snapshot stays in the queue of a running process for ever, whatever
\* accesses to the ledger's files fail and whenever stop_logger_services is
\* called.  The one way out is a log directory that cannot be made: the writer
\* has then ended before its loop, snapshots are still taken and none is stored.
QueueDrains ==
    \A t \in 1..MaxCaptures : InQueue(t) ~> (~InQueue(t) \/ pc = "stillborn")

RowsOfRun ==
    Cardinality({p \in Days \X (1..MaxCaptures) :
        p[2] <= Len(files[p[1]].rows) /\ files[p[1]].rows[p[2]].run = run})

\* The watchdog has been told of every row of this run that is on disk, the one
\* flushed by the interpreter's exit included: a writer that works is never
\* taken for a stalled one.  (The converse fails: a row is reported in the stream's
\* buffer and may yet be lost.)
RowsAreReported == WatchdogBound => RowsOfRun <= reports

-----------------------------------------------------------------------------
(* What the repository's text says and the code does not do.               *)

\* "Data corruption or manual edit" is what the suite reports: only a damaged
\* row makes it do so.
TamperMeansDamage == verdict = "TAMPER_DETECTION_FAULT" => damaged # {}
=============================================================================
