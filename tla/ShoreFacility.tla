----------------------------- MODULE ShoreFacility -----------------------------
(***************************************************************************)
(* UnivacBaseInfrastructureCore and ShoreFacilityAuditLogger, which records *)
(* what it dispatches in a chained CSV ledger and in a JSON file holding   *)
(* the live state.                                                         *)
(*                                                                         *)
(* Threads: an operator who moves the authority, the 50 Hz loop that       *)
(* updates and captures, and the logger's writer.  An access to the core   *)
(* under its lock is one action; a file is opened, and written when it is  *)
(* closed, in two, and each may fail or be the last thing a process does.  *)
(*                                                                         *)
(* The numbers and relays an update resolves are abstracted to the side    *)
(* they came from and the update's number; a row's digest, to its number.  *)
(***************************************************************************)
EXTENDS Integers, Sequences

CONSTANTS
    QueueMax,       \* capacity of log_queue
    MaxUpdates,     \* bound: infrastructure updates
    MaxChanges,     \* bound: changes of authority
    MaxFailures,    \* bound: failing file operations
    MaxRuns         \* bound: processes

ASSUME ConstantsAssumption ==
    /\ QueueMax \in Nat \ {0}
    /\ MaxUpdates \in Nat /\ MaxChanges \in Nat /\ MaxFailures \in Nat
    /\ MaxRuns \in Nat \ {0}

VARIABLES
    run,            \* processes started so far
    up,             \* "up", "stopping" (in the join) or "down"
    mode,           \* active_routing_mode
    cache,          \* base_telemetry_cache: the side it was resolved from, and when
    loop, loopMode, \* the update step: where it stands, the mode it read
    result,         \* what it returned
    isLogging, queue,
    writer, row,    \* the writer: where it stands, the row in its hands
    prevHash,       \* previous_row_hash, 0 for the zero digest
    csv, json,      \* the two files
    logDir,         \* does the log directory exist?  (other ledgers share it)
    updates, changes, failures,
    overtaken       \* history: updates since the last change that did not obey it

coreVars  == <<mode, cache, changes, overtaken>>
loopVars  == <<loop, loopMode, result, updates>>
logVars   == <<isLogging, queue, writer, row, prevHash>>
fileVars  == <<csv, json, logDir, failures>>
vars == <<run, up, coreVars, loopVars, logVars, fileVars>>

Modes == {"UNIVAC_DIRECT", "NETWORK_OVERRIDE"}
Actuators == [from : Modes \cup {"DEFAULTS"}, n : 0..MaxUpdates]
Defaults == [from |-> "DEFAULTS", n |-> 0]
Result == [mode : Modes, dispatched : Actuators]
NoResult == [mode |-> "UNIVAC_DIRECT", dispatched |-> Defaults]
Row == [data : Result, prev : 0..MaxUpdates, run : 1..MaxRuns]
Hash(r) == r.data.dispatched.n
NoRow == [data |-> NoResult, prev |-> 0, run |-> 1]
Torn == [torn |-> TRUE, row |-> NoRow]
Whole(r) == [torn |-> FALSE, row |-> r]

\* A new core and a new logger; the files are what earlier runs left.
Fresh ==
    /\ mode' = "UNIVAC_DIRECT" /\ cache' = Defaults /\ overtaken' = 0
    /\ loop' = "top" /\ loopMode' = "UNIVAC_DIRECT" /\ result' = NoResult
    /\ isLogging' = FALSE /\ queue' = << >>
    /\ writer' = "none" /\ row' = NoRow /\ prevHash' = 0

Init ==
    /\ run = 0 /\ up = "down" /\ updates = 0 /\ changes = 0 /\ failures = 0
    /\ mode = "UNIVAC_DIRECT" /\ cache = Defaults /\ overtaken = 0
    /\ loop = "top" /\ loopMode = "UNIVAC_DIRECT" /\ result = NoResult
    /\ isLogging = FALSE /\ queue = << >>
    /\ writer = "none" /\ row = NoRow /\ prevHash = 0
    /\ csv = << >> /\ json = Torn        \* no file is as good as a torn one
    /\ logDir \in BOOLEAN

Boot ==
    /\ up = "down" /\ run < MaxRuns
    /\ run' = run + 1 /\ up' = "up"
    /\ Fresh
    /\ UNCHANGED <<changes, updates, fileVars>>

-----------------------------------------------------------------------------
(* The core.                                                               *)

\* A mode that is neither is refused and changes nothing.
SetBaseRoutingAuthority ==
    /\ up = "up" /\ changes < MaxChanges
    /\ \E requested \in Modes \ {mode} : mode' = requested
    /\ changes' = changes + 1 /\ overtaken' = 0
    /\ UNCHANGED <<run, up, cache, loopVars, logVars, fileVars>>

\* Mutant of ReadMode: the mode is read once, by the first update.
ReadMode_Once ==
    /\ up = "up" /\ loop = "top" /\ updates < MaxUpdates
    /\ loopMode' = IF cache = Defaults THEN mode ELSE loopMode
    /\ loop' = "resolving"
    /\ UNCHANGED <<run, up, coreVars, result, updates, logVars, fileVars>>

\* First hold of the lock in execute_infrastructure_update_step.
ReadMode ==
    /\ up = "up" /\ loop = "top" /\ updates < MaxUpdates
    /\ loopMode' = mode
    /\ loop' = "resolving"
    /\ UNCHANGED <<run, up, coreVars, result, updates, logVars, fileVars>>

\* Second hold: the inputs of the side chosen, bounded, replace the cache.
StoreActuators ==
    /\ up = "up" /\ loop = "resolving"
    /\ updates' = updates + 1
    /\ cache' = [from |-> loopMode, n |-> updates']
    /\ overtaken' = IF loopMode = mode THEN overtaken ELSE overtaken + 1
    /\ loop' = "stored"
    /\ UNCHANGED <<run, up, mode, changes, loopMode, result, logVars, fileVars>>

\* Mutant of ReturnResult: the mode is read again for the answer.
ReturnResult_ModeReread ==
    /\ up = "up" /\ loop = "stored"
    /\ result' = [mode |-> mode, dispatched |-> cache]
    /\ loop' = "capture"
    /\ UNCHANGED <<run, up, coreVars, loopMode, updates, logVars, fileVars>>

\* The answer is made without the lock.
ReturnResult ==
    /\ up = "up" /\ loop = "stored"
    /\ result' = [mode |-> loopMode, dispatched |-> cache]
    /\ loop' = "capture"
    /\ UNCHANGED <<run, up, coreVars, loopMode, updates, logVars, fileVars>>

-----------------------------------------------------------------------------
(* The logger, as its callers see it.                                      *)

StartLoggerServices ==
    /\ up = "up" /\ ~isLogging
    /\ isLogging' = TRUE /\ writer' = "init"
    /\ UNCHANGED <<run, up, coreVars, loopVars, queue, row, prevHash, fileVars>>

\* Nothing is kept before the start, nor when the queue is full.
CaptureFacilityStateSnapshot ==
    /\ up = "up" /\ loop = "capture"
    /\ queue' = IF isLogging /\ Len(queue) < QueueMax THEN Append(queue, result) ELSE queue
    /\ loop' = "top"
    /\ UNCHANGED <<run, up, coreVars, loopMode, result, updates, isLogging, writer, row, prevHash,
                   fileVars>>

StopLoggerServices ==
    /\ up = "up" /\ isLogging
    /\ isLogging' = FALSE /\ up' = "stopping"
    /\ UNCHANGED <<run, coreVars, loopVars, queue, writer, row, prevHash, fileVars>>

\* The join returns, after five seconds if need be, and the process ends.
Exit ==
    /\ up = "stopping"
    /\ up' = "down"
    /\ UNCHANGED <<run, coreVars, loopVars, logVars, fileVars>>

Crash ==
    /\ up # "down"
    /\ up' = "down"
    /\ UNCHANGED <<run, coreVars, loopVars, logVars, fileVars>>

-----------------------------------------------------------------------------
(* The writer thread.                                                      *)

Running == up # "down"
writerFrame == <<run, up, coreVars, loopVars, isLogging>>

\* The directory is there or is made.  Whether a header is written or its IOError
\* caught, the writer goes on to its loop.
InitializeStoragePaths ==
    /\ Running /\ writer = "init"
    /\ logDir' = TRUE
    /\ writer' = "get"
    /\ UNCHANGED <<writerFrame, queue, row, prevHash, csv, json, failures>>

\* No `try` encloses os.makedirs: its error ends the writer before its loop, and
\* is_logging stays as it was.
MakeDirectoryFails ==
    /\ Running /\ writer = "init" /\ ~logDir
    /\ writer' = "stillborn"
    /\ UNCHANGED <<writerFrame, queue, row, prevHash, fileVars>>

Get ==
    /\ Running /\ writer = "get" /\ queue # << >>
    /\ row' = [data |-> Head(queue), prev |-> prevHash, run |-> run]
    /\ queue' = Tail(queue)
    /\ writer' = "append"
    /\ UNCHANGED <<writerFrame, prevHash, fileVars>>

\* Mutant of AppendRow: the digest chained is the one the row already carries.
AppendRow_HashKept ==
    /\ Running /\ writer = "append"
    /\ csv' = Append(csv, row)
    /\ prevHash' = row.prev
    /\ writer' = "overwrite"
    /\ UNCHANGED <<writerFrame, queue, row, json, logDir, failures>>

\* The row is on disk once the file is closed; then its digest is cached.
AppendRow ==
    /\ Running /\ writer = "append"
    /\ csv' = Append(csv, row)
    /\ prevHash' = Hash(row)
    /\ writer' = "overwrite"
    /\ UNCHANGED <<writerFrame, queue, row, json, logDir, failures>>

\* open(path, 'w') empties the live state.
TruncateLiveState ==
    /\ Running /\ writer = "overwrite"
    /\ json' = Torn
    /\ writer' = "dump"
    /\ UNCHANGED <<writerFrame, queue, row, prevHash, csv, logDir, failures>>

\* Mutant of DumpLiveState: the newest snapshot is shown, written to the ledger or not.
DumpLiveState_Newest ==
    /\ Running /\ writer = "dump"
    /\ json' = Whole(IF queue = << >> THEN row ELSE [row EXCEPT !.data = Head(queue)])
    /\ writer' = "get"
    /\ UNCHANGED <<writerFrame, queue, row, prevHash, csv, logDir, failures>>

\* Mutant of DumpLiveState: the dump is left to the next row if one is waiting.
DumpLiveState_Deferred ==
    /\ Running /\ writer = "dump"
    /\ json' = IF queue = << >> THEN json ELSE Whole(row)
    /\ writer' = "get"
    /\ UNCHANGED <<writerFrame, queue, row, prevHash, csv, logDir, failures>>

DumpLiveState ==
    /\ Running /\ writer = "dump"
    /\ json' = Whole(row)
    /\ writer' = "get"
    /\ UNCHANGED <<writerFrame, queue, row, prevHash, csv, logDir, failures>>

\* Mutant of FileFails: the row goes back to the queue, behind what waits there.
FileFails_Requeue ==
    /\ Running /\ writer \in {"append", "overwrite", "dump"} /\ failures < MaxFailures
    /\ failures' = failures + 1
    /\ queue' = IF writer = "append" /\ Len(queue) < QueueMax THEN Append(queue, row.data) ELSE queue
    /\ writer' = "asleep"
    /\ UNCHANGED <<writerFrame, row, prevHash, csv, json, logDir>>

\* An IOError in either file, before or (in the live state) amid its writing: the
\* row in hand is given up where it stands and the writer sleeps for a second.
FileFails ==
    /\ Running /\ writer \in {"append", "overwrite", "dump"} /\ failures < MaxFailures
    /\ failures' = failures + 1
    /\ writer' = "asleep"
    /\ UNCHANGED <<writerFrame, queue, row, prevHash, csv, json, logDir>>

Wake ==
    /\ Running /\ writer = "asleep"
    /\ writer' = "get"
    /\ UNCHANGED <<writerFrame, queue, row, prevHash, fileVars>>

EndWriter ==
    /\ Running /\ writer = "get" /\ ~isLogging /\ queue = << >>
    /\ writer' = "ended"
    /\ UNCHANGED <<writerFrame, queue, row, prevHash, fileVars>>

WriterNext ==
    \/ InitializeStoragePaths \/ MakeDirectoryFails
    \/ Get \/ AppendRow \/ TruncateLiveState \/ DumpLiveState
    \/ FileFails \/ Wake \/ EndWriter
LoopNext == ReadMode \/ StoreActuators \/ ReturnResult \/ CaptureFacilityStateSnapshot
Next ==
    \/ Boot \/ Crash \/ Exit
    \/ SetBaseRoutingAuthority
    \/ LoopNext
    \/ StartLoggerServices \/ StopLoggerServices
    \/ WriterNext

Spec == Init /\ [][Next]_vars
FairSpec == Spec /\ WF_vars(WriterNext)

-----------------------------------------------------------------------------
(* Properties.                                                             *)

TypeOK ==
    /\ run \in 0..MaxRuns /\ up \in {"up", "stopping", "down"}
    /\ mode \in Modes /\ cache \in Actuators
    /\ loop \in {"top", "resolving", "stored", "capture"} /\ loopMode \in Modes
    /\ result \in Result
    /\ isLogging \in BOOLEAN /\ queue \in Seq(Result) /\ Len(queue) <= QueueMax
    /\ writer \in {"none", "init", "stillborn", "get", "append", "overwrite", "dump", "asleep",
                  "ended"}
    /\ row \in Row /\ prevHash \in 0..MaxUpdates
    /\ csv \in Seq(Row) /\ json \in [torn : BOOLEAN, row : Row] /\ logDir \in BOOLEAN
    /\ updates \in 0..MaxUpdates /\ changes \in 0..MaxChanges /\ failures \in 0..MaxFailures
    /\ overtaken \in Nat

Honest(r) == r.dispatched.from \in {r.mode, "DEFAULTS"}

\* Single-source authority: what the ledger or its queue says was in charge is the
\* side whose inputs went to the actuators, wherever a change of authority falls
\* in an update, and a change overtakes the one update under way, no more.
OneSourceOfAuthority ==
    /\ overtaken <= 1
    /\ \A i \in 1..Len(queue) : Honest(queue[i])
    /\ \A i \in 1..Len(csv) : Honest(csv[i].data)

\* The ledger's rows are in order, not repeated, and each is linked to the last row
\* its process stored, whatever failed in between and whatever was dropped.
RunsStayChained ==
    \A i \in 1..Len(csv) :
        LET earlier == {j \in 1..i-1 : csv[j].run = csv[i].run}
        IN  /\ \A j \in 1..i-1 : Hash(csv[j]) < Hash(csv[i])
            /\ csv[i].prev = IF earlier = {} THEN 0 ELSE Hash(csv[i-1])

\* A live state that can be read is a row of the ledger, and it is the last row but
\* for one row per failed overwrite, one per process that ended before its overwrite,
\* and the one the writer has in hand.
LiveStateIsInLedger ==
    ~json.torn =>
        \E i \in 1..Len(csv) :
            /\ csv[i] = json.row
            /\ Len(csv) - i <= failures + (run - csv[i].run)
                                        + (IF writer = "overwrite" THEN 1 ELSE 0)

\* Types, and the two files.
FilesAreSound == TypeOK /\ RunsStayChained /\ LiveStateIsInLedger

\* A ledger in the sense of LedgerFifo, of one volume: an update is taken when the loop
\* hands it over, or by the end of its process, waits in queue and hand, and is stored.
Captured == IF loop \in {"stored", "capture"} THEN updates - 1 ELSE updates
InHand == IF writer = "append" THEN <<Hash(row)>> ELSE << >>
Numbers(s) == [i \in 1..Len(s) |-> s[i].dispatched.n]
Waiting == IF Running THEN InHand \o Numbers(queue) ELSE << >>
OnDisk == [v \in {1} |-> [i \in 1..Len(csv) |-> Hash(csv[i])]]

Fifo == INSTANCE LedgerFifo WITH
    Volumes <- {1}, taken <- Captured, pending <- Waiting, stored <- OnDisk

\* Updates reach the ledger file in the order in which the loop captured them, at most
\* once each, across full queues, failing files, crashes and further processes.
ImplementsFifo == Fifo!Spec

\* While the process runs, no file fails and the log directory can be made, the live
\* state comes to show every snapshot that was queued, or a newer one.  (A writer
\* without a directory ends before its loop; snapshots are queued and never shown.)
LiveStateCatchesUp ==
    \A n \in 1..MaxUpdates, k \in 0..MaxFailures :
        (Running /\ failures = k /\ \E i \in 1..Len(queue) : queue[i].dispatched.n = n)
            ~> \/ ~json.torn /\ Hash(json.row) >= n
               \/ failures > k
               \/ writer = "stillborn"
               \/ ~Running

-----------------------------------------------------------------------------
(* What the repository's text says and the code does not do.               *)

\* "Perform atomic overwrite write to json endpoint file": once there is a live state
\* it can be read at any time.
OverwriteIsAtomic == [][json.torn \/ ~json'.torn]_vars
=============================================================================
