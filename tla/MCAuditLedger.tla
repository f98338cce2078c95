---------------------------- MODULE MCAuditLedger ----------------------------
(***************************************************************************)
(* Instances of AuditLedger for TLC, and the mapping under which it        *)
(* implements LedgerFifo: a volume is the file of a day.                   *)
(***************************************************************************)
EXTENDS AuditLedger

\* The snapshot a digest ends with is the one its row was written for, damaged
\* since or not.
SnapshotOf(row) == row.sha[Len(row.sha)]

DayRows(d) == [i \in 1..Len(files[d].rows) |-> SnapshotOf(files[d].rows[i])]

OnDisk == [d \in Days |-> DayRows(d)]

HeldByWriter == IF pc \in {"popped", "buffered"} THEN <<item>> ELSE <<>>

Waiting == IF Running THEN HeldByWriter \o queue ELSE <<>>

Fifo == INSTANCE LedgerFifo WITH
    Volumes <- Days, taken <- clock, pending <- Waiting, stored <- OnDisk

\* Rows reach the files in the order of their timestamps, at most once each,
\* across crashes, restarts, failed writes and midnight.
ImplementsFifo == Fifo!Spec
=============================================================================
