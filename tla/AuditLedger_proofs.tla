------------------------- MODULE AuditLedger_proofs -------------------------
(***************************************************************************)
(* Proofs about AuditLedger, for every queue capacity, any number of runs, *)
(* days, snapshots and damaged rows, and both values of WatchdogBound.     *)
(***************************************************************************)
EXTENDS MCAuditLedger, FiniteSetTheorems, TLAPS

\* A sequence keeps its length and its other elements when one is replaced.
LEMMA SeqExcept ==
    ASSUME NEW S, NEW s \in Seq(S), NEW i \in 1..Len(s), NEW e \in S
    PROVE  /\ [s EXCEPT ![i] = e] \in Seq(S)
           /\ Len([s EXCEPT ![i] = e]) = Len(s)
           /\ \A j \in 1..Len(s) : [s EXCEPT ![i] = e][j] = IF j = i THEN e ELSE s[j]
OBVIOUS

\* A sequence one has appended to is not empty and ends with the new element.
LEMMA AppendLast ==
    ASSUME NEW S, NEW s \in Seq(S), NEW e \in S
    PROVE  /\ Len(Append(s, e)) = Len(s) + 1
           /\ \A j \in 1..Len(s) : Append(s, e)[j] = s[j]
           /\ Append(s, e)[Len(s) + 1] = e
           /\ Append(s, e) # <<>> /\ Append(s, e)[Len(Append(s, e))] = e
<1>1. /\ Len(Append(s, e)) = Len(s) + 1 /\ Len(s) \in Nat
      /\ \A j \in 1..Len(s) : Append(s, e)[j] = s[j]
      /\ Append(s, e)[Len(s) + 1] = e
  OBVIOUS
<1>2. Len(Append(s, e)) # Len(<<>>)
  <2>1. Len(<<>>) = 0
    OBVIOUS
  <2> QED
    BY <1>1, <2>1
<1> QED
  BY <1>1, <1>2

LEMMA InitTypeOK == Init => TypeOK
<1> SUFFICES ASSUME Init PROVE TypeOK
  OBVIOUS
<1>1. <<>> \in Seq(Row) /\ <<>> \in Seq(Nat) /\ <<>> \in Seq(Nat \ {0})
  OBVIOUS
<1>2. NoFile \in File
  BY <1>1 DEF NoFile, File
<1>3. files \in [Days -> File]
  BY <1>2 DEF Init
<1>4. 1 \in Days
  BY ConstantsAssumption DEF Days
<1>5. prevHash \in Digest /\ queue \in Seq(Nat \ {0}) /\ Len(queue) <= QueueMax
  BY <1>1, ConstantsAssumption DEF Init, Digest, ZeroHash
<1> QED
  BY <1>3, <1>4, <1>5 DEF Init, TypeOK, PcValues, Verdicts

\* A row built by the writer is a row, and storing it keeps the files files.
LEMMA StoredRowType ==
    ASSUME TypeOK
    PROVE  NewRow \in Row /\ StoredRow \in [Days -> File]
<1>1. NewRow \in Row
  BY DEF TypeOK, NewRow, Row, Sha256, Digest
<1>2. files[fileDay].rows \in Seq(Row)
  BY DEF TypeOK, File
<1>3. Append(files[fileDay].rows, NewRow) \in Seq(Row)
  BY <1>1, <1>2
<1>4. [files[fileDay] EXCEPT !.rows = Append(@, NewRow)] \in File
  BY <1>3 DEF TypeOK, File
<1>5. StoredRow \in [Days -> File]
  BY <1>4 DEF TypeOK, StoredRow
<1> QED
  BY <1>1, <1>5

LEMMA VerdictType == LedgerVerdict \in Verdicts
BY DEF LedgerVerdict, FileVerdict, Verdicts

LEMMA NextTypeOK ==
    ASSUME TypeOK, [Next]_vars
    PROVE  TypeOK'
<1> USE ConstantsAssumption
<1>1. CASE Boot
  <2>1. verdict' \in Verdicts
    BY <1>1, VerdictType DEF Boot
  <2>2. ZeroHash \in Digest /\ <<>> \in Seq(Nat \ {0})
    BY DEF ZeroHash, Digest
  <2>3. CASE verdict' = "PASS"
    <3>1. queue' \in Seq(Nat \ {0}) /\ Len(queue') <= QueueMax /\ prevHash' \in Digest
      BY <1>1, <2>2, <2>3 DEF Boot
    <3>2. proc' = "up" /\ isLogging' = FALSE /\ pc' = "unborn"
      BY <1>1, <2>3 DEF Boot
    <3>3. run' \in Nat /\ item' \in Nat /\ reports' \in Nat
      BY <1>1, <2>3 DEF TypeOK, Boot
    <3>4. UNCHANGED <<fileDay, files, damaged, logDir, day, clock>>
      BY <1>1 DEF Boot, diskVars
    <3> QED
      BY <2>1, <3>1, <3>2, <3>3, <3>4 DEF TypeOK, PcValues
  <2>4. CASE verdict' # "PASS"
    BY <1>1, <2>1, <2>4 DEF TypeOK, Boot, diskVars, PcValues
  <2> QED
    BY <2>3, <2>4
<1>2. CASE Start
  BY <1>2 DEF TypeOK, Start, procVars, diskVars, PcValues
<1>3. CASE Capture
  <2>1. clock' \in Nat \ {0}
    BY <1>3 DEF TypeOK, Capture
  <2>2. queue' \in Seq(Nat \ {0}) /\ Len(queue') <= QueueMax
    BY <1>3, <2>1 DEF TypeOK, Capture
  <2> QED
    BY <1>3, <2>1, <2>2 DEF TypeOK, Capture, procVars, diskVars
<1>4. CASE Stop
  BY <1>4 DEF TypeOK, Stop, diskVars
<1>5. CASE Exit
  BY <1>5, StoredRowType DEF TypeOK, Exit, logVars
<1>6. CASE OpenFile
  <2>1. [files EXCEPT ![day].made = TRUE] \in [Days -> File]
    BY DEF TypeOK, File
  <2> QED
    BY <1>6, <2>1 DEF TypeOK, OpenFile, procVars, PcValues
<1>7. CASE WriteHeader
  <2>1. [files EXCEPT ![fileDay].header = TRUE] \in [Days -> File]
    BY DEF TypeOK, File
  <2> QED
    BY <1>7, <2>1 DEF TypeOK, WriteHeader, procVars, PcValues
<1>8. CASE Get
  <2>1. Head(queue) \in Nat /\ Tail(queue) \in Seq(Nat \ {0}) /\ Len(Tail(queue)) <= QueueMax
    BY <1>8 DEF TypeOK, Get
  <2> QED
    BY <1>8, <2>1 DEF TypeOK, Get, procVars, diskVars, PcValues
<1>9. CASE ExitLoop
  BY <1>9 DEF TypeOK, ExitLoop, procVars, diskVars, PcValues
<1>10. CASE OpenFails
  BY <1>10 DEF TypeOK, OpenFails, procVars, diskVars, PcValues
<1>11. CASE BufferRow
  <2>1. [files EXCEPT ![fileDay].made = TRUE] \in [Days -> File]
    BY DEF TypeOK, File
  <2> QED
    BY <1>11, <2>1 DEF TypeOK, BufferRow, procVars, PcValues
<1>12. CASE CloseRow
  <2>1. NewRow.sha \in Digest
    BY StoredRowType DEF Row
  <2> QED
    BY <1>12, <2>1, StoredRowType DEF TypeOK, CloseRow, procVars, PcValues
<1>13. CASE CloseFails
  BY <1>13 DEF TypeOK, CloseFails, procVars, diskVars, PcValues
<1>14. CASE Recover
  BY <1>14 DEF TypeOK, Recover, procVars, diskVars, PcValues
<1>15. CASE Crash
  BY <1>15 DEF TypeOK, Crash, logVars, diskVars
<1>16. CASE NextDay
  BY <1>16 DEF TypeOK, NextDay, procVars, logVars, diskVars, Days
<1>17. CASE Damage
  <2>1. PICK d \in Days : \E i \in 1..Len(files[d].rows) :
            /\ files' = [files EXCEPT ![d].rows[i].data = Garbage]
            /\ damaged' = damaged \cup {<<d, i>>}
    BY <1>17 DEF Damage
  <2>2. PICK i \in 1..Len(files[d].rows) :
            /\ files' = [files EXCEPT ![d].rows[i].data = Garbage]
            /\ damaged' = damaged \cup {<<d, i>>}
    BY <2>1
  <2>3. files[d].rows \in Seq(Row)
    BY DEF TypeOK, File
  <2>4. [files[d].rows EXCEPT ![i].data = Garbage] \in Seq(Row)
    <3>1. files[d].rows[i] \in Row
      BY <2>3
    <3>2. [files[d].rows[i] EXCEPT !.data = Garbage] \in Row
      BY <3>1 DEF Row, Garbage
    <3> QED
      BY <2>3, <3>2, SeqExcept
  <2>5. files' \in [Days -> File]
    BY <2>2, <2>4 DEF TypeOK, File
  <2>6. damaged' \subseteq Days \X (Nat \ {0})
    BY <2>2, <2>3 DEF TypeOK
  <2> QED
    BY <1>17, <2>5, <2>6 DEF TypeOK, Damage, procVars, logVars
<1>18. CASE MakeDirectory
  BY <1>18 DEF TypeOK, MakeDirectory, procVars, PcValues
<1>19. CASE MakeDirectoryFails
  BY <1>19 DEF TypeOK, MakeDirectoryFails, procVars, diskVars, PcValues
<1>20. CASE UNCHANGED vars
  BY <1>20 DEF TypeOK, vars, procVars, logVars, diskVars
<1> QED
  BY <1>1, <1>2, <1>3, <1>4, <1>5, <1>6, <1>7, <1>8, <1>9, <1>10, <1>11, <1>12, <1>13, <1>14,
     <1>15, <1>16, <1>17, <1>18, <1>19, <1>20 DEF Next, Writer

\* Every variable keeps its type, the queue its capacity: AuditLedger!TypeOK.
THEOREM TypeCorrect == Spec => []TypeOK
<1>1. Init => TypeOK
  BY InitTypeOK
<1>2. TypeOK /\ [Next]_vars => TypeOK'
  BY NextTypeOK
<1> QED
  BY <1>1, <1>2, PTL DEF Spec

-----------------------------------------------------------------------------
(***************************************************************************)
(* The inductive invariant.  That stored rows are chained is not inductive *)
(* by itself: the next row is linked to previous_row_hash, so the attribute *)
(* must be known to match the end of the file the writer appends to, from  *)
(* the moment its thread starts, and rows of earlier runs must not be      *)
(* mistaken for rows of this one.                                          *)
(***************************************************************************)

Positions(d) == 1..Len(files[d].rows)

\* What is known of one stored row: its links and its digest (RunsAreChained),
\* that this run or an earlier one wrote it, and that its digest ends with a
\* timestamp, which the content of a damaged cell is not.
RowIsSound(d, i) ==
    LET rows == files[d].rows IN
    /\ rows[i].prev = IF FirstOfRun(rows, i) THEN ZeroHash ELSE rows[i-1].sha
    /\ <<d, i>> \notin damaged => rows[i].sha = Sha256(rows[i].data, rows[i].prev)
    /\ rows[i].run <= run
    /\ rows[i].sha # <<>> /\ rows[i].sha[Len(rows[i].sha)] # Garbage

DamageShows ==
    \A p \in damaged : /\ p[2] <= Len(files[p[1]].rows)
                       /\ files[p[1]].rows[p[2]].data = Garbage

DiskIsSound == (\A d \in Days : \A i \in Positions(d) : RowIsSound(d, i)) /\ DamageShows

\* No row of this run is stored yet.
NothingWritten == \A d \in Days : \A i \in Positions(d) : files[d].rows[i].run # run

\* What previous_row_hash has to be for the next row of run r.
TailHash(rows, r) ==
    IF rows # <<>> /\ rows[Len(rows)].run = r THEN rows[Len(rows)].sha ELSE ZeroHash

\* The cached hash and the disk agree, whenever the writer may yet store a row.
BeforeFirstRow == {"unborn", "init", "naming", "header"}
InLoop == {"idle", "popped", "buffered", "backoff"}
CacheMatchesDisk ==
    /\ Running /\ pc \in BeforeFirstRow => prevHash = ZeroHash /\ NothingWritten
    /\ Running /\ pc \in InLoop => prevHash = TailHash(files[fileDay].rows, run)

\* The writer's snapshot is a timestamp, and a logger is started only once.
ItemIsReal == pc \in {"popped", "buffered"} => item # Garbage
StartedOnce == proc = "up" /\ ~isLogging => pc = "unborn"

IInv == TypeOK /\ DiskIsSound /\ CacheMatchesDisk /\ ItemIsReal /\ StartedOnce

LEMMA RowType ==
    ASSUME TypeOK, NEW d \in Days, NEW i \in Positions(d)
    PROVE  /\ i \in Nat \ {0} /\ i <= Len(files[d].rows) /\ Len(files[d].rows) \in Nat
           /\ files[d].rows[i] \in Row /\ files[d].rows[i].run \in Nat
<1>1. files[d].rows \in Seq(Row)
  BY DEF TypeOK, File
<1>2. i \in 1..Len(files[d].rows) /\ Len(files[d].rows) \in Nat
  BY <1>1 DEF Positions
<1>3. files[d].rows[i] \in Row
  BY <1>1, <1>2
<1> QED
  BY <1>2, <1>3 DEF Row

\* All that the chain depends on in a row is left as it was.
SameLinks(d, i) ==
    /\ files'[d].rows[i].run = files[d].rows[i].run
    /\ files'[d].rows[i].sha = files[d].rows[i].sha
    /\ files'[d].rows[i].prev = files[d].rows[i].prev

\* A row stays sound when only data changes, and where it does the row is
\* damaged.
LEMMA RowStaysSound ==
    ASSUME NEW d \in Days, NEW i \in Nat \ {0}, RowIsSound(d, i),
           run \in Nat, run' \in Nat, run <= run', files[d].rows[i].run \in Nat,
           SameLinks(d, i), i = 1 \/ SameLinks(d, i-1),
           <<d, i>> \notin damaged' =>
               <<d, i>> \notin damaged /\ files'[d].rows[i].data = files[d].rows[i].data
    PROVE  RowIsSound(d, i)'
<1>1. FirstOfRun(files[d].rows, i)' = FirstOfRun(files[d].rows, i)
  BY DEF FirstOfRun, SameLinks
<1>2. files'[d].rows[i].run <= run'
  BY DEF RowIsSound, SameLinks
<1>3. files'[d].rows[i].prev =
        IF FirstOfRun(files'[d].rows, i) THEN ZeroHash ELSE files'[d].rows[i-1].sha
  BY <1>1 DEF RowIsSound, SameLinks, FirstOfRun
<1>4. <<d, i>> \notin damaged' =>
        files'[d].rows[i].sha = Sha256(files'[d].rows[i].data, files'[d].rows[i].prev)
  BY DEF RowIsSound, SameLinks
<1>5. files'[d].rows[i].sha # <<>>
      /\ files'[d].rows[i].sha[Len(files'[d].rows[i].sha)] # Garbage
  BY DEF RowIsSound, SameLinks
<1> QED
  BY <1>2, <1>3, <1>4, <1>5 DEF RowIsSound

\* Nothing on disk is lost by a step that leaves the rows alone.
LEMMA RowsUntouched ==
    ASSUME TypeOK, DiskIsSound, damaged' = damaged, run' \in Nat, run <= run',
           \A d \in Days : files'[d].rows = files[d].rows
    PROVE  DiskIsSound'
<1>1. ASSUME NEW d \in Days, NEW i \in Positions(d)' PROVE RowIsSound(d, i)'
  <2>1. i \in Positions(d)
    BY <1>1 DEF Positions
  <2>2. files[d].rows[i].run \in Nat /\ i \in Nat \ {0}
    BY <2>1, RowType
  <2>3. SameLinks(d, i) /\ SameLinks(d, i-1)
    BY DEF SameLinks
  <2>4. files'[d].rows[i].data = files[d].rows[i].data
    OBVIOUS
  <2>5. RowIsSound(d, i) /\ run \in Nat
    BY <2>1 DEF DiskIsSound, TypeOK
  <2> QED
    BY <2>1, <2>2, <2>3, <2>4, <2>5, RowStaysSound
<1>2. DamageShows'
  BY DEF DiskIsSound, DamageShows, TypeOK
<1> QED
  BY <1>1, <1>2 DEF DiskIsSound

\* What the disk looks like after a row was stored.
LEMMA StoredRowShape ==
    ASSUME TypeOK
    PROVE  /\ \A d \in Days \ {fileDay} : StoredRow[d] = files[d]
           /\ Len(StoredRow[fileDay].rows) = Len(files[fileDay].rows) + 1
           /\ StoredRow[fileDay].rows[Len(files[fileDay].rows) + 1] = NewRow
           /\ \A i \in Positions(fileDay) :
                 StoredRow[fileDay].rows[i] = files[fileDay].rows[i]
<1> DEFINE rows == files[fileDay].rows
<1>1. fileDay \in Days /\ rows \in Seq(Row)
  BY DEF TypeOK, File
<1>2. StoredRow[fileDay].rows = Append(rows, NewRow)
  BY <1>1 DEF TypeOK, StoredRow, File
<1>3. \A d \in Days \ {fileDay} : StoredRow[d] = files[d]
  BY DEF TypeOK, StoredRow
<1>4. /\ Len(Append(rows, NewRow)) = Len(rows) + 1
      /\ Append(rows, NewRow)[Len(rows) + 1] = NewRow
      /\ \A i \in 1..Len(rows) : Append(rows, NewRow)[i] = rows[i]
  BY <1>1, StoredRowType, AppendLast
<1> QED
  BY <1>2, <1>3, <1>4 DEF Positions

\* A row stored on a cache that matches the disk is sound, and it leaves the
\* other rows so.
LEMMA RowStored ==
    ASSUME TypeOK, DiskIsSound, prevHash = TailHash(files[fileDay].rows, run), item # Garbage,
           files' = StoredRow, damaged' = damaged, run' = run
    PROVE  DiskIsSound'
<1> DEFINE rows == files[fileDay].rows
           n == Len(rows) + 1
<1>1. fileDay \in Days /\ rows \in Seq(Row) /\ Len(rows) \in Nat /\ run \in Nat
  BY DEF TypeOK, File
<1>2. /\ \A d \in Days \ {fileDay} : files'[d] = files[d]
      /\ Len(files'[fileDay].rows) = n /\ files'[fileDay].rows[n] = NewRow
      /\ \A i \in 1..Len(rows) : files'[fileDay].rows[i] = rows[i]
  BY StoredRowShape DEF Positions
<1>3. ASSUME NEW d \in Days, NEW i \in Positions(d) PROVE RowIsSound(d, i)'
  <2>1. /\ i \in Nat \ {0} /\ i <= Len(files[d].rows) /\ Len(files[d].rows) \in Nat
        /\ files[d].rows[i].run \in Nat
    BY RowType
  <2>2. \A j \in Positions(d) : files'[d].rows[j] = files[d].rows[j]
    BY <1>2 DEF Positions
  <2>3. i \in Positions(d) /\ (i = 1 \/ i-1 \in Positions(d))
    BY <2>1 DEF Positions
  <2>4. SameLinks(d, i) /\ (i = 1 \/ SameLinks(d, i-1))
    BY <2>2, <2>3 DEF SameLinks
  <2>5. files'[d].rows[i].data = files[d].rows[i].data
    BY <2>2
  <2>6. RowIsSound(d, i) /\ run <= run' /\ run' \in Nat
    BY <1>1 DEF DiskIsSound
  <2> QED
    BY <1>1, <2>1, <2>4, <2>5, <2>6, RowStaysSound
<1>4. ASSUME NEW d, NEW i, d = fileDay, i = n PROVE RowIsSound(d, i)'
  <2> DEFINE stored == files'[d].rows
  <2>1. /\ NewRow.sha = Append(prevHash, item) /\ NewRow.data = item
        /\ NewRow.prev = prevHash /\ NewRow.run = run
    BY DEF NewRow, Sha256
  <2>2. prevHash = IF n = 1 \/ rows[n-1].run # run THEN ZeroHash ELSE rows[n-1].sha
    BY <1>1 DEF TailHash
  <2>3. n = 1 \/ stored[n-1] = rows[n-1]
    BY <1>1, <1>2, <1>4
  <2>4. stored[i] = NewRow
    BY <1>2, <1>4
  <2>5. NewRow.prev = IF FirstOfRun(stored, i) THEN ZeroHash ELSE stored[i-1].sha
    BY <1>4, <2>1, <2>2, <2>3, <2>4 DEF FirstOfRun
  <2>6. prevHash \in Seq(Nat) /\ item \in Nat
    BY DEF TypeOK, Digest
  <2>7. Append(prevHash, item) # <<>>
        /\ Append(prevHash, item)[Len(Append(prevHash, item))] = item
    BY <2>6, AppendLast
  <2>8. NewRow.sha # <<>>
    BY <2>1, <2>7
  <2>9. NewRow.sha[Len(NewRow.sha)] = item
    BY <2>1, <2>7
  <2>10. NewRow.run <= run
    BY <1>1, <2>1
  <2>11. NewRow.sha = Sha256(NewRow.data, NewRow.prev)
    BY <2>1 DEF Sha256
  <2> QED
    BY <2>4, <2>5, <2>8, <2>9, <2>10, <2>11 DEF RowIsSound
<1>5. ASSUME NEW d \in Days, NEW i \in Positions(d)' PROVE RowIsSound(d, i)'
  <2>1. CASE i \in Positions(d)
    BY <1>3, <2>1
  <2>2. CASE i \notin Positions(d)
    <3>1. d = fileDay /\ i = n
      BY <1>1, <1>2, <2>2 DEF Positions
    <3> QED
      BY <1>4, <3>1
  <2> QED
    BY <2>1, <2>2
<1>6. DamageShows'
  <2> SUFFICES ASSUME NEW p \in damaged
               PROVE  /\ p[2] <= Len(files'[p[1]].rows)
                      /\ files'[p[1]].rows[p[2]].data = Garbage
    BY DEF DamageShows
  <2>1. /\ p[1] \in Days /\ p[2] \in Nat \ {0} /\ p[2] <= Len(files[p[1]].rows)
        /\ files[p[1]].rows[p[2]].data = Garbage
    BY DEF TypeOK, DiskIsSound, DamageShows
  <2>2. CASE p[1] # fileDay
    BY <1>2, <2>1, <2>2
  <2>3. CASE p[1] = fileDay
    <3>1. p[2] \in 1..Len(rows) /\ p[2] <= n
      BY <1>1, <2>1, <2>3
    <3> QED
      BY <1>2, <2>1, <2>3, <3>1
  <2> QED
    BY <2>2, <2>3
<1> QED
  BY <1>5, <1>6 DEF DiskIsSound

\* What a damaged cell changes: its row's data, and nothing else.
LEMMA DamageStep ==
    ASSUME TypeOK, DiskIsSound, Damage
    PROVE  /\ DiskIsSound'
           /\ \A d \in Days : Len(files'[d].rows) = Len(files[d].rows)
           /\ \A d \in Days : \A i \in Positions(d) : SameLinks(d, i)
<1>1. PICK e \in Days : \E k \in 1..Len(files[e].rows) :
          /\ files' = [files EXCEPT ![e].rows[k].data = Garbage]
          /\ damaged' = damaged \cup {<<e, k>>}
  BY DEF Damage
<1>2. PICK k \in 1..Len(files[e].rows) :
          /\ files' = [files EXCEPT ![e].rows[k].data = Garbage]
          /\ damaged' = damaged \cup {<<e, k>>}
  BY <1>1
<1> DEFINE rows == files[e].rows
           bad == [rows[k] EXCEPT !.data = Garbage]
<1>3. rows \in Seq(Row) /\ k \in 1..Len(rows) /\ Len(rows) \in Nat
  BY DEF TypeOK, File
<1>4. rows[k] \in Row
  BY <1>3
<1>5. /\ bad \in Row /\ bad.data = Garbage
      /\ bad.run = rows[k].run /\ bad.sha = rows[k].sha /\ bad.prev = rows[k].prev
  BY <1>4 DEF Row, Garbage
<1>6. files'[e].rows = [rows EXCEPT ![k] = bad]
  BY <1>2, <1>3 DEF TypeOK, File
<1>7. \A d \in Days : d # e => files'[d] = files[d]
  BY <1>2 DEF TypeOK
<1>8. /\ Len(files'[e].rows) = Len(rows)
      /\ \A j \in 1..Len(rows) : files'[e].rows[j] = IF j = k THEN bad ELSE rows[j]
  BY <1>3, <1>5, <1>6, SeqExcept
<1>9. \A d \in Days : Len(files'[d].rows) = Len(files[d].rows)
  BY <1>7, <1>8
<1>10. ASSUME NEW d \in Days, NEW i \in Positions(d) PROVE SameLinks(d, i)
  <2>1. CASE d = e
    BY <1>5, <1>8, <1>10, <2>1 DEF SameLinks, Positions
  <2>2. CASE d # e
    BY <1>7, <2>2 DEF SameLinks
  <2> QED
    BY <2>1, <2>2
<1>11. ASSUME NEW d \in Days, NEW i \in Positions(d)' PROVE RowIsSound(d, i)'
  <2>1. i \in Positions(d)
    BY <1>9, <1>11 DEF Positions
  <2>2. /\ i \in Nat \ {0} /\ i <= Len(files[d].rows) /\ Len(files[d].rows) \in Nat
        /\ files[d].rows[i].run \in Nat
    BY <2>1, RowType
  <2>3. i = 1 \/ i-1 \in Positions(d)
    BY <2>2 DEF Positions
  <2>4. SameLinks(d, i) /\ (i = 1 \/ SameLinks(d, i-1))
    BY <1>10, <2>1, <2>3
  <2>5. <<d, i>> \notin damaged' =>
            <<d, i>> \notin damaged /\ files'[d].rows[i].data = files[d].rows[i].data
    <3>1. CASE d = e /\ i = k
      BY <1>2, <3>1
    <3>2. CASE d # e
      BY <1>2, <1>7, <3>2
    <3>3. CASE d = e /\ i # k
      BY <1>2, <1>8, <2>1, <3>3 DEF Positions
    <3> QED
      BY <3>1, <3>2, <3>3
  <2>6. RowIsSound(d, i) /\ run \in Nat /\ run' = run
    BY <2>1 DEF DiskIsSound, TypeOK, Damage, procVars
  <2>7. run' \in Nat /\ run <= run'
    BY <2>6
  <2> QED
    BY <2>2, <2>4, <2>5, <2>6, <2>7, RowStaysSound
<1>12. DamageShows'
  <2> SUFFICES ASSUME NEW p \in damaged'
               PROVE  /\ p[2] <= Len(files'[p[1]].rows)
                      /\ files'[p[1]].rows[p[2]].data = Garbage
    BY DEF DamageShows
  <2>1. CASE p = <<e, k>>
    <3>1. p[1] = e /\ p[2] = k /\ k <= Len(rows)
      BY <1>3, <2>1
    <3>2. files'[e].rows[k] = bad
      BY <1>3, <1>8
    <3> QED
      BY <1>5, <1>8, <3>1, <3>2
  <2>2. CASE p # <<e, k>>
    <3>1. /\ p[1] \in Days /\ p[2] \in Nat \ {0} /\ p[2] <= Len(files[p[1]].rows)
          /\ files[p[1]].rows[p[2]].data = Garbage
      BY <1>2, <2>2 DEF TypeOK, DiskIsSound, DamageShows
    <3>2. CASE p[1] # e
      BY <1>7, <3>1, <3>2
    <3>3. CASE p[1] = e
      <4>1. p[2] \in 1..Len(rows)
        BY <1>3, <3>1, <3>3
      <4> QED
        BY <1>5, <1>8, <3>1, <3>3, <4>1
    <3> QED
      BY <3>2, <3>3
  <2> QED
    BY <2>1, <2>2
<1> QED
  BY <1>9, <1>10, <1>11, <1>12 DEF DiskIsSound

-----------------------------------------------------------------------------
(* The cache and the disk.                                                 *)

\* A step that moves neither the cache nor the end of a file, and does not
\* bring the writer into its loop, keeps the two in agreement.
LEMMA CacheKept ==
    ASSUME TypeOK, CacheMatchesDisk, Running' => Running,
           run' = run, prevHash' = prevHash, fileDay' = fileDay,
           \A d \in Days : Len(files'[d].rows) = Len(files[d].rows),
           \A d \in Days : \A i \in Positions(d) : SameLinks(d, i),
           pc' \in BeforeFirstRow => pc \in BeforeFirstRow,
           pc' \in InLoop => pc \in InLoop
    PROVE  CacheMatchesDisk'
<1>1. ASSUME Running', pc' \in BeforeFirstRow PROVE prevHash' = ZeroHash /\ NothingWritten'
  <2>1. prevHash = ZeroHash /\ NothingWritten
    BY <1>1 DEF CacheMatchesDisk
  <2>2. \A d \in Days : Positions(d)' = Positions(d)
    BY DEF Positions
  <2> QED
    BY <2>1, <2>2 DEF NothingWritten, SameLinks
<1>2. ASSUME Running', pc' \in InLoop
      PROVE  prevHash' = TailHash(files[fileDay].rows, run)'
  <2> DEFINE rows == files[fileDay].rows
             after == files'[fileDay].rows
  <2>1. prevHash = TailHash(rows, run)
    BY <1>2 DEF CacheMatchesDisk
  <2>2. fileDay \in Days /\ rows \in Seq(Row)
    BY DEF TypeOK, File
  <2>3. Len(after) = Len(rows) /\ Len(rows) \in Nat
    BY <2>2
  <2>4. TailHash(after, run) = TailHash(rows, run)
    <3>1. CASE Len(rows) = 0
      BY <2>2, <2>3, <3>1 DEF TailHash
    <3>2. CASE Len(rows) # 0
      <4>1. Len(rows) \in Positions(fileDay)
        BY <2>3, <3>2 DEF Positions
      <4>2. after[Len(rows)].run = rows[Len(rows)].run /\ after[Len(rows)].sha = rows[Len(rows)].sha
        BY <2>2, <4>1 DEF SameLinks
      <4>3. rows # <<>> /\ after # <<>>
        BY <2>3, <3>2
      <4> QED
        BY <2>3, <4>2, <4>3 DEF TailHash
    <3> QED
      BY <3>1, <3>2
  <2> QED
    BY <2>1, <2>4
<1> QED
  BY <1>1, <1>2 DEF CacheMatchesDisk

\* As long as the run has stored nothing, the zero hash is the right one in
\* whatever file the writer appends to.
LEMMA CacheBegins ==
    ASSUME TypeOK, NothingWritten, prevHash' = ZeroHash, run' = run, fileDay' \in Days,
           \A d \in Days : files'[d].rows = files[d].rows
    PROVE  CacheMatchesDisk'
<1>1. NothingWritten'
  BY DEF NothingWritten, Positions
<1>2. TailHash(files'[fileDay'].rows, run) = ZeroHash
  <2> DEFINE rows == files[fileDay'].rows
  <2>1. rows \in Seq(Row)
    BY DEF TypeOK, File
  <2>2. CASE Len(rows) = 0
    BY <2>1, <2>2 DEF TailHash
  <2>3. CASE Len(rows) # 0
    <3>1. Len(rows) \in Positions(fileDay')
      BY <2>1, <2>3 DEF Positions
    <3> QED
      BY <3>1 DEF NothingWritten, TailHash
  <2> QED
    BY <2>2, <2>3
<1> QED
  BY <1>1, <1>2 DEF CacheMatchesDisk

LEMMA RowsKept ==
    ASSUME TypeOK, NEW e \in Days,
           files' \in {files, [files EXCEPT ![e].made = TRUE], [files EXCEPT ![e].header = TRUE]}
    PROVE  \A d \in Days : files'[d].rows = files[d].rows
<1> SUFFICES ASSUME NEW d \in Days PROVE files'[d].rows = files[d].rows
  OBVIOUS
<1>1. files \in [Days -> File] /\ files[e] \in File
  BY DEF TypeOK
<1>2. CASE files' = files
  BY <1>2
<1>3. CASE files' = [files EXCEPT ![e].made = TRUE]
  BY <1>1, <1>3 DEF File
<1>4. CASE files' = [files EXCEPT ![e].header = TRUE]
  BY <1>1, <1>4 DEF File
<1> QED
  BY <1>2, <1>3, <1>4

LEMMA RowsSameLinks ==
    ASSUME \A d \in Days : files'[d].rows = files[d].rows
    PROVE  /\ \A d \in Days : Len(files'[d].rows) = Len(files[d].rows)
           /\ \A d \in Days : \A i \in Positions(d) : SameLinks(d, i)
BY DEF SameLinks

\* After a row was stored, the cache that holds its digest matches the disk.
LEMMA CacheFollows ==
    ASSUME TypeOK, files' = StoredRow, run' = run, fileDay' = fileDay,
           pc' = "dead" \/ (pc' = "idle" /\ prevHash' = NewRow.sha)
    PROVE  CacheMatchesDisk'
<1> DEFINE rows == files[fileDay].rows
           after == files'[fileDay].rows
<1>1. rows \in Seq(Row) /\ Len(rows) \in Nat
  BY DEF TypeOK, File
<1>2. Len(after) = Len(rows) + 1 /\ after[Len(rows) + 1] = NewRow
  BY StoredRowShape
<1>3. NewRow.run = run
  BY DEF NewRow
<1>4. after # <<>>
  BY <1>1, <1>2
<1>5. TailHash(after, run) = NewRow.sha
  BY <1>2, <1>3, <1>4 DEF TailHash
<1> QED
  BY <1>5 DEF CacheMatchesDisk, BeforeFirstRow, InLoop

LEMMA InitIInv == Init => IInv
<1> SUFFICES ASSUME Init PROVE IInv
  OBVIOUS
<1>1. TypeOK
  BY InitTypeOK
<1>2. \A d \in Days : files[d].rows = <<>>
  BY DEF Init, NoFile
<1>3. \A d \in Days : Positions(d) = {}
  BY <1>2 DEF Positions
<1>4. DiskIsSound
  BY <1>3 DEF DiskIsSound, DamageShows, Init
<1>5. CacheMatchesDisk /\ ItemIsReal /\ StartedOnce
  BY DEF Init, CacheMatchesDisk, Running, ItemIsReal, StartedOnce
<1> QED
  BY <1>1, <1>4, <1>5 DEF IInv

\* Every step keeps the rows sound.
LEMMA NextDisk ==
    ASSUME IInv, [Next]_vars
    PROVE  DiskIsSound'
<1> USE DEF IInv
<1>1. run \in Nat /\ fileDay \in Days
  BY DEF TypeOK
<1>2. ASSUME files' = StoredRow, pc = "buffered", Running, damaged' = damaged, run' = run
      PROVE  DiskIsSound'
  BY <1>2, RowStored DEF CacheMatchesDisk, InLoop, ItemIsReal
<1>3. CASE Exit
  <2>1. CASE UNCHANGED files
    BY <1>1, <1>3, <2>1, RowsUntouched DEF Exit
  <2>2. CASE pc = "buffered" /\ files' = StoredRow
    BY <1>2, <1>3, <2>2 DEF Exit, Running
  <2> QED
    BY <1>3, <2>1, <2>2 DEF Exit
<1>4. CASE CloseRow
  BY <1>2, <1>4 DEF CloseRow, procVars
<1>5. CASE Damage
  BY <1>5, DamageStep
<1>6. CASE Boot
  <2>1. run' \in Nat /\ run <= run'
    BY <1>1, <1>6 DEF Boot
  <2>2. damaged' = damaged /\ \A d \in Days : files'[d].rows = files[d].rows
    BY <1>6 DEF Boot, diskVars
  <2> QED
    BY <2>1, <2>2, RowsUntouched
<1>7. CASE OpenFile \/ WriteHeader \/ BufferRow
  <2>1. run' = run /\ damaged' = damaged
    BY <1>7 DEF OpenFile, WriteHeader, BufferRow, procVars
  <2>2. \A d \in Days : files'[d].rows = files[d].rows
    BY <1>7, RowsKept DEF OpenFile, WriteHeader, BufferRow, TypeOK
  <2> QED
    BY <1>1, <2>1, <2>2, RowsUntouched
<1>8. CASE \/ Start \/ Capture \/ Stop \/ Get \/ ExitLoop \/ OpenFails \/ CloseFails
           \/ Recover \/ MakeDirectory \/ MakeDirectoryFails \/ Crash \/ NextDay
           \/ UNCHANGED vars
  <2>1. run' = run /\ damaged' = damaged /\ files' = files
    BY <1>8 DEF MakeDirectory, MakeDirectoryFails, Start, Capture, Stop, Get, ExitLoop, OpenFails, CloseFails, Recover, Crash,
                NextDay, vars, procVars, diskVars
  <2> QED
    BY <1>1, <2>1, RowsUntouched
<1> QED
  BY <1>3, <1>4, <1>5, <1>6, <1>7, <1>8 DEF Next, Writer

\* Every step keeps the cached hash and the disk in agreement.
LEMMA NextCache ==
    ASSUME IInv, [Next]_vars
    PROVE  CacheMatchesDisk'
<1> USE DEF IInv
<1>1. CASE Boot
  <2>1. CASE verdict' = "PASS"
    <3>1. /\ run' = run + 1 /\ prevHash' = ZeroHash /\ pc' = "unborn" /\ files' = files
      BY <1>1, <2>1 DEF Boot, diskVars
    <3>2. NothingWritten'
      <4> SUFFICES ASSUME NEW d \in Days, NEW i \in Positions(d)
                   PROVE  files[d].rows[i].run # run + 1
        BY <3>1 DEF NothingWritten, Positions
      <4>1. files[d].rows[i].run <= run /\ files[d].rows[i].run \in Nat /\ run \in Nat
        BY RowType DEF DiskIsSound, RowIsSound, TypeOK
      <4> QED
        BY <4>1
    <3> QED
      BY <3>1, <3>2 DEF CacheMatchesDisk, InLoop
  <2>2. CASE verdict' # "PASS"
    BY <1>1, <2>2 DEF Boot, CacheMatchesDisk, Running
  <2> QED
    BY <2>1, <2>2
<1>2. CASE Start
  <2>1. pc = "unborn" /\ Running
    BY <1>2 DEF Start, StartedOnce, Running
  <2>2. NothingWritten /\ prevHash = ZeroHash
    BY <2>1 DEF CacheMatchesDisk, BeforeFirstRow
  <2>3. run' = run /\ prevHash' = prevHash /\ fileDay' = fileDay /\ files' = files
    BY <1>2 DEF Start, procVars, diskVars
  <2> QED
    BY <2>2, <2>3, CacheBegins DEF TypeOK
<1>3. CASE OpenFile \/ WriteHeader
  <2>1. NothingWritten /\ prevHash = ZeroHash
    BY <1>3 DEF OpenFile, WriteHeader, CacheMatchesDisk, BeforeFirstRow
  <2>2. run' = run /\ prevHash' = prevHash /\ fileDay' \in Days
    BY <1>3 DEF OpenFile, WriteHeader, procVars, TypeOK
  <2>3. \A d \in Days : files'[d].rows = files[d].rows
    BY <1>3, RowsKept DEF OpenFile, WriteHeader, TypeOK
  <2> QED
    BY <2>1, <2>2, <2>3, CacheBegins
<1>4. CASE Exit \/ Crash
  BY <1>4 DEF Exit, Crash, CacheMatchesDisk, Running
<1>5. CASE CloseRow
  BY <1>5, CacheFollows DEF CloseRow, procVars
<1>6. CASE Damage
  <2>1. /\ proc' = proc /\ run' = run /\ prevHash' = prevHash /\ fileDay' = fileDay
        /\ pc' = pc
    BY <1>6 DEF Damage, procVars, logVars
  <2> QED
    BY <1>6, <2>1, DamageStep, CacheKept DEF Running
<1>7. CASE BufferRow
  <2>1. /\ proc' = proc /\ run' = run /\ prevHash' = prevHash /\ fileDay' = fileDay
        /\ pc' = "buffered" /\ pc = "popped"
    BY <1>7 DEF BufferRow, procVars
  <2>2. \A d \in Days : files'[d].rows = files[d].rows
    BY <1>7 DEF BufferRow, TypeOK, File
  <2> QED
    BY <2>1, <2>2, RowsSameLinks, CacheKept DEF Running, BeforeFirstRow, InLoop
<1>8. CASE \/ Capture \/ Stop \/ Get \/ ExitLoop \/ OpenFails \/ CloseFails \/ Recover
           \/ MakeDirectory \/ MakeDirectoryFails \/ NextDay \/ UNCHANGED vars
  <2>1. /\ Running' => Running
        /\ run' = run /\ prevHash' = prevHash /\ fileDay' = fileDay /\ files' = files
    BY <1>8 DEF Capture, Stop, Get, ExitLoop, OpenFails, CloseFails, Recover, NextDay, vars,
                MakeDirectory, MakeDirectoryFails,
                procVars, logVars, diskVars, Running
  <2>2. \/ pc' = pc \/ (pc' \in InLoop /\ pc \in InLoop) \/ pc' \in {"dead", "stillborn"}
        \/ pc = "init" /\ pc' = "naming"
    BY <1>8 DEF Capture, Stop, Get, ExitLoop, OpenFails, CloseFails, Recover, NextDay, vars,
                MakeDirectory, MakeDirectoryFails,
                logVars, InLoop
  <2>3. pc' \in BeforeFirstRow => pc \in BeforeFirstRow
    BY <2>2 DEF BeforeFirstRow, InLoop
  <2>4. pc' \in InLoop => pc \in InLoop
    BY <2>2 DEF InLoop
  <2> QED
    BY <2>1, <2>3, <2>4, RowsSameLinks, CacheKept
<1> QED
  BY <1>1, <1>2, <1>3, <1>4, <1>5, <1>6, <1>7, <1>8 DEF Next, Writer

LEMMA NextIInv ==
    ASSUME IInv, [Next]_vars
    PROVE  IInv'
<1>1. TypeOK'
  BY NextTypeOK DEF IInv
<1>2. ItemIsReal'
  <2>1. CASE Get
    BY <2>1 DEF IInv, TypeOK, Get, ItemIsReal, Garbage
  <2>2. CASE ~Get
    <3>1. pc' \in {"popped", "buffered"} => item' = item /\ pc \in {"popped", "buffered"}
      BY <2>2 DEF Next, Writer, Boot, Start, Capture, Stop, Exit, OpenFile, WriteHeader,
                  ExitLoop, OpenFails, BufferRow, CloseRow, CloseFails, Recover, Crash,
                  MakeDirectory, MakeDirectoryFails, NextDay, Damage, vars, procVars, logVars
    <3> QED
      BY <3>1 DEF IInv, ItemIsReal
  <2> QED
    BY <2>1, <2>2
<1>3. StartedOnce'
  BY DEF IInv, StartedOnce, Next, Writer, Boot, Start, Capture, Stop, Exit, OpenFile,
         WriteHeader, Get, ExitLoop, OpenFails, BufferRow, CloseRow, CloseFails, Recover,
         MakeDirectory, MakeDirectoryFails, Crash, NextDay, Damage, vars, procVars, logVars
<1> QED
  BY <1>1, <1>2, <1>3, NextDisk, NextCache DEF IInv

LEMMA Invariance == Spec => []IInv
<1>1. IInv /\ [Next]_vars => IInv'
  BY NextIInv
<1> QED
  BY InitIInv, <1>1, PTL DEF Spec

\* Whatever fails and whenever the process dies, the rows of a run are chained
\* from the zero hash, each with the digest of its data: AuditLedger!RunsAreChained,
\* about the write, failure and caching paths of _io_writer_worker_loop.
THEOREM ChainCorrect == Spec => []RunsAreChained
<1>1. IInv => RunsAreChained
  BY DEF IInv, DiskIsSound, RowIsSound, RunsAreChained, Positions
<1> QED
  BY <1>1, Invariance, PTL

\* The boot check passes an undamaged file with a header that one run wrote:
\* AuditLedger!OneRunVerifies, about verify_cryptographic_ledger_integrity.
THEOREM VerifierAgrees == Spec => []OneRunVerifies
<1>1. IInv => OneRunVerifies
  <2> SUFFICES ASSUME IInv, NEW d \in Days, files[d].header,
                      \A i, j \in 1..Len(files[d].rows) :
                          files[d].rows[i].run = files[d].rows[j].run,
                      \A i \in 1..Len(files[d].rows) : <<d, i>> \notin damaged
               PROVE  ChainVerifies(files[d].rows)
    BY DEF OneRunVerifies, FileVerdict
  <2> SUFFICES ASSUME NEW i \in 1..Len(files[d].rows) PROVE RowVerifies(files[d].rows, i)
    BY DEF ChainVerifies
  <2>1. i \in Positions(d) /\ RowIsSound(d, i)
    BY DEF IInv, DiskIsSound, Positions
  <2>2. i \in Nat \ {0} /\ Len(files[d].rows) \in Nat /\ i <= Len(files[d].rows)
    BY <2>1, RowType DEF IInv
  <2>3. i = 1 \/ i-1 \in 1..Len(files[d].rows)
    BY <2>2
  <2>4. FirstOfRun(files[d].rows, i) <=> i = 1
    BY <2>3 DEF FirstOfRun
  <2>5. files[d].rows[i].prev = PrevOf(files[d].rows, i)
    BY <2>1, <2>4 DEF RowIsSound, PrevOf
  <2>6. files[d].rows[i].sha = Sha256(files[d].rows[i].data, files[d].rows[i].prev)
    BY <2>1 DEF RowIsSound
  <2> QED
    BY <2>5, <2>6 DEF RowVerifies
<1> QED
  BY <1>1, Invariance, PTL

\* A damaged row fails its own check.
LEMMA DamagedRowFails ==
    ASSUME IInv, NEW d \in Days, NEW i \in Positions(d), <<d, i>> \in damaged
    PROVE  ~RowVerifies(files[d].rows, i)
<1> DEFINE row == files[d].rows[i]
           prev == PrevOf(files[d].rows, i)
<1>1. row.data = Garbage
  BY DEF IInv, DiskIsSound, DamageShows
<1>2. row.sha # <<>> /\ row.sha[Len(row.sha)] # Garbage
  BY DEF IInv, DiskIsSound, RowIsSound
<1>3. row \in Row
  BY RowType DEF IInv
<1> SUFFICES ASSUME row.prev = prev, row.sha = Sha256(row.data, prev) PROVE FALSE
  BY DEF RowVerifies
<1>4. prev \in Seq(Nat) /\ Garbage \in Nat
  BY <1>3 DEF Row, Digest, Garbage
<1>5. Append(prev, Garbage)[Len(Append(prev, Garbage))] = Garbage
  BY <1>4, AppendLast
<1> QED
  BY <1>1, <1>2, <1>5 DEF Sha256

\* A run starts only if no row of the most recent file is damaged:
\* AuditLedger!BootSeesDamage, about the boot suite's refusal to start.
THEOREM DamageIsSeen == Spec => BootSeesDamage
<1>1. IInv /\ [Next]_vars =>
        [run' > run => \A d \in Latest : \A i \in 1..Len(files[d].rows) :
                          <<d, i>> \notin damaged]_vars
  <2> SUFFICES ASSUME IInv, Next, run' > run,
                      NEW d \in Latest, NEW i \in 1..Len(files[d].rows), <<d, i>> \in damaged
               PROVE  FALSE
    OBVIOUS
  <2>1. run \in Nat
    BY DEF IInv, TypeOK
  <2>2. Boot /\ LedgerVerdict = "PASS"
    BY <2>1 DEF Next, Writer, Boot, Start, Capture, Stop, Exit, OpenFile, WriteHeader, Get,
                ExitLoop, OpenFails, BufferRow, CloseRow, CloseFails, Recover, Crash,
                MakeDirectory, MakeDirectoryFails, NextDay, Damage, procVars
  <2>3. d \in Days /\ Days \subseteq Nat
    BY DEF Latest, Days
  <2>4. \A e \in Latest : e = d
    BY <2>3 DEF Latest
  <2>5. FileVerdict(files[d]) = "PASS"
    BY <2>2, <2>4 DEF LedgerVerdict
  <2>6. RowVerifies(files[d].rows, i)
    BY <2>5 DEF FileVerdict, ChainVerifies
  <2> QED
    BY <2>3, <2>6, DamagedRowFails DEF Positions
<1> QED
  BY <1>1, Invariance, PTL DEF Spec, BootSeesDamage

-----------------------------------------------------------------------------
(* The reports to the watchdog.                                            *)

\* The places of the rows that this run has stored.
Mine == {p \in Days \X (1..MaxCaptures) :
            p[2] <= Len(files[p[1]].rows) /\ files[p[1]].rows[p[2]].run = run}

\* A row in the stream's buffer has been reported and is not stored yet, and once
\* the process has ended it never will be but by the flush on its way out.
Reported ==
    WatchdogBound =>
        RowsOfRun + (IF Running /\ pc = "buffered" THEN 1 ELSE 0) <= reports

LEMMA RowsCounted == RowsOfRun = Cardinality(Mine) /\ IsFiniteSet(Mine) /\ RowsOfRun \in Nat
<1>1. IsFiniteSet(Days) /\ IsFiniteSet(1..MaxCaptures)
  BY ConstantsAssumption, FS_Interval DEF Days
<1>2. IsFiniteSet(Days \X (1..MaxCaptures))
  BY <1>1, FS_Product
<1>3. IsFiniteSet(Mine)
  BY <1>2, FS_Subset DEF Mine
<1> QED
  BY <1>3, FS_CardinalityType DEF RowsOfRun, Mine

LEMMA NextRowsCounted == RowsOfRun' \in Nat
<1>1. IsFiniteSet(Days) /\ IsFiniteSet(1..MaxCaptures)
  BY ConstantsAssumption, FS_Interval DEF Days
<1>2. IsFiniteSet(Days \X (1..MaxCaptures))
  BY <1>1, FS_Product
<1>3. IsFiniteSet(Mine')
  BY <1>2, FS_Subset DEF Mine
<1> QED
  BY <1>3, FS_CardinalityType DEF RowsOfRun, Mine

\* A step that leaves the runs of the rows alone does not change their number.
LEMMA CountKept ==
    ASSUME run' = run, \A d \in Days : Len(files'[d].rows) = Len(files[d].rows),
           TypeOK, \A d \in Days : \A i \in Positions(d) : SameLinks(d, i)
    PROVE  RowsOfRun' = RowsOfRun
<1>1. ASSUME NEW d \in Days, NEW i \in 1..MaxCaptures
      PROVE  (i <= Len(files[d].rows) /\ files[d].rows[i].run = run)
                <=> (i <= Len(files'[d].rows) /\ files'[d].rows[i].run = run')
  <2>1. i <= Len(files[d].rows) => i \in Positions(d)
    BY ConstantsAssumption DEF Positions, TypeOK, File
  <2> QED
    BY <2>1 DEF SameLinks
<1> QED
  BY <1>1 DEF RowsOfRun

\* A stored row adds one at most.
LEMMA CountGrows ==
    ASSUME TypeOK, files' = StoredRow, run' = run
    PROVE  RowsOfRun' <= RowsOfRun + 1
<1> DEFINE new == <<fileDay, Len(files[fileDay].rows) + 1>>
<1>1. ASSUME NEW p \in Mine' PROVE p \in Mine \cup {new}
  <2>1. PICK d \in Days, i \in 1..MaxCaptures :
            p = <<d, i>> /\ i <= Len(StoredRow[d].rows) /\ StoredRow[d].rows[i].run = run
    BY DEF Mine
  <2>2. CASE d # fileDay
    BY <2>1, <2>2, StoredRowShape DEF Mine
  <2>3. CASE d = fileDay /\ i = Len(files[d].rows) + 1
    BY <2>1, <2>3
  <2>4. CASE d = fileDay /\ i # Len(files[d].rows) + 1
    <3>1. Len(files[d].rows) \in Nat /\ i <= Len(files[d].rows) + 1
      BY <2>1, <2>4, StoredRowShape DEF TypeOK, File
    <3>2. i \in Positions(d) /\ i <= Len(files[d].rows)
      BY <2>4, <3>1, ConstantsAssumption DEF Positions
    <3>3. StoredRow[d].rows[i] = files[d].rows[i]
      BY <2>4, <3>2, StoredRowShape
    <3> QED
      BY <2>1, <3>2, <3>3 DEF Mine
  <2> QED
    BY <2>2, <2>3, <2>4
<1>2. Mine' \in SUBSET (Mine \cup {new})
  BY <1>1
<1>3. IsFiniteSet(Mine) /\ RowsOfRun = Cardinality(Mine) /\ RowsOfRun \in Nat
  BY RowsCounted
<1>4. /\ IsFiniteSet(Mine \cup {new})
      /\ Cardinality(Mine \cup {new}) = IF new \in Mine THEN RowsOfRun ELSE RowsOfRun + 1
  BY <1>3, FS_AddElement
<1>5. Cardinality(Mine') <= Cardinality(Mine \cup {new}) /\ IsFiniteSet(Mine')
  BY <1>2, <1>4, FS_Subset
<1>6. Cardinality(Mine') \in Nat
  BY <1>5, FS_CardinalityType
<1>7. RowsOfRun' = Cardinality(Mine')
  BY DEF RowsOfRun, Mine
<1> HIDE DEF new
<1> QED
  BY <1>3, <1>4, <1>5, <1>6, <1>7

LEMMA NextReported ==
    ASSUME IInv, Reported, [Next]_vars
    PROVE  Reported'
<1> SUFFICES ASSUME WatchdogBound
             PROVE  RowsOfRun' + (IF Running' /\ pc' = "buffered" THEN 1 ELSE 0) <= reports'
  BY DEF Reported
<1>0. \A a, b, c \in Nat : a <= b + 1 /\ b + 1 <= c => a + 0 <= c
  OBVIOUS
<1>1. TypeOK /\ DiskIsSound /\ reports \in Nat /\ run \in Nat
  BY DEF IInv, TypeOK
<1>2. RowsOfRun \in Nat /\ RowsOfRun + (IF Running /\ pc = "buffered" THEN 1 ELSE 0) <= reports
  BY RowsCounted DEF Reported
<1>3. RowsOfRun' \in Nat
  BY NextRowsCounted
<1>4. CASE Exit
  <2>1. ~Running' /\ reports' = reports /\ run' = run /\ Running
    BY <1>4 DEF Exit, Running, logVars
  <2>2. CASE files' = files
    BY <1>1, <1>2, <1>3, <2>1, <2>2, CountKept DEF SameLinks
  <2>3. CASE pc = "buffered" /\ files' = StoredRow
    <3>1. RowsOfRun' <= RowsOfRun + 1
      BY <1>1, <2>1, <2>3, CountGrows
    <3>2. RowsOfRun + 1 <= reports
      BY <1>2, <2>1, <2>3
    <3>3. RowsOfRun' + 0 <= reports
      BY <1>0, <1>1, <1>2, <1>3, <3>1, <3>2
    <3> QED
      BY <2>1, <3>3
  <2> QED
    BY <1>4, <2>2, <2>3 DEF Exit
<1>5. CASE CloseRow
  <2>1. /\ pc = "buffered" /\ pc' # "buffered" /\ Running /\ files' = StoredRow
        /\ reports' = reports /\ run' = run
    BY <1>5 DEF CloseRow, procVars
  <2>2. RowsOfRun' <= RowsOfRun + 1
    BY <1>1, <2>1, CountGrows
  <2>3. RowsOfRun + 1 <= reports
    BY <1>2, <2>1
  <2>4. RowsOfRun' + 0 <= reports
    BY <1>0, <1>1, <1>2, <1>3, <2>2, <2>3
  <2> QED
    BY <2>1, <2>4
<1>6. CASE BufferRow
  <2>1. /\ pc = "popped" /\ run' = run /\ reports' = reports + 1
    BY <1>6 DEF BufferRow, procVars
  <2>2. \A d \in Days : files'[d].rows = files[d].rows
    BY <1>1, <1>6, RowsKept DEF BufferRow, TypeOK
  <2>3. RowsOfRun' = RowsOfRun
    BY <1>1, <2>1, <2>2, RowsSameLinks, CountKept
  <2> QED
    BY <1>1, <1>2, <2>1, <2>3
<1>7. CASE Boot
  <2>1. CASE verdict' = "PASS"
    <3>1. run' = run + 1 /\ files' = files /\ reports' = 0 /\ pc' = "unborn"
      BY <1>7, <2>1 DEF Boot, diskVars
    <3>2. ASSUME NEW d \in Days, NEW i \in 1..MaxCaptures, i <= Len(files[d].rows)
          PROVE  files[d].rows[i].run # run + 1
      <4>1. i \in Positions(d)
        BY <1>1, <3>2, ConstantsAssumption DEF Positions, TypeOK, File
      <4>2. files[d].rows[i].run <= run /\ files[d].rows[i].run \in Nat
        BY <1>1, <4>1, RowType DEF DiskIsSound, RowIsSound
      <4> QED
        BY <1>1, <4>2
    <3>3. Mine' = {}
      BY <3>1, <3>2 DEF Mine
    <3>4. RowsOfRun' = 0
      BY <3>3, FS_EmptySet DEF RowsOfRun, Mine
    <3> QED
      BY <3>1, <3>4
  <2>2. CASE verdict' # "PASS"
    <3>1. run' = run /\ files' = files /\ reports' = reports /\ ~Running'
      BY <1>7, <2>2 DEF Boot, diskVars, Running
    <3> QED
      BY <1>1, <1>2, <1>3, <3>1, CountKept DEF SameLinks
  <2> QED
    BY <2>1, <2>2
<1>8. CASE Damage
  <2>1. run' = run /\ reports' = reports /\ pc' = pc /\ (Running' <=> Running)
    BY <1>8 DEF Damage, procVars, logVars, Running
  <2>2. RowsOfRun' = RowsOfRun
    BY <1>1, <1>8, <2>1, DamageStep, CountKept
  <2> QED
    BY <1>2, <2>1, <2>2
<1>9. CASE \/ Start \/ Capture \/ Stop \/ OpenFile \/ WriteHeader \/ Get \/ ExitLoop \/ OpenFails
           \/ CloseFails \/ Recover \/ MakeDirectory \/ MakeDirectoryFails \/ Crash \/ NextDay
           \/ UNCHANGED vars
  <2>1. /\ run' = run /\ reports' = reports
        /\ Running' /\ pc' = "buffered" => Running /\ pc = "buffered"
    BY <1>9 DEF Start, Capture, Stop, OpenFile, WriteHeader, Get, ExitLoop, OpenFails,
                MakeDirectory, MakeDirectoryFails,
                CloseFails, Recover, Crash, NextDay, vars, procVars, logVars, Running
  <2>2. \/ files' = files
        \/ files' = [files EXCEPT ![day].made = TRUE]
        \/ files' = [files EXCEPT ![fileDay].header = TRUE]
    BY <1>9 DEF Start, Capture, Stop, OpenFile, WriteHeader, Get, ExitLoop, OpenFails,
                MakeDirectory, MakeDirectoryFails,
                CloseFails, Recover, Crash, NextDay, vars, diskVars
  <2>3. \A d \in Days : files'[d].rows = files[d].rows
    BY <1>1, <2>2, RowsKept DEF TypeOK
  <2>4. RowsOfRun' = RowsOfRun
    BY <1>1, <2>1, <2>3, RowsSameLinks, CountKept
  <2> QED
    BY <1>1, <1>2, <2>1, <2>4
<1> QED
  BY <1>4, <1>5, <1>6, <1>7, <1>8, <1>9 DEF Next, Writer

\* The watchdog is told of every row a run has stored, whatever fails and however
\* the process ends: AuditLedger!RowsAreReported, about log_write_success in
\* _io_writer_worker_loop.
THEOREM ReportsCorrect == Spec => []RowsAreReported
<1>1. Init => Reported
  <2> SUFFICES ASSUME Init PROVE Reported
    OBVIOUS
  <2>1. \A d \in Days : Len(files[d].rows) = 0
    BY DEF Init, NoFile
  <2>2. Mine = {}
    BY <2>1, ConstantsAssumption DEF Mine
  <2>3. RowsOfRun = 0 /\ reports = 0 /\ ~Running
    BY <2>2, FS_EmptySet DEF RowsOfRun, Mine, Init, Running
  <2> QED
    BY <2>3 DEF Reported
<1>2. IInv /\ Reported => RowsAreReported
  BY RowsCounted DEF IInv, TypeOK, Reported, RowsAreReported
<1>3. IInv /\ Reported /\ [Next]_vars => Reported'
  BY NextReported
<1> QED
  BY <1>1, <1>2, <1>3, Invariance, PTL DEF Spec

-----------------------------------------------------------------------------
(***************************************************************************)
(* The refinement of LedgerFifo.  A row must not be appended to the file   *)
(* of a day when a later day has rows: the writer never goes back to an    *)
(* earlier file, and files after its own are empty.                        *)
(***************************************************************************)

DaysInOrder ==
    /\ fileDay <= day
    /\ \A d \in Days : d > fileDay => files[d].rows = <<>>

\* What a step does to the rows of the other files.
LEMMA RowsElsewhere ==
    ASSUME TypeOK, [Next]_vars, NEW d \in Days, d # fileDay, files[d].rows = <<>>
    PROVE  files'[d].rows = <<>>
<1>1. CASE Exit \/ CloseRow
  <2>1. files' = files \/ files' = StoredRow
    BY <1>1 DEF Exit, CloseRow
  <2> QED
    BY <2>1, StoredRowShape
<1>2. CASE OpenFile \/ WriteHeader \/ BufferRow
  <2>1. \/ files' = files
        \/ files' = [files EXCEPT ![day].made = TRUE]
        \/ files' = [files EXCEPT ![fileDay].made = TRUE]
        \/ files' = [files EXCEPT ![fileDay].header = TRUE]
    BY <1>2 DEF OpenFile, WriteHeader, BufferRow
  <2> QED
    BY <2>1, RowsKept DEF TypeOK
<1>3. CASE Damage
  <2>1. PICK e \in Days : \E k \in 1..Len(files[e].rows) :
            files' = [files EXCEPT ![e].rows[k].data = Garbage]
    BY <1>3 DEF Damage
  <2>2. e # d
    BY <2>1
  <2> QED
    BY <2>1, <2>2 DEF TypeOK
<1>4. CASE \/ Boot \/ Start \/ Capture \/ Stop \/ Get \/ ExitLoop \/ OpenFails \/ CloseFails
           \/ Recover \/ MakeDirectory \/ MakeDirectoryFails \/ Crash \/ NextDay
           \/ UNCHANGED vars
  BY <1>4 DEF MakeDirectory, MakeDirectoryFails, Boot, Start, Capture, Stop, Get, ExitLoop, OpenFails, CloseFails, Recover,
              Crash, NextDay, vars, diskVars
<1> QED
  BY <1>1, <1>2, <1>3, <1>4 DEF Next, Writer

LEMMA NextDaysInOrder ==
    ASSUME TypeOK, DaysInOrder, [Next]_vars
    PROVE  DaysInOrder'
<1>1. fileDay \in Nat /\ day \in Nat /\ fileDay \in Days /\ Days \subseteq Nat
  BY DEF TypeOK, Days
<1>2. day' \in Nat /\ day <= day' /\ (fileDay' = fileDay \/ (fileDay' = day /\ OpenFile))
  BY <1>1 DEF Next, Writer, Boot, Start, Capture, Stop, Exit, OpenFile, WriteHeader, Get,
              ExitLoop, OpenFails, BufferRow, CloseRow, CloseFails, Recover, Crash,
              MakeDirectory, MakeDirectoryFails, NextDay, Damage, vars, logVars
<1>3. fileDay' <= day' /\ fileDay <= fileDay' /\ fileDay' \in Nat
  BY <1>1, <1>2 DEF DaysInOrder
<1>4. ASSUME NEW d \in Days, d > fileDay' PROVE files'[d].rows = <<>>
  <2>1. d > fileDay /\ d # fileDay
    BY <1>1, <1>3, <1>4
  <2> QED
    BY <2>1, RowsElsewhere DEF DaysInOrder
<1> QED
  BY <1>3, <1>4 DEF DaysInOrder

LEMMA DaysInvariance == Spec => []DaysInOrder
<1>1. Init => DaysInOrder
  BY DEF Init, DaysInOrder, NoFile
<1>2. IInv /\ DaysInOrder /\ [Next]_vars => DaysInOrder'
  BY NextDaysInOrder DEF IInv
<1> QED
  BY <1>1, <1>2, Invariance, PTL DEF Spec

\* What stays on disk when the rows stay as they are.
LEMMA DiskKept ==
    ASSUME \A d \in Days : Len(files'[d].rows) = Len(files[d].rows),
           \A d \in Days : \A i \in Positions(d) : SameLinks(d, i)
    PROVE  OnDisk' = OnDisk
<1>1. ASSUME NEW d \in Days PROVE DayRows(d)' = DayRows(d)
  BY DEF DayRows, SnapshotOf, Positions, SameLinks
<1> QED
  BY <1>1 DEF OnDisk

LEMMA FunctionIsSeq ==
    ASSUME NEW S, NEW n \in Nat, NEW s \in [1..n -> S], NEW e \in S
    PROVE  Append(s, e) = [i \in 1..n+1 |-> IF i = n+1 THEN e ELSE s[i]]
<1>1. s \in Seq(S) /\ Len(s) = n
  OBVIOUS
<1>2. /\ Append(s, e) \in Seq(S) /\ Len(Append(s, e)) = n + 1
      /\ \A i \in 1..n : Append(s, e)[i] = s[i]
      /\ Append(s, e)[n + 1] = e
  BY <1>1, AppendLast
<1>3. Append(s, e) = [i \in 1..Len(Append(s, e)) |-> Append(s, e)[i]]
  <2> DEFINE t == Append(s, e)
  <2>1. t \in Seq(S)
    BY <1>2
  <2> HIDE DEF t
  <2>2. t \in [1..Len(t) -> S]
    BY <2>1
  <2>3. t = [i \in 1..Len(t) |-> t[i]]
    BY <2>2
  <2> QED
    BY <2>3 DEF t
<1>4. \A i \in 1..n+1 : Append(s, e)[i] = IF i = n+1 THEN e ELSE s[i]
  BY <1>2
<1> QED
  BY <1>2, <1>3, <1>4

\* A stored row adds its snapshot to the file of the writer's day.
LEMMA DiskGrows ==
    ASSUME TypeOK, files' = StoredRow
    PROVE  OnDisk' = [OnDisk EXCEPT ![fileDay] = Append(@, item)]
<1> DEFINE rows == files[fileDay].rows
           n == Len(rows)
           old == DayRows(fileDay)
<1>1. fileDay \in Days /\ n \in Nat /\ item \in Nat
  BY DEF TypeOK, File
<1>2. /\ \A d \in Days \ {fileDay} : files'[d] = files[d]
      /\ Len(files'[fileDay].rows) = n + 1 /\ files'[fileDay].rows[n + 1] = NewRow
      /\ \A i \in 1..n : files'[fileDay].rows[i] = rows[i]
  BY StoredRowShape DEF Positions
<1>3. SnapshotOf(NewRow) = item
  <2>1. prevHash \in Seq(Nat) /\ NewRow.sha = Append(prevHash, item)
    BY DEF TypeOK, Digest, NewRow, Sha256
  <2> QED
    BY <1>1, <2>1, AppendLast DEF SnapshotOf
<1>4. ASSUME NEW d \in Days \ {fileDay} PROVE OnDisk'[d] = OnDisk[d]
  BY <1>2 DEF OnDisk, DayRows
<1>5. OnDisk'[fileDay] = Append(old, item)
  <2>1. OnDisk'[fileDay] = [i \in 1..n+1 |-> SnapshotOf(files'[fileDay].rows[i])]
    BY <1>1, <1>2 DEF OnDisk, DayRows
  <2>2. old = [i \in 1..n |-> SnapshotOf(rows[i])]
    BY DEF DayRows
  <2>3. old \in [1..n -> {SnapshotOf(rows[i]) : i \in 1..n} \cup {item}]
    BY <2>2
  <2> HIDE DEF old
  <2>4. Append(old, item) = [i \in 1..n+1 |-> IF i = n+1 THEN item ELSE old[i]]
    <3>1. item \in {SnapshotOf(rows[i]) : i \in 1..n} \cup {item}
      OBVIOUS
    <3> DEFINE S == {SnapshotOf(rows[i]) : i \in 1..n} \cup {item}
               m == n
    <3>2. m \in Nat /\ old \in [1..m -> S] /\ item \in S
      BY <1>1, <2>3, <3>1
    <3> HIDE DEF S, m
    <3>3. Append(old, item) = [i \in 1..m+1 |-> IF i = m+1 THEN item ELSE old[i]]
      BY <3>2, FunctionIsSeq
    <3> QED
      BY <3>3 DEF m
  <2>5. \A i \in 1..n+1 : SnapshotOf(files'[fileDay].rows[i]) = IF i = n+1 THEN item ELSE old[i]
    BY <1>1, <1>2, <1>3, <2>2
  <2> QED
    BY <2>1, <2>4, <2>5
<1>6. OnDisk = [d \in Days |-> OnDisk[d]] /\ OnDisk' = [d \in Days |-> OnDisk'[d]]
      /\ OnDisk[fileDay] = old
  BY <1>1 DEF OnDisk
<1> HIDE DEF old
<1> QED
  BY <1>1, <1>4, <1>5, <1>6

\* The writer stores the oldest snapshot, and in the last volume begun.
LEMMA OldestIsStored ==
    ASSUME TypeOK, DaysInOrder, Running, pc = "buffered", files' = StoredRow
    PROVE  Fifo!StoreOldest
<1>1. Waiting # <<>> /\ Head(Waiting) = item
  BY DEF TypeOK, Waiting, HeldByWriter
<1>2. ASSUME NEW d \in Days, d > fileDay PROVE OnDisk[d] = <<>>
  <2>1. Len(files[d].rows) = 0
    BY <1>2 DEF DaysInOrder
  <2> QED
    BY <2>1 DEF OnDisk, DayRows
<1>3. fileDay \in Days
  BY DEF TypeOK
<1> QED
  BY <1>1, <1>2, <1>3, DiskGrows DEF Fifo!StoreOldest

\* Every step of the ledger is a step of the queue, or none.
LEMMA StepIsFifo ==
    ASSUME IInv, DaysInOrder, [Next]_vars
    PROVE  [Fifo!Next]_(Fifo!vars)
<1> USE DEF Fifo!vars
<1>0. /\ TypeOK /\ DiskIsSound /\ StartedOnce
      /\ queue \in Seq(Nat \ {0}) /\ item \in Nat /\ clock \in Nat
  BY DEF IInv, TypeOK
<1>1. CASE Boot
  <2>1. Waiting = <<>> /\ Waiting' = <<>> /\ clock' = clock /\ files' = files
    BY <1>1 DEF Boot, Waiting, HeldByWriter, Running, diskVars
  <2> QED
    BY <2>1 DEF OnDisk, DayRows
<1>2. CASE Start
  <2>1. Waiting' = Waiting /\ clock' = clock /\ files' = files
    BY <1>0, <1>2 DEF Start, Waiting, HeldByWriter, Running, StartedOnce, diskVars, procVars
  <2> QED
    BY <2>1 DEF OnDisk, DayRows
<1>3. CASE Capture
  <2>1. clock' = clock + 1 /\ clock' \in Nat /\ files' = files /\ Running /\ Running'
        /\ HeldByWriter' = HeldByWriter /\ queue' \in {queue, Append(queue, clock')}
    BY <1>0, <1>3 DEF Capture, HeldByWriter, Running, diskVars, procVars
  <2>2. HeldByWriter \in Seq(Nat)
    BY <1>0 DEF HeldByWriter
  <2>3. HeldByWriter \o Append(queue, clock') = Append(HeldByWriter \o queue, clock')
    BY <1>0, <2>1, <2>2
  <2>4. Waiting' \in {Waiting, Append(Waiting, clock')}
    BY <2>1, <2>3 DEF Waiting
  <2>5. OnDisk' = OnDisk
    BY <2>1 DEF OnDisk, DayRows
  <2> QED
    BY <2>1, <2>4, <2>5 DEF Fifo!Next, Fifo!Take
<1>4. CASE Exit
  <2>1. Running /\ Waiting' = <<>> /\ clock' = clock
    BY <1>4 DEF Exit, Waiting, Running
  <2>2. CASE files' = files
    <3>1. OnDisk' = OnDisk
      BY <2>2 DEF OnDisk, DayRows
    <3> QED
      BY <2>1, <3>1 DEF Fifo!Next, Fifo!LoseAll
  <2>3. CASE pc = "buffered" /\ files' = StoredRow
    BY <1>0, <2>1, <2>3, OldestIsStored DEF Fifo!Next, Fifo!LoseAll
  <2> QED
    BY <1>4, <2>2, <2>3 DEF Exit
<1>5. CASE OpenFile \/ WriteHeader \/ BufferRow
  <2>1. Waiting' = Waiting /\ clock' = clock
    BY <1>5 DEF OpenFile, WriteHeader, BufferRow, Waiting, HeldByWriter, Running, procVars
  <2>2. \A d \in Days : files'[d].rows = files[d].rows
    <3>1. \/ files' = files
          \/ files' = [files EXCEPT ![day].made = TRUE]
          \/ files' = [files EXCEPT ![fileDay].made = TRUE]
          \/ files' = [files EXCEPT ![fileDay].header = TRUE]
      BY <1>5 DEF OpenFile, WriteHeader, BufferRow
    <3> QED
      BY <1>0, <3>1, RowsKept DEF TypeOK
  <2>3. OnDisk' = OnDisk
    BY <2>2, DiskKept, RowsSameLinks
  <2> QED
    BY <2>1, <2>3
<1>6. CASE Get
  <2>1. Waiting = queue /\ Waiting' = <<Head(queue)>> \o Tail(queue) /\ queue # <<>>
        /\ clock' = clock /\ files' = files
    BY <1>0, <1>6 DEF Get, Waiting, HeldByWriter, Running, procVars, diskVars
  <2>2. Waiting' = Waiting
    BY <1>0, <2>1
  <2> QED
    BY <2>1, <2>2 DEF OnDisk, DayRows
<1>7. CASE OpenFails \/ CloseFails
  <2>1. Waiting = <<item>> \o queue /\ Waiting' = <<>> \o queue
        /\ clock' = clock /\ files' = files
    BY <1>7 DEF OpenFails, CloseFails, Waiting, HeldByWriter, Running, procVars, diskVars
  <2>2. Waiting # <<>> /\ Waiting' = Tail(Waiting)
    BY <1>0, <2>1
  <2>3. OnDisk' = OnDisk
    BY <2>1 DEF OnDisk, DayRows
  <2> QED
    BY <2>1, <2>2, <2>3 DEF Fifo!Next, Fifo!Lose
<1>8. CASE CloseRow
  <2>1. Waiting = <<item>> \o queue /\ Waiting' = <<>> \o queue
        /\ clock' = clock /\ files' = StoredRow /\ Running /\ pc = "buffered"
    BY <1>8 DEF CloseRow, Waiting, HeldByWriter, Running, procVars
  <2>2. Waiting' = Tail(Waiting)
    BY <1>0, <2>1
  <2> QED
    BY <1>0, <2>1, <2>2, OldestIsStored DEF Fifo!Next, Fifo!Store
<1>9. CASE \/ ExitLoop \/ Recover \/ MakeDirectory \/ MakeDirectoryFails \/ Stop \/ NextDay
           \/ UNCHANGED vars
  <2>1. Waiting' = Waiting /\ clock' = clock /\ files' = files
    BY <1>9 DEF MakeDirectory, MakeDirectoryFails, ExitLoop, Recover, Stop, NextDay, vars, Waiting, HeldByWriter, Running,
                procVars, logVars, diskVars
  <2> QED
    BY <2>1 DEF OnDisk, DayRows
<1>10. CASE Crash
  <2>1. Waiting' = <<>> /\ clock' = clock /\ files' = files
    BY <1>10 DEF Crash, Waiting, Running, diskVars
  <2>2. OnDisk' = OnDisk
    BY <2>1 DEF OnDisk, DayRows
  <2> QED
    BY <2>1, <2>2 DEF Fifo!Next, Fifo!LoseAll
<1>11. CASE Damage
  <2>1. Waiting' = Waiting /\ clock' = clock
    BY <1>11 DEF Damage, Waiting, HeldByWriter, Running, procVars, logVars
  <2>2. OnDisk' = OnDisk
    BY <1>0, <1>11, DamageStep, DiskKept
  <2> QED
    BY <2>1, <2>2
<1> QED
  BY <1>1, <1>2, <1>3, <1>4, <1>5, <1>6, <1>7, <1>8, <1>9, <1>10, <1>11 DEF Next, Writer

\* Snapshots reach the files in the order in which they were taken and at most once
\* each, across crashes, restarts, failed writes and midnight:
\* MCAuditLedger!ImplementsFifo, about the queue and the writer of the ledgers.
THEOREM Refinement == Spec => ImplementsFifo
<1>1. Init => Fifo!Init
  <2> SUFFICES ASSUME Init PROVE Fifo!Init
    OBVIOUS
  <2>1. \A d \in Days : Len(files[d].rows) = 0
    BY DEF Init, NoFile
  <2>2. \A d \in Days : DayRows(d) = <<>>
    BY <2>1 DEF DayRows
  <2>3. OnDisk = [d \in Days |-> <<>>]
    BY <2>2 DEF OnDisk
  <2>4. Waiting = <<>> /\ clock = 0
    BY DEF Init, Waiting, Running
  <2> QED
    BY <2>3, <2>4 DEF Fifo!Init
<1>2. IInv /\ DaysInOrder /\ [Next]_vars => [Fifo!Next]_(Fifo!vars)
  BY StepIsFifo
<1> QED
  BY <1>1, <1>2, Invariance, DaysInvariance, PTL DEF Spec, ImplementsFifo, Fifo!Spec

-----------------------------------------------------------------------------
(***************************************************************************)
(* What the queue promises.  The order on disk is inductive only together  *)
(* with what waits: in order itself, and newer than all that is stored.    *)
(***************************************************************************)

Ordered(t, p, s) ==
    /\ t \in Nat /\ p \in Seq(Nat) /\ s \in [Days -> Seq(Nat)]
    /\ \A i \in 1..Len(p) : p[i] <= t
    /\ Fifo!Increasing(p)
    /\ \A v \in Days : \A i \in 1..Len(s[v]) : s[v][i] <= t
    /\ \A v \in Days : \A i \in 1..Len(s[v]), j \in 1..Len(p) : s[v][i] < p[j]
    /\ \A v \in Days : Fifo!Increasing(s[v])
    /\ \A v, w \in Days : v < w =>
        \A i \in 1..Len(s[v]), j \in 1..Len(s[w]) : s[v][i] < s[w][j]

LEMMA TakeOrdered ==
    ASSUME NEW t, NEW p, NEW s, Ordered(t, p, s)
    PROVE  Ordered(t + 1, p, s) /\ Ordered(t + 1, Append(p, t + 1), s)
<1> DEFINE q == Append(p, t + 1)
<1>1. /\ t \in Nat /\ t + 1 \in Nat /\ p \in Seq(Nat) /\ s \in [Days -> Seq(Nat)]
      /\ \A i \in 1..Len(p) : p[i] \in Nat /\ p[i] <= t
      /\ \A v \in Days : \A i \in 1..Len(s[v]) : s[v][i] \in Nat /\ s[v][i] <= t
  BY DEF Ordered
<1>2. /\ q \in Seq(Nat) /\ Len(q) = Len(p) + 1 /\ Len(p) \in Nat
      /\ \A i \in 1..Len(p) : q[i] = p[i]
      /\ q[Len(p) + 1] = t + 1
  BY <1>1, AppendLast
<1> HIDE DEF q
<1>3. ASSUME NEW i \in 1..Len(q)
      PROVE  \/ i \in 1..Len(p) /\ q[i] = p[i]
             \/ i = Len(p) + 1 /\ q[i] = t + 1
  <2>1. i \in 1..Len(p) \/ i = Len(p) + 1
    BY <1>2
  <2> QED
    BY <1>2, <2>1
<1>4. Fifo!Increasing(q)
  <2> SUFFICES ASSUME NEW i \in 1..Len(q), NEW j \in 1..Len(q), i < j PROVE q[i] < q[j]
    BY DEF Fifo!Increasing
  <2>1. i \in 1..Len(p) /\ q[i] = p[i]
    BY <1>2, <1>3
  <2>2. CASE j \in 1..Len(p) /\ q[j] = p[j]
    BY <2>1, <2>2 DEF Ordered, Fifo!Increasing
  <2>3. CASE q[j] = t + 1
    <3>1. p[i] <= t /\ p[i] \in Nat
      BY <1>1, <2>1
    <3> QED
      BY <1>1, <2>1, <2>3, <3>1
  <2> QED
    BY <1>3, <2>2, <2>3
<1>5. \A v \in Days : \A i \in 1..Len(s[v]), j \in 1..Len(q) : s[v][i] < q[j]
  <2> SUFFICES ASSUME NEW v \in Days, NEW i \in 1..Len(s[v]), NEW j \in 1..Len(q)
               PROVE  s[v][i] < q[j]
    OBVIOUS
  <2>1. CASE j \in 1..Len(p) /\ q[j] = p[j]
    BY <2>1 DEF Ordered
  <2>2. CASE q[j] = t + 1
    BY <1>1, <2>2
  <2> QED
    BY <1>3, <2>1, <2>2
<1>6. \A v \in Days : \A i \in 1..Len(s[v]) : s[v][i] <= t + 1
  BY <1>1
<1>7. \A i \in 1..Len(p) : p[i] <= t + 1
  BY <1>1
<1>8. Ordered(t + 1, p, s)
  BY <1>1, <1>6, <1>7 DEF Ordered
<1>9. Ordered(t + 1, q, s)
  <2>1. \A i \in 1..Len(q) : q[i] <= t + 1
    <3> SUFFICES ASSUME NEW i \in 1..Len(q) PROVE q[i] <= t + 1
      OBVIOUS
    <3>1. CASE i \in 1..Len(p) /\ q[i] = p[i]
      BY <1>7, <3>1
    <3>2. CASE q[i] = t + 1
      BY <1>1, <3>2
    <3> QED
      BY <1>3, <3>1, <3>2
  <2> QED
    BY <1>1, <1>2, <1>4, <1>5, <1>6, <2>1 DEF Ordered
<1> QED
  BY <1>8, <1>9 DEF q

LEMMA TailOf ==
    ASSUME NEW S, NEW p \in Seq(S), p # <<>>
    PROVE  /\ Len(p) \in Nat \ {0} /\ Head(p) = p[1] /\ Head(p) \in S
           /\ Tail(p) \in Seq(S) /\ Len(Tail(p)) = Len(p) - 1
           /\ \A i \in 1..Len(Tail(p)) : Tail(p)[i] = p[i + 1] /\ i + 1 \in 1..Len(p)
OBVIOUS

LEMMA LoseOrdered ==
    ASSUME NEW t, NEW p, NEW s, Ordered(t, p, s)
    PROVE  /\ Ordered(t, <<>>, s)
           /\ p # <<>> => Ordered(t, Tail(p), s)
<1>1. Ordered(t, <<>>, s)
  <2>1. <<>> \in Seq(Nat) /\ Len(<<>>) = 0
    OBVIOUS
  <2> QED
    BY <2>1 DEF Ordered, Fifo!Increasing
<1>2. ASSUME p # <<>> PROVE Ordered(t, Tail(p), s)
  <2> DEFINE q == Tail(p)
  <2>1. p \in Seq(Nat)
    BY DEF Ordered
  <2>2. /\ q \in Seq(Nat) /\ Len(q) = Len(p) - 1 /\ Len(p) \in Nat \ {0}
        /\ \A i \in 1..Len(q) : q[i] = p[i + 1] /\ i + 1 \in 1..Len(p)
    BY <1>2, <2>1, TailOf
  <2> HIDE DEF q
  <2>3. Fifo!Increasing(q)
    <3> SUFFICES ASSUME NEW i \in 1..Len(q), NEW j \in 1..Len(q), i < j PROVE q[i] < q[j]
      BY DEF Fifo!Increasing
    <3>1. i + 1 < j + 1
      BY <2>2
    <3> QED
      BY <2>2, <3>1 DEF Ordered, Fifo!Increasing
  <2>4. \A i \in 1..Len(q) : q[i] <= t
    BY <2>2 DEF Ordered
  <2>5. \A v \in Days : \A i \in 1..Len(s[v]), j \in 1..Len(q) : s[v][i] < q[j]
    BY <2>2 DEF Ordered
  <2>6. Ordered(t, q, s)
    BY <2>2, <2>3, <2>4, <2>5 DEF Ordered
  <2> QED
    BY <2>6 DEF q
<1> QED
  BY <1>1, <1>2

LEMMA StoreOrdered ==
    ASSUME NEW t, NEW p, NEW s, Ordered(t, p, s), p # <<>>,
           NEW d \in Days, \A w \in Days : w > d => s[w] = <<>>
    PROVE  Ordered(t, Tail(p), [s EXCEPT ![d] = Append(@, Head(p))])
<1> DEFINE x == Head(p)
           q == Tail(p)
           r == [s EXCEPT ![d] = Append(@, x)]
           n == Len(s[d])
<1>1. /\ t \in Nat /\ p \in Seq(Nat) /\ s \in [Days -> Seq(Nat)] /\ Days \subseteq Nat
      /\ n \in Nat /\ s[d] \in Seq(Nat)
  BY DEF Ordered, Days
<1>2. /\ x \in Nat /\ x = p[1] /\ 1 \in 1..Len(p) /\ x <= t
      /\ q \in Seq(Nat) /\ \A i \in 1..Len(q) : q[i] = p[i + 1] /\ i + 1 \in 1..Len(p)
  <2>1. /\ Len(p) \in Nat \ {0} /\ Head(p) = p[1] /\ Head(p) \in Nat
        /\ Tail(p) \in Seq(Nat)
        /\ \A i \in 1..Len(Tail(p)) : Tail(p)[i] = p[i + 1] /\ i + 1 \in 1..Len(p)
    BY <1>1, TailOf
  <2>2. 1 \in 1..Len(p)
    BY <2>1
  <2> QED
    BY <2>1, <2>2 DEF Ordered
<1>3. Ordered(t, q, s)
  BY LoseOrdered
<1>4. /\ r \in [Days -> Seq(Nat)]
      /\ \A v \in Days : v # d => r[v] = s[v]
      /\ Len(r[d]) = n + 1 /\ r[d][n + 1] = x
      /\ \A i \in 1..n : r[d][i] = s[d][i]
  <2>1. /\ Append(s[d], x) \in Seq(Nat) /\ Len(Append(s[d], x)) = n + 1
        /\ Append(s[d], x)[n + 1] = x /\ \A i \in 1..n : Append(s[d], x)[i] = s[d][i]
    BY <1>1, <1>2, AppendLast
  <2> QED
    BY <1>1, <2>1
<1>5. \A v \in Days : \A i \in 1..Len(s[v]) : s[v][i] < x /\ s[v][i] \in Nat
  BY <1>1, <1>2 DEF Ordered
<1>6. \A j \in 1..Len(q) : x < q[j]
  <2> SUFFICES ASSUME NEW j \in 1..Len(q) PROVE x < q[j]
    OBVIOUS
  <2>1. 1 < j + 1
    BY <1>2
  <2> QED
    BY <1>2, <2>1 DEF Ordered, Fifo!Increasing
<1> HIDE DEF x, q, r
<1>7. ASSUME NEW v \in Days, NEW i \in 1..Len(r[v])
      PROVE  \/ i \in 1..Len(s[v]) /\ r[v][i] = s[v][i]
             \/ v = d /\ i = n + 1 /\ r[v][i] = x
  <2>1. CASE v # d
    BY <1>4, <2>1
  <2>2. CASE v = d
    <3>1. i \in 1..n \/ i = n + 1
      BY <1>1, <1>4, <2>2
    <3> QED
      BY <1>4, <2>2, <3>1
  <2> QED
    BY <2>1, <2>2
<1>8. \A v \in Days : \A i \in 1..Len(r[v]) : r[v][i] <= t
  <2> SUFFICES ASSUME NEW v \in Days, NEW i \in 1..Len(r[v]) PROVE r[v][i] <= t
    OBVIOUS
  <2>1. CASE i \in 1..Len(s[v]) /\ r[v][i] = s[v][i]
    BY <2>1 DEF Ordered
  <2> QED
    BY <1>2, <1>7, <2>1
<1>9. \A v \in Days : \A i \in 1..Len(r[v]), j \in 1..Len(q) : r[v][i] < q[j]
  <2> SUFFICES ASSUME NEW v \in Days, NEW i \in 1..Len(r[v]), NEW j \in 1..Len(q)
               PROVE  r[v][i] < q[j]
    OBVIOUS
  <2>1. CASE i \in 1..Len(s[v]) /\ r[v][i] = s[v][i]
    BY <1>3, <2>1 DEF Ordered
  <2> QED
    BY <1>6, <1>7, <2>1
<1>10. \A v \in Days : Fifo!Increasing(r[v])
  <2> SUFFICES ASSUME NEW v \in Days, NEW i \in 1..Len(r[v]), NEW j \in 1..Len(r[v]), i < j
               PROVE  r[v][i] < r[v][j]
    BY DEF Fifo!Increasing
  <2>1. CASE v = d
    <3>1. i \in 1..Len(s[v]) /\ r[v][i] = s[v][i]
      BY <1>1, <1>4, <2>1
    <3>2. CASE j = n + 1
      BY <1>4, <1>5, <2>1, <3>1, <3>2
    <3>3. CASE j # n + 1
      <4>1. j \in 1..Len(s[v]) /\ r[v][j] = s[v][j]
        BY <1>7, <3>3
      <4> QED
        BY <3>1, <4>1 DEF Ordered, Fifo!Increasing
    <3> QED
      BY <3>2, <3>3
  <2>2. CASE v # d
    BY <1>4, <2>2 DEF Ordered, Fifo!Increasing
  <2> QED
    BY <2>1, <2>2
<1>11. ASSUME NEW v \in Days, NEW w \in Days, v < w,
              NEW i \in 1..Len(r[v]), NEW j \in 1..Len(r[w])
       PROVE  r[v][i] < r[w][j]
  <2>1. CASE j \in 1..Len(s[w]) /\ r[w][j] = s[w][j]
    <3>1. ~(w > d)
      <4>1. w > d => Len(s[w]) = 0
        OBVIOUS
      <4> QED
        BY <2>1, <4>1
    <3>2. v # d
      BY <1>1, <1>11, <3>1
    <3>3. i \in 1..Len(s[v]) /\ r[v][i] = s[v][i]
      BY <1>7, <3>2
    <3> QED
      BY <1>11, <2>1, <3>3 DEF Ordered
  <2>2. CASE w = d /\ j = n + 1 /\ r[w][j] = x
    <3>1. v # d
      BY <1>1, <1>11, <2>2
    <3>2. i \in 1..Len(s[v]) /\ r[v][i] = s[v][i]
      BY <1>7, <3>1
    <3> QED
      BY <1>5, <2>2, <3>2
  <2> QED
    BY <1>7, <2>1, <2>2
<1>12. Ordered(t, q, r)
  BY <1>3, <1>4, <1>8, <1>9, <1>10, <1>11 DEF Ordered
<1> QED
  BY <1>12 DEF x, q, r

LEMMA OldestOrdered ==
    ASSUME Ordered(clock, Waiting, OnDisk), Fifo!StoreOldest
    PROVE  Ordered(clock, Tail(Waiting), OnDisk')
<1>1. PICK d \in Days :
          /\ \A w \in Days : w > d => OnDisk[w] = <<>>
          /\ OnDisk' = [OnDisk EXCEPT ![d] = Append(@, Head(Waiting))]
  BY DEF Fifo!StoreOldest
<1>2. Waiting # <<>>
  BY DEF Fifo!StoreOldest
<1>3. ASSUME NEW w \in Days, w > d PROVE OnDisk[w] = <<>>
  BY <1>1, <1>3
<1>4. Ordered(clock, Tail(Waiting), [OnDisk EXCEPT ![d] = Append(@, Head(Waiting))])
  BY <1>2, <1>3, StoreOrdered
<1> QED
  BY <1>1, <1>4

FifoInv == Ordered(clock, Waiting, OnDisk)

\* A queue of LedgerFifo's kind keeps its order: the disk never holds an older
\* snapshot behind a newer one, nor one twice, in a file or from file to file.
LEMMA QueueKeepsOrder == Fifo!Spec => []Fifo!InOrder
<1>1. Fifo!Init => FifoInv
  <2> SUFFICES ASSUME Fifo!Init PROVE FifoInv
    OBVIOUS
  <2>1. clock = 0 /\ Waiting = <<>> /\ OnDisk = [v \in Days |-> <<>>]
    BY DEF Fifo!Init
  <2>2. <<>> \in Seq(Nat) /\ Len(<<>>) = 0
    OBVIOUS
  <2>3. \A v \in Days : OnDisk[v] = <<>>
    BY <2>1
  <2>4. OnDisk \in [Days -> Seq(Nat)]
    BY <2>1, <2>2
  <2> QED
    BY <2>1, <2>2, <2>3, <2>4 DEF FifoInv, Ordered, Fifo!Increasing
<1>2. FifoInv /\ [Fifo!Next]_(Fifo!vars) => FifoInv'
  <2> SUFFICES ASSUME FifoInv, [Fifo!Next]_(Fifo!vars)
               PROVE  Ordered(clock', Waiting', OnDisk')
    BY DEF FifoInv
  <2>0. Ordered(clock, Waiting, OnDisk)
    BY DEF FifoInv
  <2>1. CASE Fifo!Take
    BY <2>0, <2>1, TakeOrdered DEF Fifo!Take
  <2>2. CASE Fifo!Store
    BY <2>0, <2>2, OldestOrdered DEF Fifo!Store
  <2>3. CASE Fifo!Lose
    BY <2>0, <2>3, LoseOrdered DEF Fifo!Lose
  <2>4. CASE Fifo!LoseAll
    <3>1. CASE OnDisk' = OnDisk
      BY <2>0, <2>4, <3>1, LoseOrdered DEF Fifo!LoseAll
    <3>2. CASE Fifo!StoreOldest
      <4>1. Ordered(clock, Tail(Waiting), OnDisk')
        BY <2>0, <3>2, OldestOrdered
      <4> QED
        BY <2>4, <4>1, LoseOrdered DEF Fifo!LoseAll
    <3> QED
      BY <2>4, <3>1, <3>2 DEF Fifo!LoseAll
  <2>5. CASE UNCHANGED Fifo!vars
    BY <2>0, <2>5 DEF Fifo!vars
  <2> QED
    BY <2>1, <2>2, <2>3, <2>4, <2>5 DEF Fifo!Next
<1>3. FifoInv => Fifo!InOrder
  BY DEF FifoInv, Ordered, Fifo!InOrder
<1> QED
  BY <1>1, <1>2, <1>3, PTL DEF Fifo!Spec

\* Read day by day, the rows of a ledger were written for growing timestamps, those
\* of different runs and of one midnight included: no row is ever written late, or
\* twice, by _io_writer_worker_loop.
THEOREM RowsAreInOrder == Spec => []Fifo!InOrder
BY Refinement, QueueKeepsOrder, PTL DEF ImplementsFifo
=============================================================================
