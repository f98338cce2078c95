----------------------------- MODULE LedgerFifo -----------------------------
(***************************************************************************)
(* What a compliance ledger promises, whatever fails: snapshots reach the  *)
(* disk in the order in which they were taken and at most once.  A         *)
(* snapshot may be lost, alone (a failed disk access) or with everything   *)
(* that waits (the end of the process); it is never stored out of order,   *)
(* twice, or without having been taken.                                    *)
(*                                                                         *)
(* What is stored fills numbered volumes, the files of a ledger: only the  *)
(* last volume begun is added to.                                          *)
(***************************************************************************)
EXTENDS Naturals, Sequences

CONSTANT Volumes    \* a set of numbers

VARIABLES
    taken,      \* the last timestamp handed out
    pending,    \* snapshots accepted and not yet stored or lost
    stored      \* snapshots on disk, oldest first, by volume

vars == <<taken, pending, stored>>

Init == taken = 0 /\ pending = <<>> /\ stored = [v \in Volumes |-> <<>>]

\* A full queue drops the new snapshot.
Take ==
    /\ taken' = taken + 1
    /\ pending' \in {pending, Append(pending, taken')}
    /\ UNCHANGED stored

\* The oldest snapshot goes to the end of the last volume begun, or begins one.
StoreOldest ==
    /\ pending # <<>>
    /\ \E v \in Volumes :
        /\ \A w \in Volumes : w > v => stored[w] = <<>>
        /\ stored' = [stored EXCEPT ![v] = Append(@, Head(pending))]

Store ==
    /\ StoreOldest
    /\ pending' = Tail(pending)
    /\ UNCHANGED taken

Lose ==
    /\ pending # <<>>
    /\ pending' = Tail(pending)
    /\ UNCHANGED <<taken, stored>>

\* The end of the process; the row in a stream buffer may still get out.
LoseAll ==
    /\ pending' = <<>>
    /\ StoreOldest \/ UNCHANGED stored
    /\ UNCHANGED taken

Next == Take \/ Store \/ Lose \/ LoseAll

Spec == Init /\ [][Next]_vars

-----------------------------------------------------------------------------

Increasing(s) == \A i, j \in 1..Len(s) : i < j => s[i] < s[j]

\* Read volume by volume, the snapshots on disk carry growing timestamps.
InOrder ==
    /\ \A v \in Volumes : Increasing(stored[v])
    /\ \A v, w \in Volumes : v < w =>
        \A i \in 1..Len(stored[v]), j \in 1..Len(stored[w]) : stored[v][i] < stored[w][j]
=============================================================================
