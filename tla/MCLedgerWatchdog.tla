-------------------------- MODULE MCLedgerWatchdog --------------------------
(* Instances of LedgerWatchdog for TLC. *)
EXTENDS LedgerWatchdog, TLC

\* The ledgers are treated alike.
LedgerSymmetry == Permutations(Ledgers)
=============================================================================
