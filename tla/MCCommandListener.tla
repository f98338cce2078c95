------------------------- MODULE MCCommandListener --------------------------
(* Instances of CommandListener for TLC. *)
EXTENDS CommandListener, TLC

\* The clients are treated alike.
ClientSymmetry == Permutations(Clients)
=============================================================================
