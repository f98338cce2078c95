--------------------------- MODULE SetpointRegister ---------------------------
(***************************************************************************)
(* What the command listener promises the main loop: one register that     *)
(* holds the command in force, replaced and read as a whole.  The lines of *)
(* a client are considered in the order in which it sent them and once     *)
(* each; one that is considered takes force or is passed over.             *)
(***************************************************************************)
EXTENDS Naturals, Sequences

CONSTANT Clients

VARIABLES
    inForce,    \* the command in force, named by client and line, or <<>>
    seen,       \* what main's last read returned, as speed and turn
    considered  \* the lines of each client that have been considered

vars == <<inForce, seen, considered>>

Init ==
    /\ inForce = <<>>
    /\ seen = [rpm |-> <<>>, yaw |-> <<>>]
    /\ considered = [c \in Clients |-> 0]

Consider(c) ==
    /\ considered' \in [Clients -> Nat]
    /\ considered'[c] > considered[c]
    /\ \A d \in Clients \ {c} : considered'[d] = considered[d]

\* A client's line takes force, none that it sent later having been considered.
Obey(c) ==
    /\ Consider(c)
    /\ inForce' = <<c, considered'[c]>>
    /\ UNCHANGED seen

\* Lines are refused, or lost with the connection.
PassOver(c) == Consider(c) /\ UNCHANGED <<inForce, seen>>

Read ==
    /\ seen' = [rpm |-> inForce, yaw |-> inForce]
    /\ UNCHANGED <<inForce, considered>>

Next == Read \/ \E c \in Clients : Obey(c) \/ PassOver(c)

Spec == Init /\ [][Next]_vars

-----------------------------------------------------------------------------

\* What main reads goes back to no earlier command of the client it read last.
NeverBack ==
    [][seen.rpm # <<>> =>
        /\ seen'.rpm # <<>>
        /\ seen'.rpm[1] = seen.rpm[1] => seen'.rpm[2] >= seen.rpm[2]]_vars
=============================================================================
