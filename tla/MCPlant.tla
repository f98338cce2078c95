-------------------------------- MODULE MCPlant --------------------------------
(***************************************************************************)
(* Instances of PropulsionPlant for TLC, with the assumptions of           *)
(* SafetyGates and ActuatorLaws.                                           *)
(***************************************************************************)
EXTENDS PropulsionPlant, SafetyGates, ActuatorLaws
=============================================================================
