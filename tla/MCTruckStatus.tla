---------------------------- MODULE MCTruckStatus ----------------------------
(* Instances of TruckStatus for TLC: every truck has the cameras in         *)
(* Registered, and its heartbeats may name any camera id.                   *)
EXTENDS TruckStatus

CONSTANT Registered

MCRows == Trucks \X Registered
=============================================================================
