---------------------------- MODULE MCLocationFeed ----------------------------
(* Instances of LocationFeed for TLC: two places out of each other's stop  *)
(* radius, or one where only the order of the fixes matters.               *)
EXTENDS LocationFeed, TLC

MCPlaces == {1, 2}
MCOnePlace == {1}
MCNear == {<<p, p>> : p \in Places}
=============================================================================
