--------------------------- MODULE MCLocationStore ---------------------------
(* Instances of LocationStore for TLC: places on a road, one stop radius   *)
(* apart from the next.                                                    *)
EXTENDS LocationStore, Integers, TLC

MCPlaces == 1 .. 3
MCNear == {pq \in MCPlaces \X MCPlaces : pq[1] - pq[2] \in {-1, 0, 1}}

Symmetry == Permutations(Handlers)
=============================================================================
