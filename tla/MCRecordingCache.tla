-------------------------- MODULE MCRecordingCache --------------------------
(* Instances of RecordingCache for TLC. *)
EXTENDS RecordingCache, TLC

\* Clips, requests, files and download objects are interchangeable.
Symmetry == Permutations(Keys) \cup Permutations(Requests)
              \cup Permutations(Files) \cup Permutations(Downloads)
=============================================================================
