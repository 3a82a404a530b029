------------------------- MODULE MCProcessedEvents --------------------------
(* Small instances of ProcessedEvents for TLC. *)
EXTENDS ProcessedEvents, TLC

Symmetry == Permutations(EventIds) \cup Permutations(Hashes) \cup Permutations(Handlers)
=============================================================================
