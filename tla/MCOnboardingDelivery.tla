------------------------ MODULE MCOnboardingDelivery ------------------------
(* Small instances of OnboardingDelivery for TLC. *)
EXTENDS OnboardingDelivery, TLC

Symmetry ==
  Permutations(Hashes) \cup Permutations(Handlers)
    \cup Permutations(Originals) \cup Permutations(Copies \ Originals)
=============================================================================
