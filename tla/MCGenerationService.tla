-------------------------- MODULE MCGenerationService --------------------------
(* GenerationService for TLC: one input that the bucket serves once and then   *)
(* throttles, and one that can never be admitted.                              *)
EXTENDS GenerationService, TLC

CONSTANTS small, huge
MCCost == small :> 2 @@ huge :> 4

\* Callers and ids are interchangeable for the invariants.
MCSymmetry == Permutations(Clients) \union Permutations(Ids)
=============================================================================
