--------------------------- MODULE MCPlatformPost ---------------------------
(***************************************************************************)
(* PlatformPost, its inductive invariant and its refinement for TLC: the   *)
(* processes and publish_ids of one kind are interchangeable.              *)
(***************************************************************************)
EXTENDS PlatformPostInv, PublishRefinement, TLC

Symmetry == Permutations(Workers) \cup Permutations(Clis) \cup Permutations(Users)
                \cup Permutations(Ids)
=============================================================================
