------------------------- MODULE MCBatchLogProcessor -------------------------
(***************************************************************************)
(* Small instances of BatchLogProcessor for TLC.                            *)
(***************************************************************************)
EXTENDS BatchLogProcessor, TLC

Symmetry == Permutations(Emitters) \cup Permutations(Controllers)
=============================================================================
