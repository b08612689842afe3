-------------------------- MODULE MCBatchProcessor --------------------------
(***************************************************************************)
(* Small instances of BatchProcessor for TLC.  The emitters and the         *)
(* controllers are model values given in the .cfg files.                    *)
(***************************************************************************)
EXTENDS BatchProcessor, TLC

Symmetry == Permutations(Emitters) \cup Permutations(Controllers)
=============================================================================
