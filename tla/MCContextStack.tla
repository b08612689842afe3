--------------------------- MODULE MCContextStack ---------------------------
(***************************************************************************)
(* Small instances of ContextStack for TLC.                                 *)
(***************************************************************************)
EXTENDS ContextStack, TLC

Symmetry == Permutations(Guards) \cup Permutations(Spans) \cup Permutations(Entries)
=============================================================================
