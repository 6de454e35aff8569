---------------------------- MODULE MCJobControl ----------------------------
(***************************************************************************)
(* Instances of JobControl for TLC: symmetry over process ids and          *)
(* addresses, which the model only compares.                               *)
(***************************************************************************)
EXTENDS JobControl, TLC

Interchangeable == Permutations(Pids) \cup Permutations(Refs)
=============================================================================
