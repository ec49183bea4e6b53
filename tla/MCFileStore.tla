----------------------------- MODULE MCFileStore -----------------------------
(***************************************************************************)
(* An instance of FileStore for TLC. Workers and files are model values    *)
(* and no worker or file is treated in a way of its own, so states that    *)
(* differ in their names only are identified; there is no liveness.        *)
(***************************************************************************)
EXTENDS FileStore, TLC

Names == Permutations(Workers) \cup Permutations(Files)
=============================================================================
