--------------------------- MODULE MCFileTransfers ---------------------------
(* Small instances of FileTransfers for TLC. *)
EXTENDS FileTransfers, TLC

Symmetry == Permutations(Transfer) \cup Permutations(User) \cup Permutations(Name)
=============================================================================
