--------------------------- MODULE MCServiceProcess --------------------------
(* ServiceProcess for TLC: publishers are interchangeable.                 *)
EXTENDS ServiceProcess, TLC
Interchangeable == Permutations(Publishers)
=============================================================================
