--------------------------- MODULE MCWriteReplay ---------------------------
(* Small instances of WriteReplay for TLC. *)
EXTENDS WriteReplay, TLC

\* Calls are interchangeable (safety runs only: symmetry is unsound with
\* liveness properties).
CallSymmetry == Permutations(Calls)
=============================================================================
