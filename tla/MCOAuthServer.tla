--------------------------- MODULE MCOAuthServer ---------------------------
(* Small instances of OAuthServer for TLC. *)
EXTENDS OAuthServer, TLC

\* Requests are interchangeable, and so are codes (safety runs only).
RequestSymmetry == Permutations(Requests) \cup Permutations(Codes)
=============================================================================
