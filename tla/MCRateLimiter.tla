--------------------------- MODULE MCRateLimiter ---------------------------
(* Small instances of RateLimiter for TLC. *)
EXTENDS RateLimiter, TLC

\* Requests are interchangeable, and so are addresses.
LimiterSymmetry == Permutations(Requests) \cup Permutations(Addresses)
=============================================================================
