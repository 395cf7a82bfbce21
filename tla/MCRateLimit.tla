---------------------------- MODULE MCRateLimit ----------------------------
(* Two addresses and two concurrent requests. *)
EXTENDS RateLimit, TLC

CONSTANTS c1, c2, r1, r2

MCClients == {c1, c2}
MCRequests == {r1, r2}
Symmetry == Permutations(MCClients) \cup Permutations(MCRequests)
=============================================================================
