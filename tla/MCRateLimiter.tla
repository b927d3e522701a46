---------------------------- MODULE MCRateLimiter ----------------------------
(***************************************************************************)
(* Values for TLC.  Two goroutines, so that one can wait with an old time  *)
(* while the other opens a bucket; enough requests of each address to fill *)
(* one bucket and overflow into a third.                                   *)
(***************************************************************************)
EXTENDS RateLimiter, TLC

CONSTANTS home, cafe, w1, w2

Symmetry == Permutations(IPs) \cup Permutations(Workers)
=============================================================================
