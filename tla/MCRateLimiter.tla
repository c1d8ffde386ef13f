---------------------------- MODULE MCRateLimiter ----------------------------
(* RateLimiter for TLC: two addresses of one /64 and one of another bucket. *)
EXTENDS RateLimiter, TLC

CONSTANTS r1, r2, v6a, v6b, v4, net6, net4

MCBucketOf == [c \in Clients |-> IF c = v4 THEN net4 ELSE net6]
MCSymmetry == Permutations(Requests)
==============================================================================
