--------------------------- MODULE MCRateLimiter ---------------------------
(* Instances of the rate limiter for TLC.                                  *)
EXTENDS RateLimiterProperties, TLC

(* Ids are interchangeable.                                                *)
Ids == Permutations(Server) \cup Permutations(Request) \cup Permutations(Limit)
=============================================================================
