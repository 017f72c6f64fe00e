--------------------------- MODULE MCRateLimiter ---------------------------
(* Two instances of RateLimiter for TLC: a scraper that keeps within the   *)
(* limit beside a flooder with two connections, and the flooder alone.     *)
EXTENDS RateLimiter

MCClientOf == [k \in Connections |-> IF k = "k0" THEN "scraper" ELSE "flooder"]
=============================================================================
