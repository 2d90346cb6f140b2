--------------------------- MODULE MCRateLimiter ---------------------------
(* A limiter of two requests per window of a few seconds of two ticks.      *)
EXTENDS RateLimiter
=============================================================================
