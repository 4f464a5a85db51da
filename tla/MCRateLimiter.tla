---------------------------- MODULE MCRateLimiter ----------------------------
\* Two replicas and one limited key.
EXTENDS RateLimiter, TLC

CONSTANTS r1, r2
=============================================================================
