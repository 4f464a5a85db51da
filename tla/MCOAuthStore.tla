----------------------------- MODULE MCOAuthStore -----------------------------
(* The token store with small sets of requests and codes. A request is     *)
(* only compared with other requests, and a code with codes: both sets are *)
(* interchangeable.                                                        *)
EXTENDS OAuthStore, TLC
CONSTANTS r1, r2, r3, r4, c1, c2
Interchangeable == Permutations(Requests) \cup Permutations(Codes)
=============================================================================
