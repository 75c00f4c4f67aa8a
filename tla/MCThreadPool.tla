----------------------------- MODULE MCThreadPool -----------------------------
(* Small pools for TLC: two handlers, two clients, two or three requests.  No *)
(* symmetry, which would be unsound for the liveness properties.              *)
EXTENDS ThreadPool
=============================================================================
