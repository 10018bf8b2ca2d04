----------------------------- MODULE MCGoClient -----------------------------
(* One write and one read, with a place in c2s for one of them.              *)
EXTENDS GoClient
=============================================================================
