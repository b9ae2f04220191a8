----------------------------- MODULE MCThreadPool -----------------------------
(* A small pool for TLC. *)
EXTENDS ThreadPool
=============================================================================
