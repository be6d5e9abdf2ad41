------------------------------ MODULE MCWorker ------------------------------
(* Two threads, one connection, one link or token at a time.  Callers ask    *)
(* for links that live longer than the cap.                                 *)
EXTENDS Worker
=============================================================================
