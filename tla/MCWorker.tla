------------------------------ MODULE MCWorker ------------------------------
(* One worker under every sequence of calls, with up to two threads. *)
EXTENDS Worker
=============================================================================
