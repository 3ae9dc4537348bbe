----------------------------- MODULE MCMddProxy -----------------------------
(* Bounds for the event loop: see the configurations. *)
EXTENDS MddProxy, TLC

\* The sockets are interchangeable; for safety runs only.
SocketSymmetry == Permutations(Sockets)
=============================================================================
