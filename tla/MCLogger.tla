------------------------------ MODULE MCLogger ------------------------------
(* Bounds for the logger: see the configuration. *)
EXTENDS Logger
=============================================================================
