--------------------------- MODULE MCMddProxyMain ---------------------------
(* The program with one worker and a few clients. *)
EXTENDS MddProxyMain
=============================================================================
