---------------------------- MODULE MCFeedConfig ----------------------------
(* Every small configuration file. *)
EXTENDS FeedConfig, TLC

\* Ids and addresses are only compared.
NameSymmetry == Permutations(Ids) \cup Permutations(Addresses)
=============================================================================
