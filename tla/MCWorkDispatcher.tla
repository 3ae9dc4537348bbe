-------------------------- MODULE MCWorkDispatcher --------------------------
(* The dispatcher under any use its owner can make of it. *)
EXTENDS WorkDispatcher

\* Stop calls come to a pool whose workers have one thread each and whose queue has
\* not over-run, or none comes at all.  What an over-run queue swallows changes
\* nothing for the workers, and is left to the run of the proxy.
StopOrSpawn ==
    /\ pendingItems.swallowed = {}
    /\ \/ stops = 0
       \/ pendingItems.overPops = 0 /\ \A w \in Workers : Single(w)
=============================================================================
