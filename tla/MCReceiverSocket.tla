-------------------------- MODULE MCReceiverSocket --------------------------
(* Bounds for the receive and send path.                                     *)
EXTENDS ReceiverSocket, TLC

\* The threads are interchangeable.
ThreadSymmetry == Permutations(Threads)

\* The writer runs beside one drain at a time, and races at one collector, or drains
\* overlap without it.  A start that leaves no thread leaves nothing but the flag, and
\* is not followed up.
WriterOrOverlap ==
    /\ writer = "off" => ~writeStats
    /\ \/ writer = "off" /\ ~timed
       \/ /\ ~overlapped
          /\ Cardinality({t \in Threads : pc[t] # "off"}) <= 1
          /\ Cardinality({c \in Stats!Collectors : raced[c]}) <= 1
=============================================================================
