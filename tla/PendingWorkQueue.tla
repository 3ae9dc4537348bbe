-------------------------- MODULE PendingWorkQueue --------------------------
(***************************************************************************)
(* PendingWorkQueue<T> of PendingWorkQueue.hxx: the std::deque between the *)
(* event loop, which pushes, and the worker threads, which pop.            *)
(*                                                                         *)
(* Push and Pop run under the queue's own mutex, so each is one step.      *)
(* Count() takes no lock.  Pop does not test for an empty deque: front()   *)
(* and pop_front() are then undefined.  What libstdc++ does is modelled:   *)
(* the start cursor moves past the finish cursor, the value read is a      *)
(* stale slot or memory never written, size() wraps to a huge number, and  *)
(* each later push only brings the finish cursor one step back towards the *)
(* start cursor, so its item is never seen again.  The distance between    *)
(* the two cursors is overPops, the items so lost are swallowed.           *)
(***************************************************************************)
EXTENDS Naturals, Sequences

CONSTANTS
    Items,          \* what the program pushes
    Garbage,        \* what a read of memory never written yields
    MaxOverPops     \* bound: pops of an empty queue explored

VARIABLE pendingList    \* the deque: its items, or how far it has over-run, and what that cost

QueueType == [items : Seq(Items), overPops : 0 .. MaxOverPops, swallowed : SUBSET Items]

QueueInit == pendingList = [items |-> <<>>, overPops |-> 0, swallowed |-> {}]

\* Count() > 0, the only use the program makes of Count().
CountIsPositive == pendingList.items # <<>> \/ pendingList.overPops > 0

Push(x) ==
    pendingList' =
        IF pendingList.overPops > 0
        THEN [pendingList EXCEPT !.overPops = @ - 1, !.swallowed = @ \cup {x}]
        ELSE [pendingList EXCEPT !.items = Append(@, x)]

\* Pop of a queue that holds an item.
PopItem(x) ==
    /\ pendingList.items # <<>>
    /\ x = Head(pendingList.items)
    /\ pendingList' = [pendingList EXCEPT !.items = Tail(@)]

\* Pop of a queue that holds none: undefined, see above.
PopEmpty(x) ==
    /\ pendingList.items = <<>>
    /\ pendingList.overPops < MaxOverPops
    /\ x \in Items \cup {Garbage}
    /\ pendingList' = [pendingList EXCEPT !.overPops = @ + 1]

Pop(x) == PopItem(x) \/ PopEmpty(x)

=============================================================================
