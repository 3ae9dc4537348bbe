------------------------------ MODULE MddProxy ------------------------------
(***************************************************************************)
(* MddProxy's event loop (MddProxy.hxx) and the Epoller it waits in, over  *)
(* the dispatcher of WorkDispatcher.tla: datagrams arrive at the receivers'*)
(* sockets, epoll reports the sockets, the workers drain them, and Stop()  *)
(* may come at any time after the constructor.                             *)
(*                                                                         *)
(* A socket is unread while its receive buffer holds datagrams.  The       *)
(* descriptors are registered edge-triggered (EPOLLET): an arrival puts    *)
(* the socket on epoll's ready list, epoll_wait takes the list and reports *)
(* those of it that can still be read, and a socket left unread is not     *)
(* reported again before the next arrival.                                 *)
(***************************************************************************)
EXTENDS Naturals, Sequences, FiniteSets

CONSTANTS
    Sockets, Garbage, InitialWorkers, MaxWorkerThreads, MaxWorkers,
    MaxPending, MaxFree, MaxOverPops, MaxStops,     \* see WorkDispatcher.tla
    MaxArrivals                                     \* bound: datagrams that arrive

ASSUME SocketsAssumption == Garbage \notin Sockets /\ IsFiniteSet(Sockets)
ASSUME WorkerCountAssumption ==
    /\ {InitialWorkers, MaxWorkerThreads, MaxWorkers} \subseteq Nat \ {0}
    /\ InitialWorkers <= MaxWorkers
    /\ MaxWorkerThreads <= MaxWorkers
ASSUME BoundAssumption == {MaxPending, MaxFree, MaxOverPops, MaxStops} \subseteq Nat
ASSUME MaxArrivalsAssumption == MaxArrivals \in Nat

VARIABLES
    state, receiverSocket, syncLock, pc, held, process,
    pendingItems, freeWorkers, busyWorkers, totalWorkerCount, dispatchLock,
    main, evList, chosen, toAdd, joined, handler, below, hNext, stops,
                        \* see Worker.tla and WorkDispatcher.tla
    continueProcessing, \* cleared by Stop(), which then closes the epoll handle
    ready,              \* epoll's ready list, as a set
    unread,             \* the sockets with datagrams to read
    arrivals            \* how many datagrams have arrived

D == INSTANCE WorkDispatcher

dispatcherVars ==
    <<state, receiverSocket, syncLock, pc, held, process, pendingItems, freeWorkers, busyWorkers,
      totalWorkerCount, dispatchLock, main, evList, chosen, toAdd, joined,
      handler, below, hNext, stops>>
proxyVars == <<continueProcessing, ready, unread, arrivals>>
vars == <<dispatcherVars, proxyVars>>

TypeOK ==
    /\ D!TypeOK
    /\ continueProcessing \in BOOLEAN
    /\ ready \subseteq Sockets
    /\ unread \subseteq Sockets
    /\ arrivals \in 0 .. MaxArrivals

Init ==
    /\ D!Init
    /\ continueProcessing = TRUE
    /\ ready = {}
    /\ unread = {}
    /\ arrivals = 0

-----------------------------------------------------------------------------

\* The network delivers a datagram to a receiver's socket.
Arrive(s) ==
    /\ process = "up"
    /\ arrivals < MaxArrivals
    /\ arrivals' = arrivals + 1
    /\ unread' = unread \cup {s}
    /\ ready' = ready \cup {s}
    /\ UNCHANGED <<dispatcherVars, continueProcessing>>

\* WaitForData: epoll_wait returns with what is ready and still unread; nothing
\* else returns from it but Stop().
WaitForData ==
    /\ continueProcessing
    /\ ready \cap unread # {}
    /\ \E evs \in D!EventLists :
          /\ {evs[i] : i \in DOMAIN evs} = ready \cap unread
          /\ D!ProcessData(evs)
    /\ ready' = {}
    /\ UNCHANGED <<continueProcessing, unread, arrivals>>

\* WaitForExit falls out of its loop: epoll_wait fails on the closed handle, or
\* ProcessData has returned, and the flag is down.
LeaveLoop ==
    /\ ~continueProcessing
    /\ D!EnterJoin
    /\ UNCHANGED proxyVars

\* Mutant of Stop: the flag is left up.
StopWithoutFlag == D!WakeUpAllThreads /\ UNCHANGED proxyVars

\* Stop(): from the CLI's stop command, or from the signal handler.
Stop ==
    /\ D!WakeUpAllThreads
    /\ continueProcessing' = FALSE
    /\ UNCHANGED <<ready, unread, arrivals>>

\* Stop() from the signal handler, while the code it interrupts is inside Log() or
\* inside another Stop().
StopOnTop ==
    /\ D!InterruptLogging \/ D!InterruptStop
    /\ continueProcessing' = FALSE
    /\ UNCHANGED <<ready, unread, arrivals>>

\* ReceiveData() returns once recvfrom() has found nothing more to read.
FinishReceive(t) ==
    /\ D!FinishReceive(t)
    /\ unread' = unread \ {held[t]}
    /\ UNCHANGED <<continueProcessing, ready, arrivals>>

AddNewWorkers(count) == D!AddWorkers(count) /\ UNCHANGED proxyVars

\* The rest of the constructor, or main(), throws.
OwnerThrows == D!OwnerThrows /\ UNCHANGED proxyVars

\* The owner calls WaitForExit.
CallWaitForExit == D!EnterWait /\ UNCHANGED proxyVars

OwnerStep ==
    \/ WaitForData \/ LeaveLoop \/ CallWaitForExit
    \/ D!OwnerStep /\ UNCHANGED proxyVars

HandlerStep == D!HandlerStep /\ UNCHANGED proxyVars

ThreadStep(t) ==
    \/ FinishReceive(t)
    \/ D!ThreadStep(t) /\ UNCHANGED proxyVars

Next ==
    \/ OwnerStep \/ HandlerStep \/ Stop \/ StopOnTop
    \/ \E s \in Sockets : Arrive(s)
    \/ \E t \in D!Threads : ThreadStep(t)
    \/ \E count \in D!Workers : AddNewWorkers(count)
    \/ OwnerThrows
    \/ D!Failure /\ UNCHANGED proxyVars

Safety == Init /\ [][Next]_vars

\* The scheduler runs every thread, and a datagram feed pauses now and then, so
\* that ReceiveData() returns.  Nothing makes datagrams arrive, Stop() be
\* called, threads wake up unasked or sends fail.  Strong fairness for the owner:
\* a worker that wakes up unasked over and over takes its mutex and lets go of it
\* each time, and the owner, waiting for it in Resume(), gets it in the end.
Spec ==
    /\ Safety
    /\ SF_vars(OwnerStep)
    /\ WF_vars(HandlerStep)
    /\ \A t \in D!Threads : WF_vars(ThreadStep(t))

-----------------------------------------------------------------------------

\* A socket with datagrams to read is not forgotten: it is about to be reported, or
\* with the dispatcher.
Tracked(s) == s \in ready \/ D!InDispatch(s)

\* No datagram is forgotten while the proxy is not stopped and no worker has two
\* threads, unless its socket was pushed into a queue that two workers had popped
\* for one item.  ProcessData, Resume, OnWorkComplete and the edge-triggered epoll
\* each hold a part of what this takes.
UnreadIsTracked ==
    (stops = 0 /\ process = "up" /\ \A w \in D!Workers : D!Single(w)) =>
        \A s \in unread : Tracked(s) \/ s \in pendingItems.swallowed

\* JoinThreads deletes a worker only when the worker's thread has exited, so a
\* deleted worker is used by a second stop call alone.  Of workers with one thread.
DeletedIsUnused ==
    \A w \in 1 .. joined :
        D!Single(w) =>
            /\ pc[<<w, 1>>] = "exited"
            /\ handler \in {"store", "signal"} => stops > 1

\* The same of every worker, those that ProcessData spawns included.
SpawnedWorkIsTracked ==
    stops = 0 /\ process = "up" => \A s \in unread : Tracked(s)

\* A datagram is read in the end, unless the proxy is stopped or a send fails.
DatagramsAreRead ==
    \A s \in Sockets : s \in unread ~> s \notin unread \/ stops > 0 \/ process # "up"

\* The one way a datagram stays unread: OnWorkComplete found the queue empty just
\* before ProcessData pushed the socket, and now the socket waits in the queue
\* while a worker waits for work.
Stranded(s) == D!InPending(s) /\ freeWorkers # <<>>

UnreadOnlyIfStranded ==
    \A s \in Sockets :
        s \in unread ~> s \notin unread \/ Stranded(s) \/ stops > 0 \/ process # "up"

\* Stop() makes WaitForExit return and the process end.
StopTerminates == stops > 0 ~> process # "up"


=============================================================================
