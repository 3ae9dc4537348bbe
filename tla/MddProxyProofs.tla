--------------------------- MODULE MddProxyProofs ---------------------------
(***************************************************************************)
(* What holds of the event loop over the dispatcher for every number of    *)
(* receivers, workers and datagrams: no datagram is forgotten while nobody *)
(* stops the proxy.                                                        *)
(***************************************************************************)
EXTENDS MddProxy, FiniteSetTheorems, TLAPS

DP == INSTANCE DeliveryProofs

-----------------------------------------------------------------------------
\* D, the instance the proxy uses, and DP, the one that comes with the proofs, are
\* the same module over the same variables.
LEMMA SameState ==
    /\ D!TypeOK <=> DP!TypeOK
    /\ D!Init <=> DP!Init
    /\ D!Workers = DP!Workers /\ D!Threads = DP!Threads
    /\ \A w : D!Single(w) <=> DP!Single(w)
    /\ \A s : D!InDispatch(s) <=> DP!InDispatch(s)
  <1>1. D!TypeOK <=> DP!TypeOK
    BY DEF D!TypeOK, DP!TypeOK, D!W!TypeOK, DP!W!TypeOK, D!W!Threads, DP!W!Threads, D!W!States,
           DP!W!States, D!W!Labels, DP!W!Labels, D!Workers, DP!Workers, D!OwnerLabels,
           DP!OwnerLabels, D!Q!QueueType, DP!Q!QueueType
  <1>2. D!Init <=> DP!Init
    BY DEF D!Init, DP!Init, D!W!Init, DP!W!Init, D!Q!QueueInit, DP!Q!QueueInit, D!W!Threads,
           DP!W!Threads, D!Workers, DP!Workers
  <1>3. D!Workers = DP!Workers /\ D!Threads = DP!Threads
    BY DEF D!Workers, DP!Workers, D!Threads, DP!Threads, D!W!Threads, DP!W!Threads
  <1>4. /\ \A w : D!Single(w) <=> DP!Single(w)
        /\ \A s : D!InDispatch(s) <=> DP!InDispatch(s)
    BY DEF D!InDispatch, DP!InDispatch, D!InPending, DP!InPending, D!WillDrain, DP!WillDrain,
           D!Single, DP!Single, D!W!ThreadsOf, DP!W!ThreadsOf, D!W!Started, DP!W!Started,
           D!Workers, DP!Workers
  <1>. QED
    BY <1>1, <1>2, <1>3, <1>4

LEMMA SameOwnerStep == D!OwnerStep => DP!OwnerStep
  BY DEF D!OwnerStep, DP!OwnerStep, D!Construct, DP!Construct, D!AddOne, DP!AddOne, D!AddWorker,
         DP!AddWorker, D!CreateNewWorker, DP!CreateNewWorker, D!OwnerLocks, DP!OwnerLocks,
         D!TakeFreeWorker, DP!TakeFreeWorker, D!NoFreeWorker, DP!NoFreeWorker, D!CreateWorker,
         DP!CreateWorker, D!Assign, DP!Assign, D!ResumeWorker, DP!ResumeWorker, D!ResumeNewWorker,
         DP!ResumeNewWorker, D!RecordNewBusyWorker, DP!RecordNewBusyWorker, D!SecondCreate,
         DP!SecondCreate, D!PushPending, DP!PushPending, D!JoinWorker, DP!JoinWorker, D!Exit,
         DP!Exit, D!NextEvent, DP!NextEvent, D!LastThread, DP!LastThread, D!OwnerAt, DP!OwnerAt,
         D!OwnerTo, DP!OwnerTo, D!Q!Push, DP!Q!Push, D!workerVars, DP!workerVars, D!poolVars,
         DP!poolVars, D!ownerVars, DP!ownerVars, D!handlerVars, DP!handlerVars, D!W!Create,
         DP!W!Create, D!W!Trans, DP!W!Trans, D!W!Started, DP!W!Started, D!W!AssignSocket,
         DP!W!AssignSocket, D!W!Resume, DP!W!Resume, D!W!Signal, DP!W!Signal, D!W!ThreadsOf,
         DP!W!ThreadsOf, D!W!EndProcess, DP!W!EndProcess

LEMMA SameHandlerStep == D!HandlerStep => DP!HandlerStep
  BY DEF D!HandlerStep, DP!HandlerStep, D!HandlerLocks, DP!HandlerLocks, D!HandlerStores,
         DP!HandlerStores, D!HandlerSignals, DP!HandlerSignals, D!LeaveStop, DP!LeaveStop,
         D!poolVars, DP!poolVars, D!ownerVars, DP!ownerVars, D!workerVars, DP!workerVars, D!W!StoreTerminate,
         DP!W!StoreTerminate, D!W!SignalTerminate, DP!W!SignalTerminate, D!W!Signal, DP!W!Signal,
         D!W!ThreadsOf, DP!W!ThreadsOf

LEMMA SameThreadStep ==
    ASSUME NEW t
    PROVE  /\ D!ThreadStep(t) => DP!ThreadStep(t)
           /\ D!FinishReceive(t) => DP!FinishReceive(t)
           /\ D!Disturbed(t) => DP!Disturbed(t)
  BY DEF D!ThreadStep, DP!ThreadStep, D!CheckPending, DP!CheckPending, D!PopPending, DP!PopPending,
         D!ReturnFreeWorker, DP!ReturnFreeWorker, D!OwnStep, DP!OwnStep, D!FinishReceive,
         DP!FinishReceive, D!Disturbed, DP!Disturbed, D!Q!CountIsPositive, DP!Q!CountIsPositive,
         D!Q!Pop, DP!Q!Pop, D!Q!PopItem, DP!Q!PopItem, D!Q!PopEmpty, DP!Q!PopEmpty,
         D!W!CheckPending, DP!W!CheckPending, D!W!FetchItem, DP!W!FetchItem, D!W!Return,
         DP!W!Return, D!W!ReadState, DP!W!ReadState, D!W!CallReceive, DP!W!CallReceive,
         D!W!CallGarbage, DP!W!CallGarbage, D!W!ReturnFromReceive, DP!W!ReturnFromReceive,
         D!W!KeepResumed, DP!W!KeepResumed, D!W!StoreItem, DP!W!StoreItem, D!W!GoIdle, DP!W!GoIdle,
         D!W!LeavePause, DP!W!LeavePause, D!W!DecideToWait, DP!W!DecideToWait, D!W!CondWait,
         DP!W!CondWait, D!W!ReceiveThrows, DP!W!ReceiveThrows, D!W!SpuriousWakeup,
         DP!W!SpuriousWakeup, D!W!Trans, DP!W!Trans, D!poolVars, DP!poolVars, D!ownerVars,
         DP!ownerVars, D!handlerVars, DP!handlerVars

LEMMA SameFailure == D!Failure => DP!Failure
  <1>1. ASSUME NEW t \in D!Threads, D!Disturbed(t)
        PROVE  \E u \in DP!Threads : DP!Disturbed(u)
    BY <1>1, SameThreadStep, SameState
  <1>2. D!AddFails \/ D!CreateFails \/ D!UseDeleted => DP!AddFails \/ DP!CreateFails \/ DP!UseDeleted
    BY SameState DEF D!AddFails, DP!AddFails, D!CreateFails, DP!CreateFails, D!UseDeleted,
       DP!UseDeleted, D!OwnerAt, DP!OwnerAt, D!W!EndProcess, DP!W!EndProcess, D!workerVars,
       DP!workerVars, D!poolVars, DP!poolVars, D!ownerVars, DP!ownerVars, D!handlerVars,
       DP!handlerVars
  <1>. QED
    BY <1>1, <1>2 DEF D!Failure, DP!Failure

LEMMA SameEnvironment ==
    /\ \A count : D!AddWorkers(count) => DP!AddWorkers(count)
    /\ D!OwnerThrows => DP!OwnerThrows
    /\ D!EnterWait => DP!EnterWait
    /\ D!EnterJoin => DP!EnterJoin
    /\ D!WakeUpAllThreads => DP!WakeUpAllThreads
    /\ D!InterruptLogging => DP!InterruptLogging
    /\ D!InterruptStop => DP!InterruptStop
    /\ \A evs \in D!EventLists : evs \in DP!EventLists /\ (D!ProcessData(evs) => DP!ProcessData(evs))
  <1>1. ASSUME NEW count, D!AddWorkers(count)
        PROVE  DP!AddWorkers(count)
    BY <1>1 DEF D!AddWorkers, DP!AddWorkers, D!OwnerAt, DP!OwnerAt, D!workerVars, DP!workerVars,
           D!poolVars, DP!poolVars, D!ownerVars, DP!ownerVars, D!handlerVars, DP!handlerVars
  <1>2. /\ D!OwnerThrows => DP!OwnerThrows
        /\ D!EnterWait => DP!EnterWait
        /\ D!EnterJoin => DP!EnterJoin
    BY DEF D!OwnerThrows, DP!OwnerThrows, D!W!EndProcess, DP!W!EndProcess, D!EnterWait,
       DP!EnterWait, D!EnterJoin, DP!EnterJoin, D!OwnerAt, DP!OwnerAt, D!OwnerTo,
       DP!OwnerTo, D!workerVars, DP!workerVars, D!poolVars, DP!poolVars, D!ownerVars,
       DP!ownerVars, D!handlerVars, DP!handlerVars
  <1>5. /\ D!WakeUpAllThreads => DP!WakeUpAllThreads
        /\ D!InterruptLogging => DP!InterruptLogging
        /\ D!InterruptStop => DP!InterruptStop
    BY DEF D!WakeUpAllThreads, DP!WakeUpAllThreads, D!InterruptLogging,
       DP!InterruptLogging, D!InterruptStop, DP!InterruptStop, D!StopCall, DP!StopCall,
       D!OwnerMayLog, DP!OwnerMayLog, D!LastThread, DP!LastThread, D!W!Started,
       DP!W!Started, D!workerVars, DP!workerVars, D!poolVars, DP!poolVars,
       D!ownerVars, DP!ownerVars
  <1>3. ASSUME NEW evs, D!ProcessData(evs)
        PROVE  DP!ProcessData(evs)
    BY <1>3 DEF D!ProcessData, DP!ProcessData, D!OwnerAt, DP!OwnerAt, D!workerVars, DP!workerVars,
           D!poolVars, DP!poolVars, D!ownerVars, DP!ownerVars, D!handlerVars, DP!handlerVars
  <1>4. ASSUME NEW evs, evs \in D!EventLists
        PROVE  evs \in DP!EventLists
    <2>1. D!Cardinality(Sockets) = DP!Cardinality(Sockets)
      BY Zenon DEF D!Cardinality, DP!Cardinality
    <2>. QED
      BY <1>4, <2>1 DEF D!EventLists, DP!EventLists
  <1>. QED
    BY <1>1, <1>2, <1>3, <1>4, <1>5

-----------------------------------------------------------------------------
(* The proxy's steps, seen from the dispatcher.                              *)

LEMMA SameThreads ==
    ASSUME NEW t \in D!Threads, ThreadStep(t)
    PROVE  t \in DP!Threads /\ (DP!ThreadStep(t) \/ DP!FinishReceive(t))
  BY SameState, SameThreadStep DEF ThreadStep, FinishReceive

\* What is neither a step of the owner nor one that drains a socket.
Aside ==
    \/ HandlerStep \/ Stop \/ StopOnTop \/ LeaveLoop \/ CallWaitForExit \/ OwnerThrows
    \/ (\E count \in D!Workers : AddNewWorkers(count))
    \/ (D!Failure /\ UNCHANGED proxyVars)
    \/ UNCHANGED vars

LEMMA AsideStep == Aside => DP!OtherStep /\ ready' = ready /\ unread' = unread
  <1>1. CASE UNCHANGED vars
    BY <1>1 DEF vars, dispatcherVars, proxyVars, DP!OtherStep, DP!vars, DP!workerVars, DP!poolVars,
       DP!ownerVars, DP!handlerVars
  <1>2. CASE HandlerStep \/ (D!Failure /\ UNCHANGED proxyVars)
    BY <1>2, SameHandlerStep, SameFailure DEF HandlerStep, proxyVars, DP!OtherStep
  <1>3. CASE \/ Stop \/ StopOnTop \/ LeaveLoop \/ CallWaitForExit \/ OwnerThrows
             \/ \E count \in D!Workers : AddNewWorkers(count)
    BY <1>3, SameEnvironment, SameState
    DEF OwnerThrows, Stop, StopOnTop, LeaveLoop, CallWaitForExit, AddNewWorkers, proxyVars,
       DP!OtherStep, DP!Environment
  <1>. QED
    BY <1>1, <1>2, <1>3 DEF Aside

LEMMA WaitStep == WaitForData => DP!OtherStep
  BY SameEnvironment DEF WaitForData, DP!OtherStep, DP!Environment

LEMMA ArriveStep == (\E s \in Sockets : Arrive(s)) => DP!OtherStep
  BY DEF Arrive, dispatcherVars, DP!OtherStep, DP!vars, DP!workerVars, DP!poolVars, DP!ownerVars,
     DP!handlerVars

LEMMA Steps ==
    ASSUME [Next]_vars
    PROVE  \/ Aside \/ WaitForData
           \/ \E s \in Sockets : Arrive(s)
           \/ D!OwnerStep /\ UNCHANGED proxyVars
           \/ \E t \in D!Threads : ThreadStep(t)
  BY DEF Next, OwnerStep, Aside

LEMMA DispatcherStep == [Next]_vars => [DP!Next]_(DP!vars)
  <1>. SUFFICES ASSUME [Next]_vars
                PROVE  [DP!Next]_(DP!vars)
    OBVIOUS
  <1>1. DP!OtherStep \/ DP!OwnerStep
        \/ \E t \in DP!Threads : DP!ThreadStep(t) \/ DP!FinishReceive(t)
    BY Steps, AsideStep, WaitStep, ArriveStep, SameOwnerStep, SameThreads
  <1>. QED
    BY <1>1 DEF DP!OtherStep, DP!Next

-----------------------------------------------------------------------------

LEMMA Assumptions ==
    /\ Garbage \notin Sockets /\ DP!IsFiniteSet(Sockets)
    /\ /\ {InitialWorkers, MaxWorkerThreads, MaxWorkers} \subseteq Nat \ {0}
       /\ InitialWorkers <= MaxWorkers
       /\ MaxWorkerThreads <= MaxWorkers
    /\ {MaxPending, MaxFree, MaxOverPops, MaxStops} \subseteq Nat
  BY SocketsAssumption, WorkerCountAssumption, BoundAssumption, Zenon
  DEF IsFiniteSet, DP!IsFiniteSet

LEMMA InitDispatched == Init => DP!DispatchInv
  BY SameState, DP!InitDispatch, Assumptions DEF Init

LEMMA NextDispatched == DP!DispatchInv /\ [Next]_vars => DP!DispatchInv'
  BY DispatcherStep, DP!NextDispatch, Assumptions

ProxyTyped ==
    /\ continueProcessing \in BOOLEAN
    /\ ready \subseteq Sockets
    /\ unread \subseteq Sockets
    /\ arrivals \in 0 .. MaxArrivals

LEMMA NextProxyTyped == ProxyTyped /\ [Next]_vars => ProxyTyped'
  <1>. SUFFICES ASSUME ProxyTyped, [Next]_vars
                PROVE  ProxyTyped'
    OBVIOUS
  <1>. USE DEF ProxyTyped
  <1>1. CASE \E s \in Sockets : Arrive(s)
    BY <1>1, MaxArrivalsAssumption DEF Arrive
  <1>2. CASE WaitForData
    BY <1>2 DEF WaitForData
  <1>3. CASE \E t \in D!Threads : ThreadStep(t)
    BY <1>3 DEF ThreadStep, FinishReceive, proxyVars
  <1>4. CASE Stop \/ StopOnTop
    BY <1>4 DEF Stop, StopOnTop
  <1>5. CASE UNCHANGED proxyVars
    BY <1>5 DEF proxyVars
  <1>. QED
    BY <1>1, <1>2, <1>3, <1>4, <1>5
    DEF Next, OwnerStep, HandlerStep, LeaveLoop, CallWaitForExit, OwnerThrows, AddNewWorkers, vars

\* The lists and cursors of the proxy and its dispatcher are in range, for any number
\* of workers, receivers and datagrams.
THEOREM TypeCorrect == Safety => []TypeOK
  <1>1. Init => ProxyTyped
    BY MaxArrivalsAssumption DEF Init, ProxyTyped
  <1>2. DP!DispatchInv /\ ProxyTyped => TypeOK
    BY SameState DEF DP!DispatchInv, DP!TypeInv, ProxyTyped, TypeOK
  <1>. QED
    BY <1>1, <1>2, InitDispatched, NextDispatched, NextProxyTyped, PTL DEF Safety

-----------------------------------------------------------------------------
(* UnreadIsTracked, in the words of the dispatcher's proofs.                 *)

Followed == DP!Calm => \A s \in unread : s \in ready \/ DP!Accounted(s)

LEMMA FollowedIsTracked == Followed <=> UnreadIsTracked
  BY SameState DEF Followed, UnreadIsTracked, Tracked, DP!Calm, DP!Accounted

LEMMA NextFollowed == DP!DispatchInv /\ Followed /\ [Next]_vars => Followed'
  <1>. SUFFICES ASSUME DP!DispatchInv, Followed, [Next]_vars, DP!Calm', NEW s \in unread'
                PROVE  (s \in ready \/ DP!Accounted(s))'
    BY DEF Followed
  <1>. USE Assumptions
  <1>1. DP!Calm
    BY DispatcherStep, DP!CalmBefore DEF DP!DispatchInv
  <1>2. s \in unread => s \in ready \/ DP!Accounted(s)
    BY <1>1 DEF Followed
  <1>3. DP!OtherStep /\ DP!Accounted(s) => DP!Accounted(s)'
    BY <1>1, DP!OtherDelivers
  <1>4. CASE Aside
    BY <1>2, <1>3, <1>4, AsideStep
  <1>5. CASE \E x \in Sockets : Arrive(x)
    BY <1>2, <1>3, <1>5, ArriveStep DEF Arrive
  <1>6. CASE WaitForData
    <2>1. PICK evs \in D!EventLists : {evs[i] : i \in DOMAIN evs} = ready \cap unread
                                     /\ D!ProcessData(evs)
      BY <1>6 DEF WaitForData
    <2>2. evList' = evs
      BY <2>1 DEF D!ProcessData
    <2>3. s \in ready /\ s \in unread => DP!Accounted(s)'
      BY <2>1, <2>2 DEF DP!Accounted, DP!InDispatch
    <2>4. s \in unread
      BY <1>6 DEF WaitForData
    <2>. QED
      BY <1>2, <1>3, <1>6, <2>3, <2>4, WaitStep
  <1>7. CASE D!OwnerStep /\ UNCHANGED proxyVars
    <2>1. DP!Accounted(s) => DP!Accounted(s)'
      BY <1>1, <1>7, SameOwnerStep, DP!OwnerDelivers
    <2>. QED
      BY <1>2, <1>7, <2>1 DEF proxyVars
  <1>8. CASE \E t \in D!Threads : ThreadStep(t)
    <2>1. PICK t \in D!Threads : ThreadStep(t)
      BY <1>8
    <2>2. t \in DP!Threads /\ (DP!ThreadStep(t) \/ DP!FinishReceive(t))
      BY <2>1, SameThreads
    <2>3. DP!Accounted(s) => DP!Accounted(s)' \/ (DP!FinishReceive(t) /\ held[t] = s)
      BY <1>1, <2>2, DP!ThreadDelivers
    <2>4. DP!FinishReceive(t) => D!FinishReceive(t) /\ ~D!ThreadStep(t)
      <3>1. DP!FinishReceive(t) => D!FinishReceive(t)
        BY DEF D!FinishReceive, DP!FinishReceive, D!W!ReturnFromReceive, DP!W!ReturnFromReceive,
               D!W!Trans, DP!W!Trans, D!poolVars, DP!poolVars, D!ownerVars, DP!ownerVars,
               D!handlerVars, DP!handlerVars
      <3>2. D!FinishReceive(t) => pc[t] = "receive"
        BY DEF D!FinishReceive, D!W!ReturnFromReceive, D!W!Trans
      <3>3. D!ThreadStep(t) => pc[t] # "receive"
        BY DEF D!ThreadStep, D!CheckPending, D!PopPending, D!ReturnFreeWorker, D!OwnStep,
               D!W!CheckPending, D!W!FetchItem, D!W!Return, D!W!ReadState, D!W!CallReceive,
               D!W!CallGarbage, D!W!KeepResumed, D!W!StoreItem, D!W!GoIdle, D!W!LeavePause,
               D!W!DecideToWait, D!W!CondWait, D!W!Trans
      <3>. QED
        BY <3>1, <3>2, <3>3
    <2>5. CASE FinishReceive(t)
      BY <1>2, <2>3, <2>5 DEF FinishReceive
    <2>6. CASE D!ThreadStep(t) /\ UNCHANGED proxyVars
      BY <1>2, <2>3, <2>4, <2>6 DEF proxyVars
    <2>. QED
      BY <2>1, <2>5, <2>6 DEF ThreadStep
  <1>. QED
    BY <1>4, <1>5, <1>6, <1>7, <1>8, Steps

\* No datagram is forgotten between epoll's edges, the owner's list, the queue and the
\* workers, but for one pushed into an over-run queue, for any number of receivers,
\* workers and datagrams, while nobody stops the proxy and no worker has two threads.
THEOREM NoneForgotten == Safety => []UnreadIsTracked
  <1>1. Init => Followed
    BY DEF Init, Followed
  <1>. QED
    BY <1>1, InitDispatched, NextDispatched, NextFollowed, FollowedIsTracked, PTL DEF Safety

-----------------------------------------------------------------------------
(* DeletedIsUnused.                                                          *)

\* The owner joins only after a stop call has returned, and joins workers that have
\* ended.
JoinInv ==
    /\ ~continueProcessing => stops > 0
    /\ main = "join" => ~continueProcessing
    /\ joined > 0 => main = "join"
    /\ joined > 0 /\ handler # "off" => stops > 1
    /\ \A w \in 1 .. joined : D!Single(w) => pc[<<w, 1>>] = "exited"

\* How a step may move threads.
LEMMA PcSteps ==
    ASSUME [Next]_vars
    PROVE  \/ UNCHANGED pc
           \/ \E t, from, to : from # "exited" /\ to # "none" /\ D!W!Trans(t, from, to)
           \/ \E v : D!W!Signal(v)
  <1>1. CASE D!OwnerStep
    BY <1>1 DEF D!OwnerStep, D!Construct, D!AddOne, D!AddWorker, D!CreateNewWorker, D!OwnerLocks,
       D!TakeFreeWorker, D!NoFreeWorker, D!CreateWorker, D!Assign, D!ResumeWorker,
       D!ResumeNewWorker, D!RecordNewBusyWorker, D!SecondCreate, D!PushPending, D!JoinWorker,
       D!Exit, D!workerVars, D!W!Create, D!W!AssignSocket, D!W!Resume, D!W!EndProcess
  <1>2. CASE D!HandlerStep
    BY <1>2 DEF D!HandlerStep, D!HandlerLocks, D!HandlerStores, D!HandlerSignals, D!workerVars,
       D!W!StoreTerminate, D!W!SignalTerminate
  <1>3. CASE \E t \in D!Threads : ThreadStep(t)
    BY <1>3 DEF ThreadStep, FinishReceive, D!FinishReceive, D!ThreadStep, D!CheckPending,
       D!PopPending, D!ReturnFreeWorker, D!OwnStep, D!W!ReturnFromReceive, D!W!CheckPending,
       D!W!FetchItem, D!W!Return, D!W!ReadState, D!W!CallReceive, D!W!CallGarbage,
       D!W!KeepResumed, D!W!StoreItem, D!W!GoIdle, D!W!LeavePause, D!W!DecideToWait, D!W!CondWait
  <1>4. CASE D!Failure
    BY <1>4 DEF D!Failure, D!AddFails, D!CreateFails, D!UseDeleted, D!Disturbed, D!workerVars,
       D!W!EndProcess, D!W!ReceiveThrows, D!W!SpuriousWakeup
  <1>5. CASE \/ WaitForData \/ LeaveLoop \/ CallWaitForExit \/ OwnerThrows
             \/ Stop \/ StopOnTop \/ UNCHANGED vars
             \/ (\E s \in Sockets : Arrive(s))
             \/ \E count \in D!Workers : AddNewWorkers(count)
    BY <1>5 DEF D!OwnerThrows, D!W!EndProcess, OwnerThrows, WaitForData, LeaveLoop,
       CallWaitForExit, Stop, StopOnTop, Arrive, AddNewWorkers, vars, dispatcherVars,
       D!ProcessData, D!EnterJoin, D!EnterWait, D!WakeUpAllThreads, D!InterruptLogging,
       D!InterruptStop, D!StopCall, D!AddWorkers, D!workerVars
  <1>. QED
    BY <1>1, <1>2, <1>3, <1>4, <1>5 DEF Next, OwnerStep, HandlerStep

\* A thread that has ended stays ended, and a second thread stays.
LEMMA ThreadsPersist ==
    ASSUME TypeOK, [Next]_vars, NEW w \in D!Workers
    PROVE  /\ pc[<<w, 1>>] = "exited" => pc'[<<w, 1>>] = "exited"
           /\ D!Single(w)' => D!Single(w)
  <1>. USE DEF TypeOK, D!TypeOK, D!W!TypeOK, D!W!Threads, D!Single, D!W!Started
  <1>1. ASSUME NEW t, NEW from, NEW to, from # "exited", to # "none", D!W!Trans(t, from, to)
        PROVE  /\ pc[<<w, 1>>] = "exited" => pc'[<<w, 1>>] = "exited"
               /\ D!Single(w)' => D!Single(w)
    BY <1>1 DEF D!W!Trans
  <1>2. ASSUME NEW v, D!W!Signal(v)
        PROVE  /\ pc[<<w, 1>>] = "exited" => pc'[<<w, 1>>] = "exited"
               /\ D!Single(w)' => D!Single(w)
    BY <1>2 DEF D!W!Signal, D!W!ThreadsOf
  <1>. QED
    BY <1>1, <1>2, PcSteps

LEMMA NextJoinInv == TypeOK /\ JoinInv /\ [Next]_vars => JoinInv'
  <1>. SUFFICES ASSUME TypeOK, JoinInv, [Next]_vars
                PROVE  JoinInv'
    OBVIOUS
  <1>1. stops \in Nat /\ joined \in 0 .. MaxWorkers /\ MaxWorkers \in Nat
    BY Assumptions DEF TypeOK, D!TypeOK
  <1>. USE DEF JoinInv
  <1>2. ASSUME UNCHANGED joined
        PROVE  \A w \in 1 .. joined' : D!Single(w)' => pc'[<<w, 1>>] = "exited"
    BY <1>1, <1>2, ThreadsPersist DEF D!Workers
  <1>3. ASSUME UNCHANGED <<continueProcessing, main, joined, stops>>, handler' # "off" => handler # "off"
        PROVE  JoinInv'
    BY <1>2, <1>3
  <1>4. CASE D!OwnerStep /\ UNCHANGED proxyVars
    <2>1. CASE D!JoinWorker
      <3>1. /\ main = "join" /\ handler = "off" /\ joined' = joined + 1
            /\ pc[D!LastThread(joined + 1)] = "exited"
            /\ UNCHANGED <<main, handler, stops, pc>>
        BY <2>1 DEF D!JoinWorker, D!OwnerAt, D!handlerVars, D!workerVars
      <3>2. \A w \in 1 .. joined + 1 : D!Single(w)' => pc'[<<w, 1>>] = "exited"
        BY <1>1, <3>1 DEF D!Single, D!W!Started, D!LastThread
      <3>. QED
        BY <1>1, <1>4, <3>1, <3>2 DEF proxyVars
    <2>2. CASE D!OwnerStep /\ ~D!JoinWorker
      <3>1. /\ UNCHANGED <<joined, handler, stops>>
            /\ main' = "join" <=> main = "join"
        BY <2>2 DEF D!OwnerStep, D!Construct, D!AddOne, D!AddWorker, D!OwnerLocks,
           D!TakeFreeWorker, D!NoFreeWorker, D!CreateWorker, D!Assign, D!ResumeWorker,
           D!ResumeNewWorker, D!RecordNewBusyWorker, D!SecondCreate, D!PushPending,
           D!Exit, D!OwnerAt, D!OwnerTo, D!NextEvent, D!ownerVars, D!handlerVars
      <3>. QED
        BY <1>2, <1>4, <3>1 DEF proxyVars
    <2>. QED
      BY <1>4, <2>1, <2>2
  <1>5. CASE HandlerStep
    BY <1>3, <1>5 DEF HandlerStep, D!HandlerStep, D!HandlerLocks, D!HandlerStores,
       D!HandlerSignals, D!LeaveStop, D!ownerVars, proxyVars
  <1>6. CASE Stop \/ StopOnTop
    BY <1>1, <1>2, <1>6 DEF Stop, StopOnTop, D!WakeUpAllThreads, D!InterruptLogging,
       D!InterruptStop, D!StopCall, D!ownerVars
  <1>7. CASE \E t \in D!Threads : ThreadStep(t)
    BY <1>3, <1>7 DEF ThreadStep, FinishReceive, proxyVars, D!FinishReceive, D!ThreadStep,
       D!CheckPending, D!PopPending, D!ReturnFreeWorker, D!OwnStep, D!ownerVars, D!handlerVars
  <1>8. CASE D!Failure /\ UNCHANGED proxyVars
    <2>1. /\ UNCHANGED <<joined, handler, stops>>
          /\ main' = "join" <=> main = "join"
      BY <1>8 DEF D!Failure, D!AddFails, D!CreateFails, D!UseDeleted, D!Disturbed, D!OwnerAt,
         D!ownerVars, D!handlerVars
    <2>. QED
      BY <1>2, <1>8, <2>1 DEF proxyVars
  <1>9. CASE LeaveLoop
    BY <1>2, <1>9 DEF LeaveLoop, D!EnterJoin, D!OwnerAt, D!OwnerTo, D!handlerVars, proxyVars
  <1>10. CASE \/ WaitForData \/ CallWaitForExit \/ OwnerThrows
              \/ \E count \in D!Workers : AddNewWorkers(count)
    BY <1>2, <1>10 DEF D!OwnerThrows, D!ownerVars, OwnerThrows, WaitForData, CallWaitForExit,
       AddNewWorkers, D!ProcessData, D!EnterWait, D!AddWorkers, D!OwnerAt, D!handlerVars, proxyVars
  <1>11. CASE UNCHANGED vars \/ \E s \in Sockets : Arrive(s)
    BY <1>3, <1>11 DEF Arrive, vars, dispatcherVars, proxyVars
  <1>. QED
    BY <1>4, <1>5, <1>6, <1>7, <1>8, <1>9, <1>10, <1>11 DEF Next, OwnerStep

\* JoinThreads deletes only workers whose thread has ended, and nobody but a second
\* stop call uses a deleted one, for any number of workers with one thread.
THEOREM DeletedStayUnused == Safety => []DeletedIsUnused
  <1>1. Init => JoinInv
    BY DEF Init, D!Init, JoinInv
  <1>2. TypeOK /\ JoinInv => DeletedIsUnused
    BY SMTT(30), Assumptions DEF TypeOK, D!TypeOK, JoinInv, DeletedIsUnused
  <1>. QED
    BY <1>1, <1>2, TypeCorrect, NextJoinInv, PTL DEF Safety

-----------------------------------------------------------------------------
(* An event loop that reports nothing leaves every worker asleep.            *)

\* Nothing is dispatched, and the owner is where it dispatches nothing.
Idle ==
    /\ main \in {"construct", "cli", "add", "wait", "join"}
    /\ evList = <<>> /\ pendingItems.items = <<>>
    /\ \A w \in DP!Workers : DP!Asleep(w)

LEMMA InitIdle == Init => Idle
  BY SameState DEF Init, DP!Init, DP!W!Init, DP!Q!QueueInit, Idle, DP!Asleep, DP!Working,
     DP!W!Threads, DP!Workers

\* The steps of a thread find nothing to do.
LEMMA ThreadsStayIdle ==
    ASSUME DP!DispatchInv, Idle, NEW t \in DP!Threads,
           DP!ThreadStep(t) \/ DP!FinishReceive(t) \/ DP!Disturbed(t)
    PROVE  Idle'
  <1>1. \A w \in DP!Workers : DP!Asleep(w)'
    BY DP!ThreadAsleep, Assumptions DEF Idle, DP!DispatchInv
  <1>2. pc[t] \notin DP!Working
    <2>1. t[1] \in DP!Workers /\ t \in {<<t[1], 1>>, <<t[1], 2>>}
      BY DEF DP!Threads, DP!W!Threads
    <2>. QED
      BY <2>1 DEF Idle, DP!Asleep
  <1>3. UNCHANGED <<main, evList, pendingItems>>
    BY <1>2 DEF DP!ThreadStep, DP!FinishReceive, DP!Disturbed, DP!CheckPending, DP!PopPending,
       DP!ReturnFreeWorker, DP!OwnStep, DP!ownerVars, DP!W!FetchItem, DP!W!Trans, DP!Working
  <1>. QED
    BY <1>1, <1>3 DEF Idle, DP!Workers

\* Nor do the owner's: it creates workers and joins them.
LEMMA OwnerStaysIdle ==
    ASSUME DP!DispatchInv, Idle, DP!OwnerStep
    PROVE  Idle'
  <1>1. DP!Construct \/ DP!AddOne \/ DP!JoinWorker \/ DP!Exit
    BY DEF Idle, DP!OwnerStep, DP!OwnerLocks, DP!TakeFreeWorker, DP!NoFreeWorker,
       DP!CreateWorker, DP!Assign, DP!ResumeWorker, DP!ResumeNewWorker, DP!RecordNewBusyWorker,
       DP!SecondCreate, DP!PushPending, DP!OwnerAt
  <1>2. CASE DP!Construct \/ DP!AddOne
    <2>1. /\ main \in DP!Early /\ main' \in {"construct", "cli", "add"}
          /\ UNCHANGED <<evList, pendingItems>>
      BY <1>2 DEF DP!Construct, DP!AddOne, DP!AddWorker, DP!OwnerAt, DP!Early
    <2>2. \A w \in DP!Workers : DP!Asleep(w)'
      BY <2>1, DP!OwnerAsleep, Assumptions DEF Idle, DP!DispatchInv
    <2>. QED
      BY <2>1, <2>2 DEF Idle, DP!Workers
  <1>3. CASE DP!JoinWorker \/ DP!Exit
    BY <1>3 DEF DP!JoinWorker, DP!Exit, DP!workerVars, DP!ownerVars, DP!W!EndProcess, Idle,
       DP!Asleep, DP!Workers
  <1>. QED
    BY <1>1, <1>2, <1>3

\* As long as WaitForData() hands out nothing, nothing comes to be dispatched.
LEMMA NextIdle == DP!DispatchInv /\ Idle /\ [Next]_vars /\ ~WaitForData => Idle'
  <1>. SUFFICES ASSUME DP!DispatchInv, Idle, [Next]_vars, ~WaitForData
                PROVE  Idle'
    OBVIOUS
  <1>1. CASE D!OwnerStep
    BY <1>1, SameOwnerStep, OwnerStaysIdle
  <1>2. CASE \E t \in D!Threads : ThreadStep(t)
    BY <1>2, SameThreads, ThreadsStayIdle
  <1>3. CASE HandlerStep
    <2>1. \A w \in DP!Workers : DP!Asleep(w)'
      BY <1>3, SameHandlerStep, DP!HandlerAsleep, Assumptions
      DEF HandlerStep, Idle, DP!DispatchInv
    <2>2. UNCHANGED <<main, evList, pendingItems>>
      BY <1>3 DEF HandlerStep, D!HandlerStep, D!HandlerLocks, D!HandlerStores, D!HandlerSignals,
         D!ownerVars
    <2>. QED
      BY <2>1, <2>2 DEF Idle, DP!Workers
  <1>4. CASE D!Failure
    <2>1. CASE DP!AddFails \/ DP!CreateFails \/ DP!UseDeleted
      BY <2>1 DEF DP!AddFails, DP!CreateFails, DP!UseDeleted, DP!W!EndProcess, DP!workerVars,
         DP!ownerVars, Idle, DP!Asleep, DP!Workers
    <2>. QED
      BY <1>4, <2>1, SameFailure, ThreadsStayIdle DEF DP!Failure
  <1>5. CASE \/ LeaveLoop \/ CallWaitForExit \/ OwnerThrows \/ Stop \/ StopOnTop
             \/ UNCHANGED vars
             \/ (\E s \in Sockets : Arrive(s))
             \/ \E count \in D!Workers : AddNewWorkers(count)
    <2>1. /\ main' \in {"construct", "cli", "add", "wait", "join"}
          /\ UNCHANGED <<state, pc, evList, pendingItems>>
      BY <1>5 DEF OwnerThrows, LeaveLoop, CallWaitForExit, Stop, StopOnTop, Arrive,
         AddNewWorkers, vars, dispatcherVars, D!OwnerThrows, D!EnterJoin, D!EnterWait, D!OwnerTo,
         D!WakeUpAllThreads, D!InterruptLogging, D!InterruptStop, D!StopCall, D!AddWorkers,
         D!W!EndProcess, D!workerVars, D!ownerVars, Idle
    <2>. QED
      BY <2>1 DEF Idle, DP!Asleep, DP!Workers
  <1>. QED
    BY <1>1, <1>2, <1>3, <1>4, <1>5 DEF Next, OwnerStep

=============================================================================
