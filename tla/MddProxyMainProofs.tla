------------------------- MODULE MddProxyMainProofs -------------------------
(***************************************************************************)
(* What holds of main() and the command interface for every number of      *)
(* clients, signals, workers and receivers: the commands decide when       *)
(* Listen() returns, and nothing else does; the proxy is used as           *)
(* MddProxy.tla allows, so that what MddProxyProofs shows of it holds in   *)
(* the program; and the event loop, entered stopped, dispatches nothing.   *)
(***************************************************************************)
EXTENDS MddProxyMain, TLAPS

Stopped == ~continueProcessing /\ stops > 0 /\ command # 0

\* Where the owner is, in main() and in the dispatcher, and what it has been told.
CommandInv ==
    /\ stops \in Nat
    /\ cli = "process" => command # 0
    /\ cli \in {"respond", "left"} => Stopped
    /\ main \notin {"construct", "cli"} => Stopped

\* No step of the dispatcher's takes the owner out of Listen().
LEMMA OwnerStays ==
    ASSUME P!D!OwnerStep \/ P!D!Failure
    PROVE  /\ main \in {"construct", "cli"} => main' \in {"construct", "cli"}
           /\ UNCHANGED stops
  <1>1. CASE P!D!OwnerStep
    BY <1>1 DEF P!D!OwnerStep, P!D!Construct, P!D!AddOne, P!D!AddWorker, P!D!OwnerLocks,
       P!D!TakeFreeWorker, P!D!NoFreeWorker, P!D!CreateWorker, P!D!Assign, P!D!ResumeWorker,
       P!D!ResumeNewWorker, P!D!RecordNewBusyWorker, P!D!SecondCreate, P!D!PushPending,
       P!D!JoinWorker, P!D!Exit, P!D!OwnerAt, P!D!handlerVars, P!D!ownerVars
  <1>2. CASE P!D!Failure
    BY <1>2 DEF P!D!Failure, P!D!AddFails, P!D!CreateFails, P!D!UseDeleted, P!D!Disturbed,
       P!D!OwnerAt, P!D!handlerVars, P!D!ownerVars
  <1>. QED
    BY <1>1, <1>2

LEMMA OthersStay ==
    ASSUME HandlerStep \/ \E t \in P!D!Threads : ThreadStep(t)
    PROVE  UNCHANGED <<main, stops, continueProcessing, cli, command>>
  <1>1. CASE HandlerStep
    BY <1>1 DEF HandlerStep, cliVars, P!HandlerStep, P!proxyVars, P!D!HandlerStep,
       P!D!HandlerLocks, P!D!HandlerStores, P!D!HandlerSignals, P!D!ownerVars
  <1>2. CASE \E t \in P!D!Threads : ThreadStep(t)
    BY <1>2 DEF ThreadStep, cliVars, P!ThreadStep, P!FinishReceive, P!proxyVars,
       P!D!FinishReceive, P!D!ThreadStep, P!D!CheckPending, P!D!PopPending,
       P!D!ReturnFreeWorker, P!D!OwnStep, P!D!ownerVars, P!D!handlerVars
  <1>. QED
    BY <1>1, <1>2

LEMMA NextCommandInv == CommandInv /\ [Next]_vars => CommandInv'
  <1>. SUFFICES ASSUME CommandInv, [Next]_vars
                PROVE  CommandInv'
    OBVIOUS
  <1>. USE DEF CommandInv, Stopped
  <1>1. CASE UNCHANGED <<main, stops, continueProcessing, cli, command>>
    BY <1>1
  <1>2. CASE CreateInterface \/ Accept \/ Receive \/ ReceiveNothing \/ ReceiveFails
    BY <1>2 DEF CreateInterface, Accept, Receive, ReceiveNothing, ReceiveFails, CliAt,
       proxyVars, dispatcherVars, loopVars
  <1>3. CASE ProcessCommand
    BY <1>3 DEF ProcessCommand, CliAt, P!Stop, P!D!WakeUpAllThreads, P!D!StopCall, P!D!ownerVars
  <1>4. CASE Respond
    BY <1>4 DEF Respond, CliAt, P!CallWaitForExit, P!D!EnterWait, P!D!handlerVars, P!proxyVars
  <1>5. CASE CheckForSignals
    BY <1>5 DEF CheckForSignals, cliVars, P!Stop, P!StopOnTop, P!D!WakeUpAllThreads,
       P!D!InterruptLogging, P!D!InterruptStop, P!D!StopCall, P!D!ownerVars
  <1>6. CASE (P!WaitForData \/ P!LeaveLoop) /\ UNCHANGED cliVars
    BY <1>6 DEF cliVars, P!WaitForData, P!LeaveLoop, P!D!ProcessData, P!D!EnterJoin,
       P!D!OwnerAt, P!D!handlerVars, P!proxyVars
  <1>7. CASE (P!D!OwnerStep \/ P!D!Failure) /\ UNCHANGED <<loopVars, cliVars>>
    BY <1>7, OwnerStays DEF loopVars, cliVars
  <1>8. CASE HandlerStep \/ \E t \in P!D!Threads : ThreadStep(t)
    BY <1>1, <1>8, OthersStay
  <1>9. CASE InterfaceFails \/ RespondBreaks
    BY <1>1, <1>9 DEF InterfaceFails, RespondBreaks, Abort, cliVars, P!OwnerThrows,
       P!proxyVars, P!D!OwnerThrows, P!D!ownerVars, P!D!handlerVars
  <1>10. CASE Client
    BY <1>10 DEF Client, Connect, SendCommand, Disconnect, proxyVars, dispatcherVars, loopVars
  <1>11. CASE UNCHANGED vars \/ \E s \in Sockets : P!Arrive(s) /\ UNCHANGED cliVars
    BY <1>1, <1>11 DEF P!Arrive, P!dispatcherVars, vars, proxyVars, dispatcherVars, loopVars,
       cliVars
  <1>. QED
    BY <1>2, <1>3, <1>4, <1>5, <1>6, <1>7, <1>8, <1>9, <1>10, <1>11
    DEF Next, OwnerStep, CliStep, Failure

\* main() calls WaitForExit() only after a command has stopped the proxy, however
\* many clients come and go and signals arrive.
THEOREM ListenEnds == Safety => []ListenEndsByCommand
  <1>1. Init => CommandInv
    BY DEF Init, P!Init, P!D!Init, CommandInv, Stopped
  <1>2. CommandInv => ListenEndsByCommand
    BY DEF CommandInv, Stopped, ListenEndsByCommand
  <1>. QED
    BY <1>1, <1>2, NextCommandInv, PTL DEF Safety

-----------------------------------------------------------------------------
(* Every step of the program is, to the proxy, one of MddProxy.tla's or none *)
(* at all.                                                                   *)

\* Seen from the proxy.
LEMMA ProxyStep == [Next]_vars => [P!Next]_(P!vars)
  <1>. SUFFICES ASSUME [Next]_vars
                PROVE  P!Next \/ UNCHANGED P!vars
    OBVIOUS
  <1>1. CASE UNCHANGED proxyVars
    BY <1>1 DEF proxyVars, dispatcherVars, loopVars, P!vars, P!dispatcherVars, P!proxyVars
  <1>2. CASE \/ CreateInterface \/ Accept \/ Receive \/ ReceiveNothing \/ ReceiveFails \/ Client
             \/ UNCHANGED vars
    BY <1>1, <1>2 DEF CreateInterface, Accept, Receive, ReceiveNothing, ReceiveFails, Client,
       Connect, SendCommand, Disconnect, vars
  <1>3. CASE ProcessCommand \/ CheckForSignals
    BY <1>3 DEF ProcessCommand, CheckForSignals, P!Next
  <1>4. CASE Respond \/ P!WaitForData \/ P!LeaveLoop
    BY <1>4 DEF Respond, P!Next, P!OwnerStep
  <1>5. CASE (P!D!OwnerStep \/ P!D!Failure) /\ UNCHANGED loopVars
    BY <1>5 DEF loopVars, P!proxyVars, P!Next, P!OwnerStep
  <1>6. CASE InterfaceFails \/ RespondBreaks
    BY <1>6 DEF InterfaceFails, RespondBreaks, Abort, P!Next
  <1>7. CASE \/ HandlerStep \/ (\E s \in Sockets : P!Arrive(s))
             \/ \E t \in P!D!Threads : ThreadStep(t)
    BY <1>7 DEF HandlerStep, ThreadStep, P!Next
  <1>. QED
    BY <1>2, <1>3, <1>4, <1>5, <1>6, <1>7 DEF Next, OwnerStep, CliStep, Failure

\* main() and the command interface use the proxy as MddProxy.tla allows, for any
\* number of clients, signals, workers and receivers.
THEOREM ImplementsProxy == Safety => ProxySpec
  <1>1. Init => P!Init
    BY DEF Init
  <1>. QED
    BY <1>1, ProxyStep, PTL DEF Safety, ProxySpec, P!Safety

-----------------------------------------------------------------------------
(* P, the instance the program uses, and PP, the one that comes with the     *)
(* proofs, are the same module over the same variables.                      *)

PP == INSTANCE MddProxyProofs

\* The states of the two dispatchers are the same.
LEMMA SameState ==
    /\ P!D!TypeOK <=> PP!D!TypeOK
    /\ P!D!Init <=> PP!D!Init
    /\ P!D!Workers = PP!D!Workers /\ P!D!Threads = PP!D!Threads
    /\ \A w : P!D!Single(w) <=> PP!D!Single(w)
    /\ \A s : P!D!InDispatch(s) <=> PP!D!InDispatch(s)
  <1>1. P!D!TypeOK <=> PP!D!TypeOK
    BY DEF P!D!TypeOK, PP!D!TypeOK, P!D!W!TypeOK, PP!D!W!TypeOK, P!D!W!Threads, PP!D!W!Threads,
       P!D!W!States, PP!D!W!States, P!D!W!Labels, PP!D!W!Labels, P!D!Workers, PP!D!Workers,
       P!D!OwnerLabels, PP!D!OwnerLabels, P!D!Q!QueueType, PP!D!Q!QueueType
  <1>2. P!D!Init <=> PP!D!Init
    BY DEF P!D!Init, PP!D!Init, P!D!W!Init, PP!D!W!Init, P!D!Q!QueueInit, PP!D!Q!QueueInit,
       P!D!W!Threads, PP!D!W!Threads, P!D!Workers, PP!D!Workers
  <1>3. P!D!Workers = PP!D!Workers /\ P!D!Threads = PP!D!Threads
    BY DEF P!D!Workers, PP!D!Workers, P!D!Threads, PP!D!Threads, P!D!W!Threads, PP!D!W!Threads
  <1>4. /\ \A w : P!D!Single(w) <=> PP!D!Single(w)
        /\ \A s : P!D!InDispatch(s) <=> PP!D!InDispatch(s)
    BY DEF P!D!InDispatch, PP!D!InDispatch, P!D!InPending, PP!D!InPending, P!D!WillDrain,
       PP!D!WillDrain, P!D!Single, PP!D!Single, P!D!W!ThreadsOf, PP!D!W!ThreadsOf, P!D!W!Started,
       PP!D!W!Started, P!D!Workers, PP!D!Workers
  <1>. QED
    BY <1>1, <1>2, <1>3, <1>4

\* So are the owner's steps in them,
LEMMA SameOwnerStep == P!D!OwnerStep => PP!D!OwnerStep
  BY DEF P!D!OwnerStep, PP!D!OwnerStep, P!D!Construct, PP!D!Construct, P!D!AddOne, PP!D!AddOne,
     P!D!AddWorker, PP!D!AddWorker, P!D!CreateNewWorker, PP!D!CreateNewWorker, P!D!OwnerLocks,
     PP!D!OwnerLocks, P!D!TakeFreeWorker, PP!D!TakeFreeWorker, P!D!NoFreeWorker, PP!D!NoFreeWorker,
     P!D!CreateWorker, PP!D!CreateWorker, P!D!Assign, PP!D!Assign, P!D!ResumeWorker,
     PP!D!ResumeWorker, P!D!ResumeNewWorker, PP!D!ResumeNewWorker, P!D!RecordNewBusyWorker,
     PP!D!RecordNewBusyWorker, P!D!SecondCreate, PP!D!SecondCreate, P!D!PushPending,
     PP!D!PushPending, P!D!JoinWorker, PP!D!JoinWorker, P!D!Exit, PP!D!Exit, P!D!NextEvent,
     PP!D!NextEvent, P!D!LastThread, PP!D!LastThread, P!D!OwnerAt, PP!D!OwnerAt, P!D!OwnerTo,
     PP!D!OwnerTo, P!D!Q!Push, PP!D!Q!Push, P!D!workerVars, PP!D!workerVars, P!D!poolVars,
     PP!D!poolVars, P!D!ownerVars, PP!D!ownerVars, P!D!handlerVars, PP!D!handlerVars, P!D!W!Create,
     PP!D!W!Create, P!D!W!Trans, PP!D!W!Trans, P!D!W!Started, PP!D!W!Started, P!D!W!AssignSocket,
     PP!D!W!AssignSocket, P!D!W!Resume, PP!D!W!Resume, P!D!W!Signal, PP!D!W!Signal,
     P!D!W!ThreadsOf, PP!D!W!ThreadsOf, P!D!W!EndProcess, PP!D!W!EndProcess

\* those of a stop call,
LEMMA SameHandlerStep == P!D!HandlerStep => PP!D!HandlerStep
  BY DEF P!D!HandlerStep, PP!D!HandlerStep, P!D!HandlerLocks, PP!D!HandlerLocks, P!D!HandlerStores,
     PP!D!HandlerStores, P!D!HandlerSignals, PP!D!HandlerSignals, P!D!LeaveStop,
     PP!D!LeaveStop, P!D!poolVars, PP!D!poolVars,
     P!D!ownerVars, PP!D!ownerVars, P!D!workerVars, PP!D!workerVars, P!D!W!StoreTerminate,
     PP!D!W!StoreTerminate, P!D!W!SignalTerminate, PP!D!W!SignalTerminate, P!D!W!Signal,
     PP!D!W!Signal, P!D!W!ThreadsOf, PP!D!W!ThreadsOf

\* those of the worker threads,
LEMMA SameThreadStep ==
    ASSUME NEW t
    PROVE  /\ P!D!ThreadStep(t) => PP!D!ThreadStep(t)
           /\ P!D!FinishReceive(t) => PP!D!FinishReceive(t)
           /\ P!D!Disturbed(t) => PP!D!Disturbed(t)
  BY DEF P!D!ThreadStep, PP!D!ThreadStep, P!D!CheckPending, PP!D!CheckPending, P!D!PopPending,
     PP!D!PopPending, P!D!ReturnFreeWorker, PP!D!ReturnFreeWorker, P!D!OwnStep, PP!D!OwnStep,
     P!D!FinishReceive, PP!D!FinishReceive, P!D!Disturbed, PP!D!Disturbed, P!D!Q!CountIsPositive,
     PP!D!Q!CountIsPositive, P!D!Q!Pop, PP!D!Q!Pop, P!D!Q!PopItem, PP!D!Q!PopItem, P!D!Q!PopEmpty,
     PP!D!Q!PopEmpty, P!D!W!CheckPending, PP!D!W!CheckPending, P!D!W!FetchItem, PP!D!W!FetchItem,
     P!D!W!Return, PP!D!W!Return, P!D!W!ReadState, PP!D!W!ReadState, P!D!W!CallReceive,
     PP!D!W!CallReceive, P!D!W!CallGarbage, PP!D!W!CallGarbage, P!D!W!ReturnFromReceive,
     PP!D!W!ReturnFromReceive, P!D!W!KeepResumed, PP!D!W!KeepResumed, P!D!W!StoreItem,
     PP!D!W!StoreItem, P!D!W!GoIdle, PP!D!W!GoIdle, P!D!W!LeavePause, PP!D!W!LeavePause,
     P!D!W!DecideToWait, PP!D!W!DecideToWait, P!D!W!CondWait, PP!D!W!CondWait, P!D!W!ReceiveThrows,
     PP!D!W!ReceiveThrows, P!D!W!SpuriousWakeup, PP!D!W!SpuriousWakeup, P!D!W!Trans, PP!D!W!Trans,
     P!D!poolVars, PP!D!poolVars, P!D!ownerVars, PP!D!ownerVars, P!D!handlerVars, PP!D!handlerVars

\* what may fail,
LEMMA SameFailure == P!D!Failure => PP!D!Failure
  <1>1. ASSUME NEW t \in P!D!Threads, P!D!Disturbed(t)
        PROVE  \E u \in PP!D!Threads : PP!D!Disturbed(u)
    BY <1>1, SameThreadStep, SameState
  <1>2. P!D!AddFails \/ P!D!CreateFails \/ P!D!UseDeleted
          => PP!D!AddFails \/ PP!D!CreateFails \/ PP!D!UseDeleted
    BY SameState DEF P!D!AddFails, PP!D!AddFails, P!D!CreateFails, PP!D!CreateFails,
       P!D!UseDeleted, PP!D!UseDeleted, P!D!OwnerAt, PP!D!OwnerAt, P!D!W!EndProcess,
       PP!D!W!EndProcess, P!D!workerVars, PP!D!workerVars, P!D!poolVars, PP!D!poolVars,
       P!D!ownerVars, PP!D!ownerVars, P!D!handlerVars, PP!D!handlerVars
  <1>. QED
    BY <1>1, <1>2 DEF P!D!Failure, PP!D!Failure

\* and the calls of the proxy.
LEMMA SameEnvironment ==
    /\ \A count : P!D!AddWorkers(count) => PP!D!AddWorkers(count)
    /\ P!D!OwnerThrows => PP!D!OwnerThrows
    /\ P!D!EnterWait => PP!D!EnterWait
    /\ P!D!EnterJoin => PP!D!EnterJoin
    /\ P!D!WakeUpAllThreads => PP!D!WakeUpAllThreads
    /\ P!D!InterruptLogging => PP!D!InterruptLogging
    /\ P!D!InterruptStop => PP!D!InterruptStop
    /\ \A evs \in P!D!EventLists :
          evs \in PP!D!EventLists /\ (P!D!ProcessData(evs) => PP!D!ProcessData(evs))
  <1>1. ASSUME NEW count, P!D!AddWorkers(count)
        PROVE  PP!D!AddWorkers(count)
    BY <1>1 DEF P!D!AddWorkers, PP!D!AddWorkers, P!D!OwnerAt, PP!D!OwnerAt, P!D!workerVars,
       PP!D!workerVars, P!D!poolVars, PP!D!poolVars, P!D!ownerVars, PP!D!ownerVars,
       P!D!handlerVars, PP!D!handlerVars
  <1>2. /\ P!D!OwnerThrows => PP!D!OwnerThrows
        /\ P!D!EnterWait => PP!D!EnterWait
        /\ P!D!EnterJoin => PP!D!EnterJoin
    BY DEF P!D!OwnerThrows, PP!D!OwnerThrows, P!D!W!EndProcess, PP!D!W!EndProcess, P!D!EnterWait,
       PP!D!EnterWait, P!D!EnterJoin, PP!D!EnterJoin, P!D!OwnerAt, PP!D!OwnerAt, P!D!OwnerTo,
       PP!D!OwnerTo, P!D!workerVars, PP!D!workerVars, P!D!poolVars, PP!D!poolVars, P!D!ownerVars,
       PP!D!ownerVars, P!D!handlerVars, PP!D!handlerVars
  <1>5. /\ P!D!WakeUpAllThreads => PP!D!WakeUpAllThreads
        /\ P!D!InterruptLogging => PP!D!InterruptLogging
        /\ P!D!InterruptStop => PP!D!InterruptStop
    BY DEF P!D!WakeUpAllThreads, PP!D!WakeUpAllThreads, P!D!InterruptLogging,
       PP!D!InterruptLogging, P!D!InterruptStop, PP!D!InterruptStop, P!D!StopCall, PP!D!StopCall,
       P!D!OwnerMayLog, PP!D!OwnerMayLog, P!D!LastThread, PP!D!LastThread, P!D!W!Started,
       PP!D!W!Started, P!D!workerVars, PP!D!workerVars, P!D!poolVars, PP!D!poolVars,
       P!D!ownerVars, PP!D!ownerVars
  <1>3. ASSUME NEW evs, P!D!ProcessData(evs)
        PROVE  PP!D!ProcessData(evs)
    BY <1>3 DEF P!D!ProcessData, PP!D!ProcessData, P!D!OwnerAt, PP!D!OwnerAt, P!D!workerVars,
       PP!D!workerVars, P!D!poolVars, PP!D!poolVars, P!D!ownerVars, PP!D!ownerVars,
       P!D!handlerVars, PP!D!handlerVars
  <1>4. ASSUME NEW evs, evs \in P!D!EventLists
        PROVE  evs \in PP!D!EventLists
    <2>1. P!D!Cardinality(Sockets) = PP!D!Cardinality(Sockets)
      BY Zenon DEF P!D!Cardinality, PP!D!Cardinality
    <2>. QED
      BY <1>4, <2>1 DEF P!D!EventLists, PP!D!EventLists
  <1>. QED
    BY <1>1, <1>2, <1>3, <1>4, <1>5

\* The states of the two proxies are the same.
LEMMA SameProxy ==
    /\ P!Init <=> PP!Init
    /\ P!TypeOK <=> PP!TypeOK
    /\ P!UnreadIsTracked <=> PP!UnreadIsTracked
    /\ P!DeletedIsUnused <=> PP!DeletedIsUnused
  BY SameState DEF P!Init, PP!Init, P!TypeOK, PP!TypeOK, P!UnreadIsTracked, PP!UnreadIsTracked,
     P!Tracked, PP!Tracked, P!DeletedIsUnused, PP!DeletedIsUnused

\* So are their steps.
LEMMA SameProxyStep == [P!Next]_(P!vars) => [PP!Next]_(PP!vars)
  <1>. SUFFICES ASSUME [P!Next]_(P!vars)
                PROVE  PP!Next \/ UNCHANGED PP!vars
    OBVIOUS
  <1>1. CASE UNCHANGED P!vars
    BY <1>1 DEF P!vars, PP!vars, P!dispatcherVars, PP!dispatcherVars, P!proxyVars, PP!proxyVars
  <1>2. CASE P!OwnerStep
    BY <1>2, SameOwnerStep, SameEnvironment
    DEF P!OwnerStep, PP!OwnerStep, P!WaitForData, PP!WaitForData, P!LeaveLoop, PP!LeaveLoop,
        P!CallWaitForExit, PP!CallWaitForExit, P!proxyVars, PP!proxyVars, PP!Next
  <1>3. CASE \/ P!HandlerStep \/ P!Stop \/ P!StopOnTop \/ P!OwnerThrows
             \/ P!D!Failure /\ UNCHANGED P!proxyVars
    BY <1>3, SameHandlerStep, SameFailure, SameEnvironment
    DEF P!HandlerStep, PP!HandlerStep, P!Stop, PP!Stop, P!StopOnTop, PP!StopOnTop,
        P!OwnerThrows, PP!OwnerThrows, P!proxyVars, PP!proxyVars, PP!Next
  <1>4. CASE \E s \in Sockets : P!Arrive(s)
    BY <1>4 DEF P!Arrive, PP!Arrive, P!dispatcherVars, PP!dispatcherVars, PP!Next
  <1>5. ASSUME NEW t \in P!D!Threads, P!ThreadStep(t)
        PROVE  PP!Next
    BY <1>5, SameState, SameThreadStep
    DEF P!ThreadStep, PP!ThreadStep, P!FinishReceive, PP!FinishReceive, P!proxyVars, PP!proxyVars,
        PP!Next
  <1>6. ASSUME NEW count \in P!D!Workers, P!AddNewWorkers(count)
        PROVE  PP!Next
    BY <1>6, SameState, SameEnvironment
    DEF P!AddNewWorkers, PP!AddNewWorkers, P!proxyVars, PP!proxyVars, PP!Next
  <1>. QED
    BY <1>1, <1>2, <1>3, <1>4, <1>5, <1>6 DEF P!Next

\* What MddProxyProofs assumes of its constants.
LEMMA Assumptions ==
    /\ Garbage \notin Sockets /\ PP!IsFiniteSet(Sockets)
    /\ /\ {InitialWorkers, MaxWorkerThreads, MaxWorkers} \subseteq Nat \ {0}
       /\ InitialWorkers <= MaxWorkers
       /\ MaxWorkerThreads <= MaxWorkers
    /\ {MaxPending, MaxFree, MaxOverPops, MaxStops} \subseteq Nat
    /\ MaxArrivals \in Nat
  <1>1. PP!IsFiniteSet(Sockets)
    BY SocketsAssumption, Zenon DEF IsFiniteSet, PP!IsFiniteSet
  <1>. QED
    BY <1>1, SocketsAssumption, WorkerCountAssumption, BoundAssumption

\* The program is a behaviour of the proxy that comes with the proofs.
LEMMA ProxyBehaves == Safety => PP!Safety
  <1>1. Init => PP!Init
    BY SameProxy DEF Init
  <1>2. [Next]_vars => [PP!Next]_(PP!vars)
    BY ProxyStep, SameProxyStep
  <1>. QED
    BY <1>1, <1>2, PTL DEF Safety, PP!Safety

-----------------------------------------------------------------------------
(* What holds of the proxy holds in the program.                             *)

CliTyped ==
    /\ cli \in {"create", "accept", "recv", "process", "respond", "left"}
    /\ clientOpen \in BOOLEAN
    /\ client \in {"none", "connected", "closed", "reset"}
    /\ inbox \in Commands \cup {0}
    /\ command \in Commands \cup {0}
    /\ clients \in 0 .. MaxClients

\* The command interface and its clients stay well formed.
LEMMA NextCliTyped == CliTyped /\ [Next]_vars => CliTyped'
  <1>. SUFFICES ASSUME CliTyped, [Next]_vars
                PROVE  CliTyped'
    OBVIOUS
  <1>. USE MainAssumption DEF CliTyped
  <1>1. CASE UNCHANGED cliVars
    BY <1>1 DEF cliVars
  <1>2. CASE CliStep
    BY <1>2 DEF CliStep, CreateInterface, Accept, Receive, ReceiveNothing, ReceiveFails,
       ProcessCommand, Respond
  <1>3. CASE Client
    BY <1>3 DEF Client, Connect, SendCommand, Disconnect
  <1>. QED
    BY <1>1, <1>2, <1>3
    DEF Next, OwnerStep, HandlerStep, ThreadStep, CheckForSignals, Failure, InterfaceFails,
        RespondBreaks, Abort, vars

\* The program's state is well formed, the proxy's part of it included, for any number
\* of clients, signals, workers and receivers.
THEOREM TypeCorrect == Safety => []TypeOK
  <1>1. Init => CliTyped
    <2>1. Init => clients \in 0 .. MaxClients
      BY MainAssumption DEF Init
    <2>. QED
      BY <2>1, Zenon DEF Init, CliTyped
  <1>2. PP!TypeOK /\ CliTyped => TypeOK
    <2>1. P!TypeOK /\ CliTyped => TypeOK
      BY DEF CliTyped, TypeOK
    <2>. QED
      BY <2>1, SameProxy
  <1>3. PP!Safety => []PP!TypeOK
    BY PP!TypeCorrect, Assumptions
  <1>. QED
    BY <1>1, <1>2, <1>3, ProxyBehaves, NextCliTyped, PTL DEF Safety

\* No worker is deleted before its thread has ended, in the program, and nobody but a
\* second stop call uses a deleted one.
THEOREM DeletedStayUnused == Safety => []P!DeletedIsUnused
  <1>1. PP!Safety => []PP!DeletedIsUnused
    BY PP!DeletedStayUnused, Assumptions
  <1>. QED
    BY <1>1, ProxyBehaves, SameProxy, PTL

-----------------------------------------------------------------------------
(* NothingIsDispatched.  The event loop is entered with the flag down, so it *)
(* reports nothing, and what MddProxyProofs shows of such a loop applies.    *)

QuietInv == CommandInv /\ PP!DP!DispatchInv /\ PP!Idle

LEMMA NextQuiet == QuietInv /\ [Next]_vars => QuietInv'
  <1>. SUFFICES ASSUME QuietInv, [Next]_vars
                PROVE  QuietInv'
    OBVIOUS
  <1>1. [PP!Next]_(PP!vars)
    BY ProxyStep, SameProxyStep
  <1>2. ~PP!WaitForData
    BY DEF QuietInv, CommandInv, Stopped, PP!WaitForData, PP!D!ProcessData, PP!D!OwnerAt
  <1>3. PP!DP!DispatchInv' /\ PP!Idle'
    BY <1>1, <1>2, PP!NextDispatched, PP!NextIdle, Assumptions DEF QuietInv
  <1>. QED
    BY <1>3, NextCommandInv DEF QuietInv

LEMMA QuietDispatchesNothing == QuietInv => NothingIsDispatched
  <1>. SUFFICES ASSUME QuietInv, NEW t \in P!D!Threads
                PROVE  pc[t] \notin P!D!Working
    BY SameState DEF QuietInv, PP!Idle, PP!DP!Asleep, NothingIsDispatched, P!D!Workers,
       PP!DP!Workers
  <1>1. t[1] \in PP!DP!Workers /\ t \in {<<t[1], 1>>, <<t[1], 2>>}
    BY DEF P!D!Threads, P!D!W!Threads, P!D!Workers, PP!DP!Workers
  <1>. QED
    BY <1>1 DEF QuietInv, PP!Idle, PP!DP!Asleep, P!D!Working, PP!DP!Working

\* The program resumes no worker and dispatches no socket, for any number of clients,
\* signals, workers, receivers and datagrams: main() enters the event loop with
\* continueProcessing already down.
THEOREM NothingDispatched == Safety => []NothingIsDispatched
  <1>1. Init => QuietInv
    <2>1. Init => CommandInv
      BY DEF Init, P!Init, P!D!Init, CommandInv, Stopped
    <2>2. Init => PP!Init
      BY SameProxy DEF Init
    <2>. QED
      BY <2>1, <2>2, PP!InitDispatched, PP!InitIdle, Assumptions DEF QuietInv
  <1>. QED
    BY <1>1, NextQuiet, QuietDispatchesNothing, PTL DEF Safety

=============================================================================
