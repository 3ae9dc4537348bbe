------------------------ MODULE WorkDispatcherProofs ------------------------
(***************************************************************************)
(* What holds of the dispatcher for every number of workers and receivers: *)
(* it uses its workers as Worker.tla allows, and a worker with one thread  *)
(* is never handed two sockets at a time.                                  *)
(***************************************************************************)
EXTENDS WorkDispatcher, FiniteSetTheorems, TLAPS

WP == INSTANCE WorkerProofs

-----------------------------------------------------------------------------
(* Well-formedness.  Beyond TypeOK it takes what the owner's and the stop    *)
(* call's place in the code says of the lists they walk.                     *)

InLoop == OwnerLabels \ {"construct", "cli", "add", "wait", "join"}

StackInv ==
    /\ main \in InLoop => evList # <<>>
    /\ main = "add" => toAdd > 0
    /\ main # "construct" => totalWorkerCount > 0
    /\ handler # "off" => main # "construct"
    /\ handler \in {"store", "signal"} => hNext <= totalWorkerCount
    /\ below <= stops

TypeInv == TypeOK /\ StackInv

\* The variables TypeOK types beside those of the workers.
PoolTyped ==
    /\ freeWorkers \in Seq(Workers)
    /\ busyWorkers \subseteq Workers
    /\ totalWorkerCount \in 0 .. MaxWorkers
    /\ dispatchLock \in {"free", "owner", "handler"}

OwnerTyped ==
    /\ main \in OwnerLabels
    /\ evList \in Seq(Sockets)
    /\ chosen \in Workers
    /\ toAdd \in 0 .. MaxWorkers
    /\ joined \in 0 .. MaxWorkers

HandlerTyped ==
    /\ handler \in {"off", "lock", "lockInLog", "store", "signal", "stuck"}
    /\ below \in 0 .. MaxStops
    /\ hNext \in 1 .. MaxWorkers + 1
    /\ stops \in 0 .. MaxStops

-----------------------------------------------------------------------------
(* Every step of the dispatcher is, to the workers, one of Worker.tla's or   *)
(* none at all.                                                              *)

LEMMA CallIsWorkerStep ==
    ASSUME NEW w \in Workers, W!Calls(w)
    PROVE  W!Next
  BY DEF W!Next

LEMMA OwnerWorkerStep ==
    ASSUME TypeInv, OwnerStep
    PROVE  W!Next \/ UNCHANGED workerVars
  <1>. USE DEF TypeInv, TypeOK, StackInv, OwnerAt
  <1>1. CASE CreateNewWorker
    <2>1. totalWorkerCount + 1 \in Workers
      BY <1>1, WorkerCountAssumption DEF CreateNewWorker, Workers
    <2>2. W!Calls(totalWorkerCount + 1)
      BY <1>1 DEF CreateNewWorker, W!Calls
    <2>. QED
      BY <2>1, <2>2, CallIsWorkerStep
  <1>2. CASE Assign
    <2>1. Head(evList) \in Sockets
      BY <1>2 DEF Assign, InLoop, OwnerLabels
    <2>2. W!Calls(chosen)
      BY <1>2, <2>1 DEF Assign, W!Calls
    <2>. QED
      BY <2>2, CallIsWorkerStep
  <1>3. CASE ResumeWorker \/ ResumeNewWorker
    <2>1. W!Calls(chosen)
      BY <1>3 DEF ResumeWorker, ResumeNewWorker, W!Calls
    <2>. QED
      BY <2>1, CallIsWorkerStep
  <1>4. CASE SecondCreate
    <2>1. W!Calls(chosen)
      BY <1>4 DEF SecondCreate, W!Calls
    <2>. QED
      BY <2>1, CallIsWorkerStep
  <1>5. CASE Exit
    BY <1>5 DEF Exit, W!Next
  <1>6. CASE OwnerLocks \/ TakeFreeWorker \/ NoFreeWorker \/ RecordNewBusyWorker
             \/ PushPending \/ JoinWorker
    BY <1>6 DEF OwnerLocks, TakeFreeWorker, NoFreeWorker, RecordNewBusyWorker, PushPending,
       JoinWorker
  <1>. QED
    BY <1>1, <1>2, <1>3, <1>4, <1>5, <1>6 DEF OwnerStep, Construct, AddOne, AddWorker,
       CreateWorker

LEMMA HandlerWorkerStep ==
    ASSUME TypeInv, HandlerStep
    PROVE  W!Next \/ UNCHANGED workerVars
  <1>1. CASE HandlerLocks
    BY <1>1 DEF HandlerLocks
  <1>2. CASE HandlerStores \/ HandlerSignals
    <2>1. hNext \in Workers
      BY <1>2, WorkerCountAssumption
      DEF HandlerStores, HandlerSignals, TypeInv, TypeOK, StackInv, Workers
    <2>2. W!Calls(hNext)
      BY <1>2 DEF HandlerStores, HandlerSignals, W!Calls
    <2>. QED
      BY <2>1, <2>2, CallIsWorkerStep
  <1>. QED
    BY <1>1, <1>2 DEF HandlerStep

LEMMA ThreadWorkerStep ==
    ASSUME NEW t \in Threads, ThreadStep(t) \/ FinishReceive(t) \/ Disturbed(t)
    PROVE  W!Next
  <1>1. W!ThreadStep(t)
    <2>1. CASE CheckPending(t)
      <3>1. Q!CountIsPositive \in BOOLEAN
        BY DEF Q!CountIsPositive
      <3>. QED
        BY <2>1, <3>1 DEF CheckPending, W!ThreadStep, W!Progress
    <2>2. CASE PopPending(t)
      BY <2>2 DEF PopPending, W!ThreadStep, W!Progress
    <2>3. CASE ReturnFreeWorker(t)
      BY <2>3 DEF ReturnFreeWorker, W!ThreadStep, W!Progress
    <2>4. CASE OwnStep(t)
      BY <2>4 DEF OwnStep, W!ThreadStep, W!Progress
    <2>5. CASE FinishReceive(t)
      BY <2>5 DEF FinishReceive, W!ThreadStep, W!Progress
    <2>6. CASE Disturbed(t)
      BY <2>6 DEF Disturbed, W!ThreadStep
    <2>. QED
      BY <2>1, <2>2, <2>3, <2>4, <2>5, <2>6 DEF ThreadStep
  <1>. QED
    BY <1>1 DEF W!Next, Threads

LEMMA WorkerStep ==
    ASSUME TypeInv, [Next]_vars
    PROVE  [W!Next]_(W!vars)
  <1>. SUFFICES W!Next \/ UNCHANGED workerVars
    BY DEF workerVars, W!vars
  <1>1. CASE Failure
    <2>1. CASE AddFails
      BY <2>1 DEF AddFails
    <2>2. CASE CreateFails
      BY <2>2 DEF CreateFails, W!Next
    <2>3. CASE UseDeleted
      BY <2>3 DEF UseDeleted, W!Next
    <2>. QED
      BY <1>1, <2>1, <2>2, <2>3, ThreadWorkerStep DEF Failure
  <1>2. CASE Environment
    BY <1>2 DEF Environment, AddWorkers, OwnerThrows, EnterWait, EnterJoin, WakeUpAllThreads,
       InterruptLogging, InterruptStop, StopCall, ProcessData, W!Next
  <1>3. CASE UNCHANGED vars
    BY <1>3 DEF vars
  <1>. QED
    BY <1>1, <1>2, <1>3, OwnerWorkerStep, HandlerWorkerStep, ThreadWorkerStep DEF Next

-----------------------------------------------------------------------------
(* Well-formedness is kept.  For the workers this is WorkerProofs' business: *)
(* W, the instance the dispatcher uses, and WP, the one that comes with the  *)
(* proofs, are the same module over the same variables.                      *)

LEMMA SameWorkers ==
    /\ W!TypeOK <=> WP!TypeOK
    /\ [W!Next]_(W!vars) => [WP!Next]_(WP!vars)
    /\ W!Init => WP!Init
    /\ W!NoLostResume <=> WP!NoLostResume
  BY DEF W!Init, WP!Init, W!NoLostResume, WP!NoLostResume, W!TypeOK, WP!TypeOK, W!Next, WP!Next,
     W!vars, WP!vars, W!Threads, WP!Threads, W!ThreadsOf, WP!ThreadsOf, W!States, WP!States,
     W!Labels, WP!Labels, W!Started, WP!Started, W!Live, WP!Live, W!Trans, WP!Trans, W!ReadState,
     WP!ReadState, W!CallReceive, WP!CallReceive, W!CallGarbage, WP!CallGarbage,
     W!ReturnFromReceive, WP!ReturnFromReceive, W!ReceiveThrows, WP!ReceiveThrows, W!CheckPending,
     WP!CheckPending, W!KeepResumed, WP!KeepResumed, W!FetchItem, WP!FetchItem, W!StoreItem,
     WP!StoreItem, W!GoIdle, WP!GoIdle, W!Return, WP!Return, W!LeavePause, WP!LeavePause,
     W!DecideToWait, WP!DecideToWait, W!CondWait, WP!CondWait, W!SpuriousWakeup, WP!SpuriousWakeup,
     W!Create, WP!Create, W!AssignSocket, WP!AssignSocket, W!Signal, WP!Signal, W!Resume,
     WP!Resume, W!StoreTerminate, WP!StoreTerminate, W!SignalTerminate, WP!SignalTerminate,
     W!EndProcess, WP!EndProcess, W!Progress, WP!Progress, W!ThreadStep, WP!ThreadStep, W!Calls,
     WP!Calls

LEMMA WorkersTyped == W!TypeOK /\ [W!Next]_(W!vars) => W!TypeOK'
  <1>1. W!TypeOK' <=> WP!TypeOK'
    BY SameWorkers, PTL
  <1>. QED
    BY <1>1, SameWorkers, WP!NextTyped, SocketsAssumption

-----------------------------------------------------------------------------

LEMMA PushTyped ==
    ASSUME pendingItems \in Q!QueueType, NEW x \in Sockets, Q!Push(x)
    PROVE  pendingItems' \in Q!QueueType
  <1>1. CASE pendingItems.overPops > 0
    <2>1. pendingItems.overPops - 1 \in 0 .. MaxOverPops
      BY <1>1, BoundAssumption DEF Q!QueueType
    <2>2. pendingItems.swallowed \cup {x} \in SUBSET Sockets
      BY DEF Q!QueueType
    <2>. QED
      BY <1>1, <2>1, <2>2 DEF Q!Push, Q!QueueType
  <1>2. CASE ~(pendingItems.overPops > 0)
    <2>1. Append(pendingItems.items, x) \in Seq(Sockets)
      BY DEF Q!QueueType
    <2>. QED
      BY <1>2, <2>1 DEF Q!Push, Q!QueueType
  <1>. QED
    BY <1>1, <1>2

LEMMA PopTyped ==
    ASSUME pendingItems \in Q!QueueType, NEW x, Q!Pop(x)
    PROVE  pendingItems' \in Q!QueueType
  <1>1. CASE Q!PopItem(x)
    <2>1. Tail(pendingItems.items) \in Seq(Sockets)
      BY <1>1 DEF Q!PopItem, Q!QueueType
    <2>. QED
      BY <1>1, <2>1 DEF Q!PopItem, Q!QueueType
  <1>2. CASE Q!PopEmpty(x)
    BY <1>2, BoundAssumption DEF Q!PopEmpty, Q!QueueType
  <1>. QED
    BY <1>1, <1>2 DEF Q!Pop

RestTyped == pendingItems \in Q!QueueType /\ PoolTyped /\ OwnerTyped /\ HandlerTyped

LEMMA OwnerTypes ==
    ASSUME TypeInv, OwnerStep
    PROVE  RestTyped' /\ StackInv'
  <1>. USE WorkerCountAssumption
       DEF TypeInv, TypeOK, StackInv, RestTyped, PoolTyped, OwnerTyped, HandlerTyped, OwnerAt,
           InLoop, OwnerLabels, Workers
  <1>1. CASE Construct
    BY <1>1 DEF Construct, AddWorker, CreateNewWorker, handlerVars
  <1>2. CASE AddOne
    BY SMTT(30), <1>2 DEF AddOne, AddWorker, CreateNewWorker, handlerVars
  <1>3. CASE OwnerLocks
    BY <1>3 DEF OwnerLocks, OwnerTo, poolVars, handlerVars
  <1>4. CASE TakeFreeWorker
    <2>1. Head(freeWorkers) \in Workers /\ Tail(freeWorkers) \in Seq(Workers)
      BY SMTT(30), <1>4 DEF TakeFreeWorker
    <2>. QED
      BY <1>4, <2>1 DEF TakeFreeWorker, OwnerTo, handlerVars
  <1>5. CASE NoFreeWorker
    BY <1>5 DEF NoFreeWorker, OwnerTo, poolVars, handlerVars
  <1>6. CASE CreateWorker
    BY <1>6 DEF CreateWorker, CreateNewWorker, OwnerTo, handlerVars
  <1>7. CASE Assign
    BY <1>7 DEF Assign, OwnerTo, poolVars, handlerVars
  <1>8. CASE ResumeWorker \/ SecondCreate
    <2>1. Tail(evList) \in Seq(Sockets)
      BY <1>8 DEF ResumeWorker, SecondCreate
    <2>. QED
      BY <1>8, <2>1 DEF ResumeWorker, SecondCreate, NextEvent, poolVars, handlerVars
  <1>9. CASE ResumeNewWorker
    BY <1>9 DEF ResumeNewWorker, OwnerTo, poolVars, handlerVars
  <1>10. CASE RecordNewBusyWorker
    BY <1>10 DEF RecordNewBusyWorker, OwnerTo, handlerVars
  <1>11. CASE PushPending
    <2>1. Head(evList) \in Sockets /\ Tail(evList) \in Seq(Sockets)
      BY <1>11 DEF PushPending
    <2>2. pendingItems' \in Q!QueueType
      BY <1>11, <2>1, PushTyped DEF PushPending
    <2>. QED
      BY <1>11, <2>1, <2>2 DEF PushPending, NextEvent, poolVars, handlerVars
  <1>12. CASE JoinWorker
    BY <1>12 DEF JoinWorker, poolVars, handlerVars
  <1>13. CASE Exit
    BY <1>13 DEF Exit, poolVars, ownerVars, handlerVars
  <1>. QED
    BY <1>1, <1>2, <1>3, <1>4, <1>5, <1>6, <1>7, <1>8, <1>9, <1>10, <1>11, <1>12, <1>13
    DEF OwnerStep

LEMMA OtherTypes ==
    ASSUME TypeInv, HandlerStep \/ Failure \/ Environment \/ UNCHANGED vars
                    \/ \E t \in Threads : ThreadStep(t) \/ FinishReceive(t)
    PROVE  RestTyped' /\ StackInv'
  <1>. USE WorkerCountAssumption
       DEF TypeInv, TypeOK, StackInv, RestTyped, PoolTyped, OwnerTyped, HandlerTyped, OwnerAt,
           InLoop, OwnerLabels, Workers
  <1>1. CASE HandlerStep
    <2>1. CASE HandlerLocks
      BY <2>1 DEF HandlerLocks, poolVars, ownerVars
    <2>2. CASE HandlerStores
      BY <2>2 DEF HandlerStores, poolVars, ownerVars
    <2>3. CASE HandlerSignals
      BY SMTT(30), <2>3, BoundAssumption DEF HandlerSignals, LeaveStop, poolVars, ownerVars
    <2>. QED
      BY <1>1, <2>1, <2>2, <2>3 DEF HandlerStep
  <1>2. CASE Failure
    <2>1. CASE AddFails
      BY <2>1 DEF AddFails, poolVars, ownerVars, handlerVars
    <2>2. CASE CreateFails
      BY <2>2 DEF CreateFails, poolVars, ownerVars, handlerVars
    <2>3. CASE UseDeleted
      BY <2>3 DEF UseDeleted, poolVars, ownerVars, handlerVars
    <2>4. CASE \E t \in Threads : Disturbed(t)
      BY <2>4 DEF Disturbed, poolVars, ownerVars, handlerVars
    <2>. QED
      BY <1>2, <2>1, <2>2, <2>3, <2>4 DEF Failure
  <1>3. CASE Environment
    <2>1. CASE \E evs \in EventLists : ProcessData(evs)
      <3>1. PICK evs \in EventLists : ProcessData(evs)
        BY <2>1
      <3>2. Cardinality(Sockets) \in Nat
        BY SocketsAssumption, FS_CardinalityType
      <3>3. PICK n \in 1 .. Cardinality(Sockets) : evs \in [1 .. n -> Sockets]
        BY Zenon DEF EventLists
      <3>4. evs \in Seq(Sockets) /\ evs # <<>>
        BY <3>2, <3>3
      <3>. QED
        BY <3>1, <3>4 DEF ProcessData, poolVars, handlerVars
    <2>2. CASE \E count \in Workers : AddWorkers(count)
      BY <2>2 DEF AddWorkers, poolVars, handlerVars
    <2>3. CASE OwnerThrows \/ EnterWait \/ EnterJoin
      BY <2>3 DEF OwnerThrows, EnterWait, EnterJoin, OwnerTo, poolVars, ownerVars, handlerVars
    <2>4. CASE WakeUpAllThreads \/ InterruptLogging \/ InterruptStop
      <3>1. /\ process = "up" /\ main # "construct" /\ stops < MaxStops /\ stops' = stops + 1
            /\ UNCHANGED <<pendingItems, poolVars, dispatchLock, ownerVars, hNext>>
        BY <2>4 DEF WakeUpAllThreads, InterruptLogging, InterruptStop, StopCall
      <3>2. /\ handler' \in {"lock", "lockInLog", "stuck"}
            /\ below' \in {below, below + 1}
        BY <2>4 DEF WakeUpAllThreads, InterruptLogging, InterruptStop, StopCall
      <3>3. MaxStops \in Nat /\ stops \in Nat /\ below \in Nat
        BY BoundAssumption
      <3>4. stops' \in 0 .. MaxStops /\ below' \in 0 .. MaxStops /\ below' <= stops'
        BY <3>1, <3>2, <3>3
      <3>. QED
        BY <3>1, <3>2, <3>4 DEF poolVars, ownerVars
    <2>. QED
      BY <1>3, <2>1, <2>2, <2>3, <2>4 DEF Environment
  <1>4. CASE UNCHANGED vars
    BY <1>4 DEF vars, poolVars, ownerVars, handlerVars
  <1>5. CASE \E t \in Threads : ThreadStep(t) \/ FinishReceive(t)
    <2>1. PICK t \in Threads : ThreadStep(t) \/ FinishReceive(t)
      BY <1>5
    <2>2. CASE PopPending(t)
      BY <2>2, PopTyped DEF PopPending, poolVars, ownerVars, handlerVars
    <2>3. CASE ReturnFreeWorker(t)
      <3>1. t[1] \in Workers
        BY DEF Threads, W!Threads
      <3>. QED
        BY <2>3, <3>1 DEF ReturnFreeWorker, ownerVars, handlerVars
    <2>4. CASE CheckPending(t) \/ OwnStep(t) \/ FinishReceive(t)
      <3>1. UNCHANGED <<pendingItems, poolVars, ownerVars, handlerVars>>
            /\ dispatchLock' = dispatchLock
        BY ZenonT(30), <2>4 DEF CheckPending, OwnStep, FinishReceive, poolVars, ownerVars
      <3>. QED
        BY <3>1 DEF poolVars, ownerVars, handlerVars
    <2>. QED
      BY <2>1, <2>2, <2>3, <2>4 DEF ThreadStep
  <1>. QED
    BY <1>1, <1>2, <1>3, <1>4, <1>5

LEMMA InitTyped == Init => TypeInv /\ W!Init
  BY WorkerCountAssumption, BoundAssumption
  DEF Init, TypeInv, TypeOK, StackInv, W!Init, W!TypeOK, W!States, W!Labels, Q!QueueInit,
      Q!QueueType, OwnerLabels, InLoop, Workers

LEMMA NextTyped == TypeInv /\ [Next]_vars => TypeInv'
  <1>. SUFFICES ASSUME TypeInv, [Next]_vars
                PROVE  TypeInv'
    OBVIOUS
  <1>1. W!TypeOK'
    BY WorkerStep, WorkersTyped DEF TypeInv, TypeOK
  <1>2. RestTyped' /\ StackInv'
    BY OwnerTypes, OtherTypes DEF Next
  <1>. QED
    BY <1>1, <1>2 DEF TypeInv, TypeOK, RestTyped, PoolTyped, OwnerTyped, HandlerTyped

\* Every list, cursor and worker number of the dispatcher is in range, for any
\* number of workers: no index is read past the end of a list.
THEOREM TypeCorrect == Spec => []TypeOK
  <1>1. TypeInv => TypeOK
    BY DEF TypeInv
  <1>. QED
    BY <1>1, InitTyped, NextTyped, PTL DEF Spec

\* The dispatcher with its workers implements Worker.tla's workers under any
\* calls: each of its steps is one of theirs, or leaves them alone.
THEOREM ImplementsWorker == Spec => WorkerSpec
  <1>. QED
    BY InitTyped, NextTyped, WorkerStep, PTL DEF Spec, WorkerSpec, W!Safety

-----------------------------------------------------------------------------
(* What Worker.tla promises of a resumed worker holds of the dispatcher's.   *)

\* No worker the dispatcher resumes sleeps through it.
THEOREM ResumeNotLost == Spec => []W!NoLostResume
  <1>1. Init => WP!ResumeInv
    BY InitTyped, SameWorkers, WP!InitResume, SocketsAssumption
  <1>2. WP!ResumeInv /\ TypeInv /\ [Next]_vars => WP!ResumeInv'
    BY WorkerStep, SameWorkers, WP!NextResume, SocketsAssumption
  <1>3. WP!ResumeInv => W!NoLostResume
    BY SameWorkers DEF WP!ResumeInv
  <1>. QED
    BY <1>1, <1>2, <1>3, InitTyped, NextTyped, PTL DEF Spec

-----------------------------------------------------------------------------
(* The pool.  FreeOnce and ExclusiveAssignment lean on each other: a worker  *)
(* is returned once because it is working when it is, it is working only     *)
(* after a resume, and it is resumed only while it is out of the pool.       *)

\* Worker w, while it has one thread, is in one place at a time.
Apart(w) ==
    Single(w) =>
        /\ IsFree(w) \/ BeingAssigned(w) => state[w] # "RESUME" /\ pc[<<w, 1>>] \notin Working
        /\ ~(IsFree(w) /\ BeingAssigned(w))
        /\ pc[<<w, 1>>] = "return" => state[w] # "RESUME"
        /\ \A i, j \in DOMAIN freeWorkers : freeWorkers[i] = w /\ freeWorkers[j] = w => i = j

\* A worker not created yet has no thread and is in no list.
Unborn(w) ==
    w > totalWorkerCount =>
        /\ state[w] = "SLEEP_WAIT"
        /\ ~W!Started(<<w, 1>>) /\ ~W!Started(<<w, 2>>)
        /\ ~IsFree(w)
        /\ ~BeingAssigned(w)

PoolInv == \A w \in Workers : Apart(w) /\ Unborn(w)

LEMMA PoolInvGives == TypeOK /\ PoolInv => FreeOnce /\ ExclusiveAssignment
  <1>. SUFFICES ASSUME TypeOK, PoolInv
                PROVE  FreeOnce /\ ExclusiveAssignment
    OBVIOUS
  <1>1. \A i \in DOMAIN freeWorkers : freeWorkers[i] \in Workers
    BY DEF TypeOK
  <1>2. FreeOnce
    BY <1>1 DEF PoolInv, Apart, FreeOnce
  <1>3. ExclusiveAssignment
    BY DEF PoolInv, Apart, ExclusiveAssignment
  <1>. QED
    BY <1>2, <1>3

LEMMA WorkerThreads ==
    ASSUME NEW w \in Workers
    PROVE  <<w, 1>> \in W!Threads /\ <<w, 2>> \in W!Threads
  BY DEF W!Threads

\* What leaves worker w's thread, the deque and the owner's choice alone keeps w
\* apart, if it does not resume it.
LEMMA Unmoved ==
    ASSUME totalWorkerCount \in Nat, NEW w \in Workers, Apart(w), Unborn(w),
           pc'[<<w, 1>>] = pc[<<w, 1>>], W!Started(<<w, 2>>) => W!Started(<<w, 2>>)',
           state'[w] # state[w] => state'[w] # "RESUME" /\ w <= totalWorkerCount,
           W!Started(<<w, 2>>)' => W!Started(<<w, 2>>) \/ w <= totalWorkerCount,
           freeWorkers' = freeWorkers, BeingAssigned(w)' => BeingAssigned(w),
           totalWorkerCount' = totalWorkerCount
    PROVE  Apart(w)' /\ Unborn(w)'
  <1>1. Single(w)' => Single(w)
    BY DEF Single
  <1>2. IsFree(w)' <=> IsFree(w)
    BY DEF IsFree
  <1>3. Apart(w)'
    BY <1>1, <1>2 DEF Apart
  <1>4. W!Started(<<w, 1>>)' <=> W!Started(<<w, 1>>)
    BY DEF W!Started
  <1>5. Unborn(w)'
    BY <1>2, <1>4 DEF Unborn, Workers
  <1>. QED
    BY <1>3, <1>5

\* The elements of the deque of free workers, after a push and after a pop.
LEMMA PushFree ==
    ASSUME freeWorkers \in Seq(Workers), NEW w \in Workers, freeWorkers' = Append(freeWorkers, w),
           NEW v \in Workers
    PROVE  /\ IsFree(v)' <=> IsFree(v) \/ v = w
           /\ v # w \/ ~IsFree(w) =>
                 ((\A i, j \in DOMAIN freeWorkers :
                      freeWorkers[i] = v /\ freeWorkers[j] = v => i = j)
                  => \A i, j \in DOMAIN freeWorkers' :
                        freeWorkers'[i] = v /\ freeWorkers'[j] = v => i = j)
  BY DEF IsFree

LEMMA PopFree ==
    ASSUME freeWorkers \in Seq(Workers), freeWorkers # <<>>, freeWorkers' = Tail(freeWorkers),
           NEW v \in Workers
    PROVE  /\ IsFree(v)' => IsFree(v)
           /\ IsFree(Head(freeWorkers))
           /\ (\A i, j \in DOMAIN freeWorkers :
                  freeWorkers[i] = v /\ freeWorkers[j] = v => i = j)
              => /\ v = Head(freeWorkers) => ~IsFree(v)'
                 /\ \A i, j \in DOMAIN freeWorkers' :
                        freeWorkers'[i] = v /\ freeWorkers'[j] = v => i = j
  BY DEF IsFree

\* The steps of the worker threads.
LEMMA ThreadApart ==
    ASSUME TypeInv, PoolInv, NEW t \in Threads,
           ThreadStep(t) \/ FinishReceive(t) \/ Disturbed(t), NEW w \in Workers
    PROVE  Apart(w)' /\ Unborn(w)'
  <1>. USE DEF TypeInv, TypeOK, W!TypeOK
  <1>1. /\ Apart(w) /\ Unborn(w)
        /\ totalWorkerCount \in Nat
        /\ <<w, 1>> \in W!Threads /\ <<w, 2>> \in W!Threads
        /\ t \in W!Threads /\ t[1] \in Workers
    BY WorkerThreads DEF PoolInv, W!Threads, Threads
  <1>2. /\ W!Started(t)
        /\ \A u \in W!Threads : u # t => pc'[u] = pc[u]
        /\ pc'[t] # "none"
        /\ \A v \in Workers : v # t[1] => state'[v] = state[v]
    BY <1>1 DEF ThreadStep, FinishReceive, Disturbed, CheckPending, PopPending, ReturnFreeWorker,
       OwnStep, W!CheckPending, W!FetchItem, W!Return, W!ReadState, W!CallReceive, W!CallGarbage,
       W!ReturnFromReceive, W!KeepResumed, W!StoreItem, W!GoIdle, W!LeavePause, W!DecideToWait,
       W!CondWait, W!ReceiveThrows, W!SpuriousWakeup, W!Trans, W!Started
  <1>3. UNCHANGED <<totalWorkerCount, main, chosen>>
    BY DEF ThreadStep, FinishReceive, Disturbed, CheckPending, PopPending, ReturnFreeWorker,
       OwnStep, poolVars, ownerVars
  <1>4. BeingAssigned(w)' <=> BeingAssigned(w)
    BY <1>3 DEF BeingAssigned
  <1>5. \/ UNCHANGED freeWorkers
        \/ /\ freeWorkers' = Append(freeWorkers, t[1])
           /\ pc[t] = "return" /\ pc'[t] = "run"
           /\ UNCHANGED state
    <2>1. CASE ReturnFreeWorker(t)
      BY <1>1, <2>1 DEF ReturnFreeWorker, W!Return, W!Trans
    <2>2. CASE CheckPending(t) \/ PopPending(t) \/ OwnStep(t) \/ FinishReceive(t) \/ Disturbed(t)
      BY <2>2 DEF CheckPending, PopPending, OwnStep, FinishReceive, Disturbed, poolVars
    <2>. QED
      BY <2>1, <2>2 DEF ThreadStep
  <1>6. CASE t[1] # w
    <2>1. /\ pc'[<<w, 1>>] = pc[<<w, 1>>] /\ pc'[<<w, 2>>] = pc[<<w, 2>>]
          /\ state'[w] = state[w]
      BY <1>1, <1>2, <1>6
    <2>2. CASE UNCHANGED freeWorkers
      BY <1>1, <1>3, <1>4, <2>1, <2>2, Unmoved DEF W!Started
    <2>3. CASE freeWorkers' = Append(freeWorkers, t[1])
      <3>1. IsFree(w)' <=> IsFree(w)
        BY <1>1, <1>6, <2>3, PushFree
      <3>2. Apart(w)'
        BY <1>1, <1>4, <1>6, <2>1, <2>3, <3>1, PushFree DEF Apart, Single, W!Started
      <3>3. Unborn(w)'
        BY <1>1, <1>3, <1>4, <2>1, <3>1 DEF Unborn, W!Started
      <3>. QED
        BY <3>2, <3>3
    <2>. QED
      BY <1>5, <2>2, <2>3
  <1>7. CASE t = <<w, 2>>
    <2>1. Apart(w)'
      BY <1>2, <1>7 DEF Apart, Single, W!Started
    <2>2. Unborn(w)'
      BY <1>1, <1>2, <1>3, <1>7 DEF Unborn, Workers
    <2>. QED
      BY <2>1, <2>2
  <1>8. CASE t = <<w, 1>>
    <2>1. Unborn(w)'
      BY <1>1, <1>2, <1>3, <1>8 DEF Unborn, Workers
    <2>2. Apart(w)'
      <3>. SUFFICES ASSUME Single(w)'
                    PROVE  Apart(w)'
        BY DEF Apart
      <3>1. Single(w)
        BY <1>1, <1>2, <1>8 DEF Single, W!Started
      <3>2. CASE freeWorkers' = Append(freeWorkers, t[1]) /\ pc[t] = "return" /\ pc'[t] = "run"
                 /\ UNCHANGED state
        <4>1. ~IsFree(w) /\ ~BeingAssigned(w) /\ state[w] # "RESUME"
          BY <1>1, <1>8, <3>1, <3>2 DEF Apart, Working
        <4>. QED
          BY <1>1, <1>4, <1>8, <3>1, <3>2, <4>1, PushFree DEF Apart, Working
      <3>3. CASE UNCHANGED freeWorkers
        <4>1. IsFree(w)' <=> IsFree(w)
          BY <3>3 DEF IsFree
        <4>2. /\ pc'[t] \in Working => pc[t] \in Working \/ state[w] = "RESUME"
              /\ state'[w] = "RESUME" => state[w] = "RESUME" \/ pc[t] \in Working
              /\ pc'[t] = "return" => state'[w] # "RESUME"
          BY ZenonT(30), <1>1, <1>8, <3>1
          DEF ThreadStep, FinishReceive, Disturbed, CheckPending, PopPending, ReturnFreeWorker,
              OwnStep, W!CheckPending, W!FetchItem, W!Return, W!ReadState, W!CallReceive,
              W!CallGarbage, W!ReturnFromReceive, W!KeepResumed, W!StoreItem, W!GoIdle,
              W!LeavePause, W!DecideToWait, W!CondWait, W!ReceiveThrows, W!SpuriousWakeup,
              W!Trans, Working, Apart
        <4>. QED
          BY <1>1, <1>4, <1>8, <3>1, <3>3, <4>1, <4>2 DEF Apart
      <3>. QED
        BY <1>5, <3>2, <3>3
    <2>. QED
      BY <2>1, <2>2
  <1>. QED
    BY <1>6, <1>7, <1>8 DEF Threads, W!Threads

\* A signal to worker v moves no thread of it but from waiting to pause, and
\* starts none.
LEMMA SignalMoves ==
    ASSUME W!TypeOK, NEW v \in Workers, W!Signal(v), NEW u \in W!Threads
    PROVE  /\ W!Started(u)' <=> W!Started(u)
           /\ pc'[u] \in Working => pc[u] \in Working
           /\ pc'[u] = "return" => pc[u] = "return"
           /\ u[1] # v => pc'[u] = pc[u]
  BY DEF W!Signal, W!TypeOK, W!ThreadsOf, W!Threads, W!Started, Working

\* A signal to a worker keeps every worker apart, if its state is written only
\* as Resume() on the owner's choice or FinishAndDie() write it.
LEMMA SignalApart ==
    ASSUME TypeInv, PoolInv, NEW v \in Workers, W!Signal(v), v <= totalWorkerCount,
           UNCHANGED <<freeWorkers, totalWorkerCount>>,
           \A u \in Workers : u # v => state'[u] = state[u],
           \/ state'[v] = state[v]
           \/ BeingAssigned(v) /\ ~BeingAssigned(v)',
           NEW w \in Workers, BeingAssigned(w)' => BeingAssigned(w)
    PROVE  Apart(w)' /\ Unborn(w)'
  <1>1. /\ Apart(w) /\ Unborn(w) /\ totalWorkerCount \in Nat
        /\ <<w, 1>> \in W!Threads /\ <<w, 2>> \in W!Threads
    BY WorkerThreads DEF PoolInv, TypeInv, TypeOK
  <1>2. /\ W!Started(<<w, 1>>)' <=> W!Started(<<w, 1>>)
        /\ W!Started(<<w, 2>>)' <=> W!Started(<<w, 2>>)
        /\ pc'[<<w, 1>>] \in Working => pc[<<w, 1>>] \in Working
        /\ pc'[<<w, 1>>] = "return" => pc[<<w, 1>>] = "return"
    BY <1>1, SignalMoves DEF TypeInv, TypeOK
  <1>3. (IsFree(w)' <=> IsFree(w)) /\ (Single(w)' <=> Single(w))
    BY <1>2 DEF IsFree, Single
  <1>4. Unborn(w)'
    BY <1>1, <1>2, <1>3 DEF Unborn, Workers
  <1>5. CASE state'[w] = state[w]
    BY <1>1, <1>2, <1>3, <1>4, <1>5 DEF Apart
  <1>6. CASE w = v /\ BeingAssigned(v) /\ ~BeingAssigned(v)'
    <2>. SUFFICES ASSUME Single(w)'
                  PROVE  Apart(w)'
      BY <1>4 DEF Apart
    <2>1. pc[<<w, 1>>] \notin Working /\ ~IsFree(w)
      BY <1>1, <1>3, <1>6 DEF Apart
    <2>. QED
      BY <1>1, <1>2, <1>3, <1>6, <2>1 DEF Apart, Working
  <1>. QED
    BY <1>5, <1>6

\* The steps of the owner that touch neither deque nor workers.
LEMMA StillApart ==
    ASSUME TypeInv, PoolInv, NEW w \in Workers, UNCHANGED <<pc, state, freeWorkers, totalWorkerCount>>,
           BeingAssigned(w)' => BeingAssigned(w)
    PROVE  Apart(w)' /\ Unborn(w)'
  <1>1. /\ Apart(w) /\ Unborn(w) /\ totalWorkerCount \in Nat
    BY DEF PoolInv, TypeInv, TypeOK
  <1>. QED
    BY <1>1, Unmoved DEF W!Started

\* CreateNewWorker, with the new worker pushed on the deque or chosen.
LEMMA CreateApart ==
    ASSUME TypeInv, PoolInv, CreateNewWorker, NEW w \in Workers,
           \/ /\ freeWorkers' = Append(freeWorkers, totalWorkerCount + 1)
              /\ ~BeingAssigned(w)'
           \/ /\ UNCHANGED freeWorkers
              /\ BeingAssigned(w)' => w = totalWorkerCount + 1
    PROVE  Apart(w)' /\ Unborn(w)'
  <1>. DEFINE new == totalWorkerCount + 1
  <1>1. /\ Apart(w) /\ Unborn(w) /\ totalWorkerCount \in Nat
        /\ <<w, 1>> \in W!Threads /\ <<w, 2>> \in W!Threads
        /\ new \in Workers /\ Unborn(new) /\ Apart(new)
        /\ totalWorkerCount' = new
        /\ UNCHANGED state
        /\ freeWorkers \in Seq(Workers)
    BY WorkerThreads, WorkerCountAssumption
    DEF PoolInv, TypeInv, TypeOK, CreateNewWorker, Workers, W!Create
  <1>2. /\ <<new, 1>> \in W!Threads /\ <<new, 2>> \in W!Threads
        /\ \A u \in W!Threads : u # <<new, 1>> => pc'[u] = pc[u]
        /\ pc'[<<new, 1>>] = "run"
    BY <1>1, WorkerThreads DEF CreateNewWorker, W!Create, W!Trans, TypeInv, TypeOK, W!TypeOK
  <1>3. ~IsFree(new) /\ state[new] = "SLEEP_WAIT"
    BY <1>1 DEF Unborn
  <1>4. CASE w = new
    <2>1. Unborn(w)'
      BY <1>1, <1>4 DEF Unborn
    <2>2. \A i, j \in DOMAIN freeWorkers' : freeWorkers'[i] = w /\ freeWorkers'[j] = w => i = j
      <3>1. ~\E i \in DOMAIN freeWorkers : freeWorkers[i] = w
        BY <1>3, <1>4 DEF IsFree
      <3>2. CASE freeWorkers' = Append(freeWorkers, new)
        BY <1>1, <1>4, <3>1, <3>2
      <3>. QED
        BY <3>1, <3>2
    <2>3. ~(IsFree(w)' /\ BeingAssigned(w)')
      BY <1>3, <1>4 DEF IsFree
    <2>4. Apart(w)'
      BY <1>1, <1>2, <1>3, <1>4, <2>2, <2>3 DEF Apart, Working
    <2>. QED
      BY <2>1, <2>4
  <1>5. CASE w # new
    <2>1. pc'[<<w, 1>>] = pc[<<w, 1>>] /\ pc'[<<w, 2>>] = pc[<<w, 2>>]
      BY <1>1, <1>2, <1>5
    <2>2. ~BeingAssigned(w)'
      BY <1>5
    <2>3. IsFree(w)' <=> IsFree(w)
      BY <1>1, <1>5, PushFree DEF IsFree
    <2>4. Single(w)' <=> Single(w)
      BY <2>1 DEF Single, W!Started
    <2>5. CASE freeWorkers' = Append(freeWorkers, new)
      BY <1>1, <1>5, <2>1, <2>2, <2>3, <2>4, <2>5, PushFree DEF Apart, Unborn, W!Started, Workers
    <2>6. CASE UNCHANGED freeWorkers
      BY <1>1, <1>5, <2>1, <2>2, <2>3, <2>4, <2>6 DEF Apart, Unborn, W!Started, Workers
    <2>. QED
      BY <2>5, <2>6
  <1>. QED
    BY <1>4, <1>5

LEMMA OwnerApart ==
    ASSUME TypeInv, PoolInv, OwnerStep, NEW w \in Workers
    PROVE  Apart(w)' /\ Unborn(w)'
  <1>. USE DEF OwnerAt, OwnerTo
  <1>1. Apart(w) /\ Unborn(w) /\ totalWorkerCount \in Nat /\ chosen \in Workers
    BY DEF PoolInv, TypeInv, TypeOK
  <1>2. CASE Construct \/ AddOne
    <2>1. ~BeingAssigned(w)'
      BY <1>2 DEF Construct, AddOne, BeingAssigned
    <2>. QED
      BY <1>2, <2>1, CreateApart DEF Construct, AddOne, AddWorker
  <1>3. CASE CreateWorker
    <2>1. BeingAssigned(w)' => w = totalWorkerCount + 1
      BY <1>3 DEF CreateWorker, BeingAssigned
    <2>. QED
      BY <1>3, <2>1, CreateApart DEF CreateWorker
  <1>4. CASE TakeFreeWorker
    <2>1. /\ freeWorkers \in Seq(Workers) /\ freeWorkers # <<>>
          /\ freeWorkers' = Tail(freeWorkers)
          /\ chosen' = Head(freeWorkers) /\ Head(freeWorkers) \in Workers
          /\ UNCHANGED <<pc, state, totalWorkerCount>>
      BY <1>4 DEF TakeFreeWorker, TypeInv, TypeOK, workerVars
    <2>2. IsFree(w)' => IsFree(w)
      BY <2>1, PopFree
    <2>3. BeingAssigned(w)' => w = Head(freeWorkers) /\ IsFree(w)
      BY <2>1, PopFree DEF BeingAssigned
    <2>4. Unborn(w)'
      BY <1>1, <2>1, <2>2, <2>3 DEF Unborn, W!Started
    <2>5. Apart(w)'
      <3>1. SUFFICES ASSUME Single(w)
                     PROVE  Apart(w)'
        BY <2>1 DEF Apart, Single, W!Started
      <3>2. /\ w = Head(freeWorkers) => ~IsFree(w)'
            /\ \A i, j \in DOMAIN freeWorkers' :
                  freeWorkers'[i] = w /\ freeWorkers'[j] = w => i = j
        BY <1>1, <2>1, <3>1, PopFree DEF Apart
      <3>. QED
        BY <1>1, <2>1, <2>2, <2>3, <3>1, <3>2 DEF Apart
    <2>. QED
      BY <2>4, <2>5
  <1>5. CASE ResumeWorker \/ ResumeNewWorker
    <2>1. BeingAssigned(chosen) /\ \A v \in Workers : ~BeingAssigned(v)'
      BY <1>5 DEF ResumeWorker, ResumeNewWorker, NextEvent, BeingAssigned
    <2>2. chosen <= totalWorkerCount
      <3>1. ~(chosen > totalWorkerCount)
        BY <1>1, <2>1 DEF PoolInv, Unborn
      <3>2. chosen \in Nat
        BY <1>1, WorkerCountAssumption DEF Workers
      <3>. QED
        BY <1>1, <3>1, <3>2
    <2>3. /\ W!Signal(chosen)
          /\ UNCHANGED <<freeWorkers, totalWorkerCount>>
          /\ \A u \in Workers : u # chosen => state'[u] = state[u]
      BY <1>5 DEF ResumeWorker, ResumeNewWorker, W!Resume, poolVars, TypeInv, TypeOK, W!TypeOK
    <2>. QED
      BY <1>1, <2>1, <2>2, <2>3, SignalApart
  <1>6. CASE SecondCreate
    <2>1. ~BeingAssigned(w)' /\ UNCHANGED <<state, freeWorkers, totalWorkerCount>>
      BY <1>6 DEF SecondCreate, NextEvent, BeingAssigned, W!Create, poolVars
    <2>2. /\ W!Started(<<chosen, 1>>)
          /\ pc' = [pc EXCEPT ![<<chosen, 2>>] = "run"]
          /\ pc \in [W!Threads -> W!Labels]
          /\ <<w, 1>> \in W!Threads /\ <<w, 2>> \in W!Threads
      BY <1>6, WorkerThreads DEF SecondCreate, W!Create, W!Trans, TypeInv, TypeOK, W!TypeOK
    <2>3. chosen <= totalWorkerCount
      BY <1>1, <2>2 DEF PoolInv, Unborn, Workers
    <2>4. pc'[<<w, 1>>] = pc[<<w, 1>>]
      BY <2>2
    <2>5. W!Started(<<w, 2>>) => W!Started(<<w, 2>>)'
      BY <2>2 DEF W!Started
    <2>6. W!Started(<<w, 2>>)' => W!Started(<<w, 2>>) \/ w <= totalWorkerCount
      BY <2>2, <2>3 DEF W!Started
    <2>. QED
      BY <1>1, <2>1, <2>4, <2>5, <2>6, Unmoved
  <1>7. CASE Assign
    BY <1>7, StillApart DEF Assign, W!AssignSocket, BeingAssigned, poolVars
  <1>8. CASE OwnerLocks \/ NoFreeWorker \/ RecordNewBusyWorker \/ JoinWorker \/ Exit
    <2>1. /\ BeingAssigned(w)' => BeingAssigned(w)
          /\ UNCHANGED <<pc, state, freeWorkers, totalWorkerCount>>
      BY <1>8 DEF OwnerLocks, NoFreeWorker, RecordNewBusyWorker, JoinWorker, Exit, W!EndProcess,
         BeingAssigned, workerVars, poolVars, ownerVars
    <2>. QED
      BY <2>1, StillApart
  <1>9. CASE PushPending
    BY <1>9, StillApart DEF PushPending, NextEvent, BeingAssigned, workerVars, poolVars
  <1>. QED
    BY <1>2, <1>3, <1>4, <1>5, <1>6, <1>7, <1>8, <1>9 DEF OwnerStep

LEMMA HandlerApart ==
    ASSUME TypeInv, PoolInv, HandlerStep, NEW w \in Workers
    PROVE  Apart(w)' /\ Unborn(w)'
  <1>1. Apart(w) /\ Unborn(w) /\ totalWorkerCount \in Nat
    BY DEF PoolInv, TypeInv, TypeOK
  <1>2. (BeingAssigned(w)' <=> BeingAssigned(w)) /\ UNCHANGED <<freeWorkers, totalWorkerCount>>
    BY DEF HandlerStep, HandlerLocks, HandlerStores, HandlerSignals, BeingAssigned, poolVars,
       ownerVars
  <1>3. CASE HandlerLocks
    BY <1>2, <1>3, StillApart DEF HandlerLocks, workerVars
  <1>4. CASE HandlerStores
    <2>1. UNCHANGED pc /\ hNext <= totalWorkerCount
          /\ state' = [state EXCEPT ![hNext] = "TERMINATE"]
      BY <1>4 DEF HandlerStores, W!StoreTerminate, TypeInv, StackInv
    <2>2. state'[w] # state[w] => state'[w] # "RESUME" /\ w <= totalWorkerCount
      BY <2>1 DEF TypeInv, TypeOK, W!TypeOK
    <2>. QED
      BY <1>1, <1>2, <2>1, <2>2, Unmoved DEF W!Started
  <1>5. CASE HandlerSignals
    <2>1. hNext \in Workers /\ hNext <= totalWorkerCount
      BY <1>5, WorkerCountAssumption DEF HandlerSignals, TypeInv, TypeOK, StackInv, Workers
    <2>2. W!Signal(hNext) /\ UNCHANGED state
      BY <1>5 DEF HandlerSignals, W!SignalTerminate
    <2>. QED
      BY <1>2, <2>1, <2>2, SignalApart
  <1>. QED
    BY <1>3, <1>4, <1>5 DEF HandlerStep

LEMMA OtherApart ==
    ASSUME TypeInv, PoolInv, NEW w \in Workers,
           AddFails \/ CreateFails \/ UseDeleted \/ Environment \/ UNCHANGED vars
    PROVE  Apart(w)' /\ Unborn(w)'
  <1>1. UNCHANGED <<pc, state, freeWorkers, totalWorkerCount>>
    BY DEF AddFails, CreateFails, UseDeleted, Environment, AddWorkers, OwnerThrows, EnterWait,
       EnterJoin, WakeUpAllThreads, InterruptLogging, InterruptStop, StopCall, ProcessData,
       W!EndProcess, vars, workerVars, poolVars
  <1>2. BeingAssigned(w)' => BeingAssigned(w)
    BY DEF AddFails, CreateFails, UseDeleted, Environment, AddWorkers, OwnerThrows, EnterWait,
       EnterJoin, WakeUpAllThreads, InterruptLogging, InterruptStop, StopCall, ProcessData,
       OwnerTo, BeingAssigned, vars, ownerVars
  <1>. QED
    BY <1>1, <1>2, StillApart

LEMMA InitPool == Init => PoolInv
  <1>. SUFFICES ASSUME Init, NEW w \in Workers
                PROVE  Apart(w) /\ Unborn(w)
    BY DEF PoolInv
  <1>1. state[w] = "SLEEP_WAIT" /\ pc[<<w, 1>>] = "none" /\ pc[<<w, 2>>] = "none"
    BY WorkerThreads DEF Init, W!Init
  <1>2. ~BeingAssigned(w)
    BY DEF Init, BeingAssigned
  <1>3. DOMAIN freeWorkers = {}
    BY DEF Init
  <1>. QED
    BY <1>1, <1>2, <1>3 DEF Apart, Unborn, IsFree, W!Started, Working

LEMMA NextPool == TypeInv /\ PoolInv /\ [Next]_vars => PoolInv'
  <1>. SUFFICES ASSUME TypeInv, PoolInv, [Next]_vars, NEW w \in Workers
                PROVE  Apart(w)' /\ Unborn(w)'
    BY DEF PoolInv
  <1>. QED
    BY OwnerApart, HandlerApart, OtherApart, ThreadApart DEF Next, Failure

\* The deque of free workers never holds a worker with one thread twice, for any
\* number of workers, sockets and stops.
THEOREM FreeWorkersOnce == Spec => []FreeOnce
  <1>1. TypeInv /\ PoolInv => FreeOnce
    BY PoolInvGives DEF TypeInv
  <1>. QED
    BY <1>1, InitTyped, NextTyped, InitPool, NextPool, PTL DEF Spec

\* ProcessData never writes the socket of a worker whose one thread is still
\* working for an earlier one, although it writes it without a lock.
THEOREM AssignmentIsExclusive == Spec => []ExclusiveAssignment
  <1>1. TypeInv /\ PoolInv => ExclusiveAssignment
    BY PoolInvGives DEF TypeInv
  <1>. QED
    BY <1>1, InitTyped, NextTyped, InitPool, NextPool, PTL DEF Spec

-----------------------------------------------------------------------------
(* NoWorkerLost.  A worker leaves OnWorkComplete() for Run()'s loop on two   *)
(* ways: through the deque, or with a popped socket, and then its state has  *)
(* been RESUME, or TERMINATE, since before the pop.                          *)

Awake == {"RESUME", "TERMINATE"}

Circulates(w) ==
    Single(w) /\ w <= totalWorkerCount =>
        /\ IsFree(w) \/ BeingAssigned(w) \/ state[w] \in Awake \/ pc[<<w, 1>>] \in Working
        /\ pc[<<w, 1>>] \in {"fetch", "store"} => state[w] \in Awake

LostInv == \A w \in Workers : Circulates(w)

\* A step that moves worker w's thread no further than to wake it, and takes w out of
\* no place but into the next.
LEMMA StillCirculates ==
    ASSUME NEW w \in Workers, Circulates(w),
           pc'[<<w, 1>>] = pc[<<w, 1>>] \/ (pc[<<w, 1>>] = "waiting" /\ pc'[<<w, 1>>] = "pause"),
           W!Started(<<w, 2>>) => W!Started(<<w, 2>>)',
           state'[w] = state[w] \/ state'[w] \in Awake,
           IsFree(w) \/ BeingAssigned(w) =>
               IsFree(w)' \/ BeingAssigned(w)' \/ state'[w] \in Awake,
           totalWorkerCount' = totalWorkerCount
    PROVE  Circulates(w)'
  <1>1. Single(w)' => Single(w)
    BY DEF Single
  <1>2. /\ pc'[<<w, 1>>] \in {"fetch", "store"} => pc'[<<w, 1>>] = pc[<<w, 1>>]
        /\ pc[<<w, 1>>] \in Working => pc'[<<w, 1>>] \in Working
    BY DEF Working
  <1>. QED
    BY <1>1, <1>2 DEF Circulates, Awake, Working

\* A pop takes only the head out of the deque.
LEMMA PopKeeps ==
    ASSUME freeWorkers \in Seq(Workers), freeWorkers # <<>>, freeWorkers' = Tail(freeWorkers),
           NEW v \in Workers, IsFree(v), v # Head(freeWorkers)
    PROVE  IsFree(v)'
  <1>1. PICK i \in 1 .. Len(freeWorkers) : freeWorkers[i] = v
    BY DEF IsFree
  <1>2. i # 1 /\ i - 1 \in 1 .. Len(Tail(freeWorkers)) /\ Tail(freeWorkers)[i - 1] = v
    BY <1>1
  <1>3. i - 1 \in DOMAIN Tail(freeWorkers)
    BY <1>2
  <1>. QED
    BY <1>2, <1>3 DEF IsFree

LEMMA ThreadCirculates ==
    ASSUME TypeInv, LostInv, NEW t \in Threads,
           ThreadStep(t) \/ FinishReceive(t) \/ Disturbed(t), NEW w \in Workers
    PROVE  Circulates(w)'
  <1>. USE DEF TypeInv, TypeOK, W!TypeOK
  <1>1. /\ Circulates(w)
        /\ <<w, 1>> \in W!Threads /\ <<w, 2>> \in W!Threads
        /\ t \in W!Threads /\ t[1] \in Workers
    BY WorkerThreads DEF LostInv, W!Threads, Threads
  <1>2. /\ W!Started(t)
        /\ \A u \in W!Threads : u # t => pc'[u] = pc[u]
        /\ pc'[t] # "none"
        /\ \A v \in Workers : v # t[1] => state'[v] = state[v]
    BY <1>1 DEF ThreadStep, FinishReceive, Disturbed, CheckPending, PopPending, ReturnFreeWorker,
       OwnStep, W!CheckPending, W!FetchItem, W!Return, W!ReadState, W!CallReceive, W!CallGarbage,
       W!ReturnFromReceive, W!KeepResumed, W!StoreItem, W!GoIdle, W!LeavePause, W!DecideToWait,
       W!CondWait, W!ReceiveThrows, W!SpuriousWakeup, W!Trans, W!Started
  <1>3. UNCHANGED <<totalWorkerCount, main, chosen>>
    BY DEF ThreadStep, FinishReceive, Disturbed, CheckPending, PopPending, ReturnFreeWorker,
       OwnStep, poolVars, ownerVars
  <1>4. BeingAssigned(w)' <=> BeingAssigned(w)
    BY <1>3 DEF BeingAssigned
  <1>5. CASE ReturnFreeWorker(t)
    <2>1. freeWorkers' = Append(freeWorkers, t[1]) /\ UNCHANGED state
          /\ pc[t] = "return" /\ pc'[t] = "run"
      BY <1>1, <1>5 DEF ReturnFreeWorker, W!Return, W!Trans
    <2>2. IsFree(w)' <=> IsFree(w) \/ w = t[1]
      BY <1>1, <2>1, PushFree
    <2>3. CASE t[1] # w
      <3>1. /\ pc'[<<w, 1>>] = pc[<<w, 1>>] /\ pc'[<<w, 2>>] = pc[<<w, 2>>]
            /\ state'[w] = state[w]
        BY <1>1, <1>2, <2>3
      <3>. QED
        BY <1>1, <1>3, <1>4, <2>2, <3>1, StillCirculates DEF W!Started
    <2>4. CASE t = <<w, 1>>
      BY <2>1, <2>2, <2>4 DEF Circulates
    <2>5. CASE t = <<w, 2>>
      BY <1>2, <2>5 DEF Circulates, Single, W!Started
    <2>. QED
      BY <2>3, <2>4, <2>5 DEF Threads, W!Threads
  <1>6. CASE CheckPending(t) \/ PopPending(t) \/ OwnStep(t) \/ FinishReceive(t) \/ Disturbed(t)
    <2>1. IsFree(w)' <=> IsFree(w)
      BY <1>6 DEF CheckPending, PopPending, OwnStep, FinishReceive, Disturbed, poolVars, IsFree
    <2>2. CASE t[1] # w
      BY SMTT(30), <1>1, <1>2, <1>3, <1>4, <2>1, <2>2, StillCirculates DEF W!Started
    <2>3. CASE t = <<w, 1>>
      <3>. SUFFICES ASSUME Single(w)', w <= totalWorkerCount
                    PROVE  Circulates(w)'
        BY <1>3 DEF Circulates
      <3>1. Single(w)
        BY <1>1, <1>2, <2>3 DEF Single, W!Started
      <3>2. /\ IsFree(w) \/ BeingAssigned(w) \/ state[w] \in Awake \/ pc[t] \in Working
            /\ pc[t] \in {"fetch", "store"} => state[w] \in Awake
        BY <1>1, <2>3, <3>1 DEF Circulates
      <3>3. /\ state[w] \in Awake => state'[w] \in Awake \/ pc'[t] \in Working
            /\ pc[t] \in Working => state'[w] \in Awake \/ pc'[t] \in Working
            /\ pc'[t] \in {"fetch", "store"} => state'[w] \in Awake
        BY <1>1, <1>6, <2>3, <3>2
        DEF CheckPending, PopPending, OwnStep, FinishReceive, Disturbed, W!CheckPending,
            W!FetchItem, W!ReadState, W!CallReceive, W!CallGarbage, W!ReturnFromReceive,
            W!KeepResumed, W!StoreItem, W!GoIdle, W!LeavePause, W!DecideToWait, W!CondWait,
            W!ReceiveThrows, W!SpuriousWakeup, W!Trans, Working, Awake
      <3>. QED
        BY <1>4, <2>1, <2>3, <3>2, <3>3 DEF Circulates
    <2>4. CASE t = <<w, 2>>
      BY <1>2, <2>4 DEF Circulates, Single, W!Started
    <2>. QED
      BY <2>2, <2>3, <2>4 DEF Threads, W!Threads
  <1>. QED
    BY <1>5, <1>6 DEF ThreadStep

\* A signal to worker v, which writes no state or one of Awake to it.
LEMMA SignalCirculates ==
    ASSUME TypeInv, LostInv, NEW v \in Workers, W!Signal(v), NEW w \in Workers,
           state'[w] = state[w] \/ state'[w] \in Awake,
           BeingAssigned(w) => BeingAssigned(w)' \/ state'[w] \in Awake,
           UNCHANGED <<freeWorkers, totalWorkerCount>>
    PROVE  Circulates(w)'
  <1>1. <<w, 1>> \in W!Threads /\ <<w, 2>> \in W!Threads
    BY WorkerThreads
  <1>2. pc'[<<w, 1>>] = pc[<<w, 1>>] \/ (pc[<<w, 1>>] = "waiting" /\ pc'[<<w, 1>>] = "pause")
    BY <1>1 DEF W!Signal, TypeInv, TypeOK, W!TypeOK, W!ThreadsOf, W!Threads
  <1>3. W!Started(<<w, 2>>) => W!Started(<<w, 2>>)'
    BY <1>1, SignalMoves DEF TypeInv, TypeOK
  <1>4. IsFree(w)' <=> IsFree(w)
    BY DEF IsFree
  <1>. QED
    BY <1>2, <1>3, <1>4, StillCirculates DEF LostInv

\* CreateNewWorker, with the new worker pushed on the deque or chosen.
LEMMA CreateCirculates ==
    ASSUME TypeInv, LostInv, CreateNewWorker, NEW w \in Workers, ~BeingAssigned(w),
           \/ freeWorkers' = Append(freeWorkers, totalWorkerCount + 1)
           \/ UNCHANGED freeWorkers /\ (w = totalWorkerCount + 1 => BeingAssigned(w)')
    PROVE  Circulates(w)'
  <1>. DEFINE new == totalWorkerCount + 1
  <1>1. /\ Circulates(w) /\ totalWorkerCount \in Nat
        /\ <<w, 1>> \in W!Threads /\ <<w, 2>> \in W!Threads
        /\ new \in Workers /\ totalWorkerCount' = new
        /\ UNCHANGED state /\ freeWorkers \in Seq(Workers) /\ w \in Nat
    BY WorkerThreads, WorkerCountAssumption
    DEF LostInv, TypeInv, TypeOK, CreateNewWorker, Workers, W!Create
  <1>2. /\ <<new, 1>> \in W!Threads
        /\ \A u \in W!Threads : u # <<new, 1>> => pc'[u] = pc[u]
        /\ pc'[<<new, 1>>] = "run"
    BY <1>1, WorkerThreads DEF CreateNewWorker, W!Create, W!Trans, TypeInv, TypeOK, W!TypeOK
  <1>3. CASE w = new
    <2>1. IsFree(w)' \/ BeingAssigned(w)'
      BY <1>1, <1>3, PushFree
    <2>. QED
      BY <1>2, <1>3, <2>1 DEF Circulates
  <1>4. CASE w # new
    <2>1. pc'[<<w, 1>>] = pc[<<w, 1>>] /\ pc'[<<w, 2>>] = pc[<<w, 2>>]
      BY <1>1, <1>2, <1>4
    <2>2. IsFree(w)' <=> IsFree(w)
      BY <1>1, <1>4, PushFree DEF IsFree
    <2>3. w <= totalWorkerCount' => w <= totalWorkerCount
      BY <1>1, <1>4
    <2>4. Single(w)' <=> Single(w)
      BY <2>1 DEF Single, W!Started
    <2>. QED
      BY <1>1, <2>1, <2>2, <2>3, <2>4 DEF Circulates
  <1>. QED
    BY <1>3, <1>4

\* The steps of the owner that touch neither deque nor workers.
LEMMA StillCirculating ==
    ASSUME LostInv, NEW w \in Workers, UNCHANGED <<pc, state, freeWorkers, totalWorkerCount>>,
           BeingAssigned(w) => BeingAssigned(w)'
    PROVE  Circulates(w)'
  BY StillCirculates DEF LostInv, IsFree, W!Started

LEMMA OwnerCirculates ==
    ASSUME TypeInv, LostInv, OwnerStep, NEW w \in Workers
    PROVE  Circulates(w)'
  <1>. USE DEF OwnerAt, OwnerTo
  <1>1. Circulates(w) /\ totalWorkerCount \in Nat /\ chosen \in Workers
    BY DEF LostInv, TypeInv, TypeOK
  <1>2. CASE Construct \/ AddOne
    <2>1. ~BeingAssigned(w)
      BY <1>2 DEF Construct, AddOne, BeingAssigned
    <2>. QED
      BY <1>2, <2>1, CreateCirculates DEF Construct, AddOne, AddWorker
  <1>3. CASE CreateWorker
    <2>1. ~BeingAssigned(w) /\ (w = totalWorkerCount + 1 => BeingAssigned(w)')
      BY <1>3 DEF CreateWorker, BeingAssigned
    <2>. QED
      BY <1>3, <2>1, CreateCirculates DEF CreateWorker
  <1>4. CASE TakeFreeWorker
    <2>1. /\ freeWorkers \in Seq(Workers) /\ freeWorkers # <<>>
          /\ freeWorkers' = Tail(freeWorkers)
          /\ chosen' = Head(freeWorkers) /\ main' = "assign"
          /\ UNCHANGED <<pc, state, totalWorkerCount>>
      BY <1>4 DEF TakeFreeWorker, TypeInv, TypeOK, workerVars
    <2>2. ~BeingAssigned(w)
      BY <1>4 DEF TakeFreeWorker, BeingAssigned
    <2>3. IsFree(w) => IsFree(w)' \/ BeingAssigned(w)'
      <3>1. w = Head(freeWorkers) => BeingAssigned(w)'
        BY <2>1 DEF BeingAssigned
      <3>2. IsFree(w) /\ w # Head(freeWorkers) => IsFree(w)'
        BY <2>1, PopKeeps
      <3>. QED
        BY <3>1, <3>2
    <2>. QED
      BY <1>1, <2>1, <2>2, <2>3, StillCirculates DEF W!Started
  <1>5. CASE ResumeWorker \/ ResumeNewWorker
    <2>1. /\ W!Signal(chosen)
          /\ UNCHANGED <<freeWorkers, totalWorkerCount>>
          /\ \A u \in Workers : u # chosen => state'[u] = state[u]
          /\ state'[chosen] = "RESUME"
      BY <1>1, <1>5
      DEF ResumeWorker, ResumeNewWorker, W!Resume, poolVars, TypeInv, TypeOK, W!TypeOK
    <2>2. state'[w] = state[w] \/ state'[w] \in Awake
      BY <2>1 DEF Awake
    <2>3. BeingAssigned(w) => state'[w] \in Awake
      BY <2>1 DEF BeingAssigned, Awake
    <2>. QED
      BY <1>1, <2>1, <2>2, <2>3, SignalCirculates
  <1>6. CASE SecondCreate
    <2>1. ~BeingAssigned(w) /\ UNCHANGED <<state, freeWorkers, totalWorkerCount>>
      BY <1>6 DEF SecondCreate, BeingAssigned, W!Create, poolVars
    <2>2. /\ pc' = [pc EXCEPT ![<<chosen, 2>>] = "run"]
          /\ pc \in [W!Threads -> W!Labels]
          /\ <<w, 1>> \in W!Threads /\ <<w, 2>> \in W!Threads
      BY <1>6, WorkerThreads DEF SecondCreate, W!Create, W!Trans, TypeInv, TypeOK, W!TypeOK
    <2>3. pc'[<<w, 1>>] = pc[<<w, 1>>] /\ (W!Started(<<w, 2>>) => W!Started(<<w, 2>>)')
      BY <2>2 DEF W!Started
    <2>4. IsFree(w)' <=> IsFree(w)
      BY <2>1 DEF IsFree
    <2>. QED
      BY <1>1, <2>1, <2>3, <2>4, StillCirculates
  <1>7. CASE Assign
    BY <1>7, StillCirculating DEF Assign, W!AssignSocket, BeingAssigned, poolVars
  <1>8. CASE OwnerLocks \/ NoFreeWorker \/ RecordNewBusyWorker \/ JoinWorker \/ Exit
    <2>1. /\ BeingAssigned(w) => BeingAssigned(w)'
          /\ UNCHANGED <<pc, state, freeWorkers, totalWorkerCount>>
      BY <1>8 DEF OwnerLocks, NoFreeWorker, RecordNewBusyWorker, JoinWorker, Exit, W!EndProcess,
         BeingAssigned, workerVars, poolVars, ownerVars
    <2>. QED
      BY <2>1, StillCirculating
  <1>9. CASE PushPending
    BY <1>9, StillCirculating DEF PushPending, BeingAssigned, workerVars, poolVars
  <1>. QED
    BY <1>2, <1>3, <1>4, <1>5, <1>6, <1>7, <1>8, <1>9 DEF OwnerStep

LEMMA HandlerCirculates ==
    ASSUME TypeInv, LostInv, HandlerStep, NEW w \in Workers
    PROVE  Circulates(w)'
  <1>1. (BeingAssigned(w)' <=> BeingAssigned(w)) /\ UNCHANGED <<freeWorkers, totalWorkerCount>>
    BY DEF HandlerStep, HandlerLocks, HandlerStores, HandlerSignals, BeingAssigned, poolVars,
       ownerVars
  <1>2. CASE HandlerLocks
    BY <1>1, <1>2, StillCirculating DEF HandlerLocks, workerVars
  <1>3. CASE HandlerStores
    <2>1. UNCHANGED pc /\ state' = [state EXCEPT ![hNext] = "TERMINATE"]
      BY <1>3 DEF HandlerStores, W!StoreTerminate
    <2>2. state'[w] = state[w] \/ state'[w] \in Awake
      BY <2>1 DEF TypeInv, TypeOK, W!TypeOK, Awake
    <2>. QED
      BY <1>1, <2>1, <2>2, StillCirculates DEF LostInv, W!Started, IsFree
  <1>4. CASE HandlerSignals
    <2>1. hNext \in Workers
      BY <1>4, WorkerCountAssumption DEF HandlerSignals, TypeInv, TypeOK, StackInv, Workers
    <2>2. W!Signal(hNext) /\ UNCHANGED state
      BY <1>4 DEF HandlerSignals, W!SignalTerminate
    <2>. QED
      BY <1>1, <2>1, <2>2, SignalCirculates
  <1>. QED
    BY <1>2, <1>3, <1>4 DEF HandlerStep

LEMMA OtherCirculates ==
    ASSUME LostInv, NEW w \in Workers,
           AddFails \/ CreateFails \/ UseDeleted \/ Environment \/ UNCHANGED vars
    PROVE  Circulates(w)'
  <1>1. UNCHANGED <<pc, state, freeWorkers, totalWorkerCount>>
    BY DEF AddFails, CreateFails, UseDeleted, Environment, AddWorkers, OwnerThrows, EnterWait,
       EnterJoin, WakeUpAllThreads, InterruptLogging, InterruptStop, StopCall, ProcessData,
       W!EndProcess, vars, workerVars, poolVars
  <1>2. BeingAssigned(w) => BeingAssigned(w)'
    BY DEF AddFails, CreateFails, UseDeleted, Environment, AddWorkers, OwnerThrows, EnterWait,
       EnterJoin, WakeUpAllThreads, InterruptLogging, InterruptStop, StopCall, ProcessData,
       OwnerAt, OwnerTo, BeingAssigned, vars, ownerVars
  <1>. QED
    BY <1>1, <1>2, StillCirculating

LEMMA NextLost == TypeInv /\ LostInv /\ [Next]_vars => LostInv'
  <1>. SUFFICES ASSUME TypeInv, LostInv, [Next]_vars, NEW w \in Workers
                PROVE  Circulates(w)'
    BY DEF LostInv
  <1>. QED
    BY OwnerCirculates, HandlerCirculates, OtherCirculates, ThreadCirculates DEF Next, Failure

\* No worker with one thread ever falls out of the pool: unless told to terminate it is
\* free, being assigned, resumed or at work, for any number of workers, sockets and stops.
THEOREM NoneLost == Spec => []NoWorkerLost
  <1>1. Init => LostInv
    <2>. SUFFICES ASSUME Init, NEW w \in Workers, w <= totalWorkerCount
                  PROVE  FALSE
      BY DEF LostInv, Circulates
    <2>. QED
      BY WorkerCountAssumption DEF Init, Workers
  <1>2. TypeInv /\ LostInv => NoWorkerLost
    <2>. SUFFICES ASSUME TypeInv, LostInv, NEW w \in 1 .. totalWorkerCount, Single(w)
                  PROVE  \/ IsFree(w) \/ BeingAssigned(w)
                         \/ state[w] \in Awake
                         \/ pc[<<w, 1>>] \in Working
      BY DEF NoWorkerLost, Awake
    <2>1. w \in Workers /\ w <= totalWorkerCount
      BY WorkerCountAssumption DEF TypeInv, TypeOK, Workers
    <2>. QED
      BY <2>1 DEF LostInv, Circulates
  <1>. QED
    BY <1>1, <1>2, InitTyped, NextTyped, NextLost, PTL DEF Spec

-----------------------------------------------------------------------------
(* PushIsAlone.  Nothing resumes a worker before the event loop runs, and a  *)
(* worker nobody has resumed sleeps or ends.                                 *)

Early == {"construct", "cli", "add"}

\* Worker w has nothing to do, and nobody has told it otherwise.
Asleep(w) ==
    state[w] # "RESUME" /\ pc[<<w, 1>>] \notin Working /\ pc[<<w, 2>>] \notin Working

EarlyInv == main \in Early => \A w \in Workers : Asleep(w)

\* The owner's steps before the event loop create workers and no more.
LEMMA OwnerAsleep ==
    ASSUME TypeInv, main \in Early, OwnerStep, NEW w \in Workers, Asleep(w)
    PROVE  Asleep(w)'
  <1>1. Construct \/ AddOne \/ (UNCHANGED <<state, pc>>)
    BY DEF OwnerStep, OwnerAt, OwnerLocks, TakeFreeWorker, NoFreeWorker, CreateWorker, Assign,
       ResumeWorker, ResumeNewWorker, RecordNewBusyWorker, SecondCreate, PushPending, JoinWorker,
       Exit, W!EndProcess, workerVars, Early
  <1>2. CASE Construct \/ AddOne
    <2>1. UNCHANGED state /\ pc' = [pc EXCEPT ![<<totalWorkerCount + 1, 1>>] = "run"]
      BY <1>2 DEF Construct, AddOne, AddWorker, CreateNewWorker, W!Create, W!Trans
    <2>. QED
      BY <2>1, WorkerThreads DEF Asleep, Working, TypeInv, TypeOK, W!TypeOK
  <1>. QED
    BY <1>1, <1>2 DEF Asleep

\* A stop call resumes nobody.
LEMMA HandlerAsleep ==
    ASSUME TypeInv, HandlerStep, NEW w \in Workers, Asleep(w)
    PROVE  Asleep(w)'
  <1>1. CASE HandlerLocks
    BY <1>1 DEF HandlerLocks, workerVars, Asleep
  <1>2. CASE HandlerStores
    BY <1>2 DEF HandlerStores, W!StoreTerminate, Asleep, TypeInv, TypeOK, W!TypeOK
  <1>3. CASE HandlerSignals
    <2>1. hNext \in Workers
      BY <1>3, WorkerCountAssumption DEF HandlerSignals, TypeInv, TypeOK, StackInv, Workers
    <2>2. W!Signal(hNext) /\ UNCHANGED state
      BY <1>3 DEF HandlerSignals, W!SignalTerminate
    <2>. QED
      BY <2>1, <2>2, SignalMoves, WorkerThreads DEF Asleep, TypeInv, TypeOK
  <1>. QED
    BY <1>1, <1>2, <1>3 DEF HandlerStep

\* A thread of a sleeping worker does not start to work, and no other wakes it.
LEMMA ThreadAsleep ==
    ASSUME TypeInv, \A v \in Workers : Asleep(v), NEW t \in Threads,
           ThreadStep(t) \/ FinishReceive(t) \/ Disturbed(t), NEW w \in Workers
    PROVE  Asleep(w)'
  <1>1. t[1] \in Workers /\ t \in W!Threads /\ t \in {<<t[1], 1>>, <<t[1], 2>>}
    BY DEF Threads, W!Threads
  <1>2. state[t[1]] # "RESUME" /\ pc[t] \notin Working
    BY <1>1 DEF Asleep
  <1>3. /\ UNCHANGED state
        /\ \/ UNCHANGED pc
           \/ \E to \in {"pause", "exited", "run", "towait", "waiting"} : pc' = [pc EXCEPT ![t] = to]
    BY <1>2 DEF ThreadStep, FinishReceive, Disturbed, CheckPending, PopPending, ReturnFreeWorker,
       OwnStep, W!CheckPending, W!FetchItem, W!Return, W!ReadState, W!CallReceive, W!CallGarbage,
       W!ReturnFromReceive, W!KeepResumed, W!StoreItem, W!GoIdle, W!LeavePause, W!DecideToWait,
       W!CondWait, W!ReceiveThrows, W!SpuriousWakeup, W!Trans, Working
  <1>. QED
    BY <1>3, WorkerThreads DEF Asleep, Working, TypeInv, TypeOK, W!TypeOK

\* The invariant is kept.
LEMMA NextEarly == TypeInv /\ EarlyInv /\ [Next]_vars => EarlyInv'
  <1>. SUFFICES ASSUME TypeInv, EarlyInv, [Next]_vars, main' \in Early, NEW w \in Workers
                PROVE  Asleep(w)'
    BY DEF EarlyInv
  <1>1. CASE OwnerStep
    <2>1. main \in Early
      BY <1>1 DEF OwnerStep, OwnerAt, OwnerTo, NextEvent, Construct, AddOne, OwnerLocks,
         TakeFreeWorker, NoFreeWorker, CreateWorker, Assign, ResumeWorker, ResumeNewWorker,
         RecordNewBusyWorker, SecondCreate, PushPending, JoinWorker, Exit, ownerVars, Early
    <2>. QED
      BY <1>1, <2>1, OwnerAsleep DEF EarlyInv
  <1>2. CASE HandlerStep
    <2>1. main \in Early
      BY <1>2 DEF HandlerStep, HandlerLocks, HandlerStores, HandlerSignals, ownerVars
    <2>. QED
      BY <1>2, <2>1, HandlerAsleep DEF EarlyInv
  <1>3. CASE \E t \in Threads : ThreadStep(t) \/ FinishReceive(t) \/ Disturbed(t)
    <2>1. main \in Early
      BY <1>3 DEF ThreadStep, FinishReceive, Disturbed, CheckPending, PopPending,
         ReturnFreeWorker, OwnStep, ownerVars
    <2>. QED
      BY <1>3, <2>1, ThreadAsleep DEF EarlyInv
  <1>4. CASE AddFails \/ CreateFails \/ UseDeleted \/ Environment \/ UNCHANGED vars
    <2>1. main \in Early /\ UNCHANGED <<state, pc>>
      BY <1>4 DEF AddFails, CreateFails, UseDeleted, Environment, AddWorkers, OwnerThrows,
         EnterWait, EnterJoin, WakeUpAllThreads, InterruptLogging, InterruptStop, StopCall,
         ProcessData, OwnerAt, OwnerTo, W!EndProcess, vars, workerVars, ownerVars, Early
    <2>. QED
      BY <2>1 DEF EarlyInv, Asleep
  <1>. QED
    BY <1>1, <1>2, <1>3, <1>4 DEF Next, Failure

\* AddWorkers pushes to the deque of free workers without the mutex while no thread is
\* anywhere near it, for any number of workers, sockets and stop calls.
THEOREM AddsAlone == Spec => []PushIsAlone
  <1>1. Init => EarlyInv
    BY WorkerThreads DEF Init, W!Init, EarlyInv, Asleep, Working
  <1>2. EarlyInv => PushIsAlone
    <2>. SUFFICES ASSUME EarlyInv, main \in {"construct", "cli", "add"}, NEW t \in Threads
                  PROVE  pc[t] \notin Working
      BY DEF PushIsAlone
    <2>1. t[1] \in Workers /\ t \in {<<t[1], 1>>, <<t[1], 2>>}
      BY DEF Threads, W!Threads
    <2>2. Asleep(t[1])
      BY <2>1 DEF EarlyInv, Early
    <2>. QED
      BY <2>1, <2>2 DEF Asleep
  <1>. QED
    BY <1>1, <1>2, InitTyped, NextTyped, NextEarly, PTL DEF Spec

=============================================================================
