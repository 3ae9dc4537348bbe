--------------------------- MODULE DeliveryProofs ---------------------------
(***************************************************************************)
(* What the dispatcher makes of the sockets it is given: while no stop     *)
(* call has come and all workers have one thread, a socket on the owner's  *)
(* list goes to the queue or to a worker, and stays there until a worker   *)
(* has drained it.  For MddProxyProofs.                                    *)
(***************************************************************************)
EXTENDS WorkDispatcherProofs

\* The owner's list is empty outside of ProcessData, and the worker it has taken
\* from the deque has got the head of it.
ListInv ==
    /\ main \notin InLoop => evList = <<>>
    /\ main = "resume" /\ Single(chosen) => receiverSocket[chosen] = Head(evList)

\* Nobody ends before the first stop call.
QuietInv ==
    /\ handler # "off" => stops > 0
    /\ \A w \in Workers : w <= totalWorkerCount => W!Started(<<w, 1>>)
    /\ stops = 0 => \A w \in Workers : state[w] # "TERMINATE" /\ pc[<<w, 1>>] # "exited"

DispatchInv == TypeInv /\ PoolInv /\ LostInv /\ WP!ResumeInv /\ ListInv /\ QuietInv

Calm == stops = 0 /\ process = "up" /\ \A w \in Workers : Single(w)

OtherStep ==
    \/ HandlerStep \/ Failure \/ Environment
    \/ \E t \in Threads : ThreadStep(t)
    \/ UNCHANGED vars

-----------------------------------------------------------------------------

LEMMA WorkerInRange ==
    ASSUME TypeInv, PoolInv, NEW w \in Workers, BeingAssigned(w) \/ IsFree(w)
    PROVE  w <= totalWorkerCount
  <1>1. ~(w > totalWorkerCount)
    BY DEF PoolInv, Unborn
  <1>. QED
    BY <1>1, WorkerCountAssumption DEF TypeInv, TypeOK, Workers

\* The places of a worker's threads after a step of one thread.
LEMMA ThreadMoves ==
    ASSUME TypeInv, NEW t \in Threads, ThreadStep(t) \/ FinishReceive(t) \/ Disturbed(t)
    PROVE  /\ \A u \in W!Threads : u # t => pc'[u] = pc[u] /\ held'[u] = held[u]
           /\ \A v \in Workers : v # t[1] =>
                  state'[v] = state[v] /\ receiverSocket'[v] = receiverSocket[v]
           /\ W!Started(t) /\ pc'[t] # "none"
           /\ pc'[t] = "exited" => pc[t] = "exited" \/ state[t[1]] = "TERMINATE"
           /\ state'[t[1]] = "TERMINATE" => state[t[1]] = "TERMINATE"
           /\ \/ receiverSocket' = receiverSocket
              \/ pc[t] = "store"
           /\ UNCHANGED <<ownerVars, totalWorkerCount, handlerVars>>
  BY DEF TypeInv, TypeOK, W!TypeOK, W!Threads, Threads, ThreadStep, FinishReceive, Disturbed,
     CheckPending, PopPending, ReturnFreeWorker, OwnStep, W!CheckPending, W!FetchItem, W!Return,
     W!ReadState, W!CallReceive, W!CallGarbage, W!ReturnFromReceive, W!KeepResumed, W!StoreItem,
     W!GoIdle, W!LeavePause, W!DecideToWait, W!CondWait, W!ReceiveThrows, W!SpuriousWakeup,
     W!Trans, W!Started, poolVars, ownerVars, handlerVars

LEMMA ThreadKeeps ==
    ASSUME TypeInv, PoolInv, ListInv, QuietInv, NEW t \in Threads,
           ThreadStep(t) \/ FinishReceive(t) \/ Disturbed(t)
    PROVE  ListInv' /\ QuietInv'
  <1>1. t \in W!Threads /\ t[1] \in Workers /\ t = <<t[1], t[2]>> /\ t[2] \in {1, 2}
    BY DEF Threads, W!Threads
  <1>2. chosen \in Workers
    BY DEF TypeInv, TypeOK
  <1>3. UNCHANGED <<main, evList, chosen, totalWorkerCount, handler, stops>>
    BY ThreadMoves DEF ownerVars, handlerVars
  <1>4. ASSUME main' = "resume", Single(chosen)'
        PROVE  receiverSocket'[chosen] = Head(evList)
    <2>1. main = "resume" /\ Single(chosen)
      BY <1>1, <1>2, <1>3, <1>4, ThreadMoves, WorkerThreads DEF Single, W!Started
    <2>2. pc[<<chosen, 1>>] # "store"
      BY <1>2, <2>1 DEF PoolInv, Apart, BeingAssigned, Working
    <2>3. t # <<chosen, 2>>
      BY <2>1, ThreadMoves DEF Single
    <2>4. receiverSocket'[chosen] = receiverSocket[chosen]
      BY <1>1, <1>2, <2>2, <2>3, ThreadMoves
    <2>. QED
      BY <2>1, <2>4 DEF ListInv
  <1>5. ListInv'
    BY <1>3, <1>4 DEF ListInv, InLoop, OwnerLabels
  <1>6. ASSUME NEW w \in Workers
        PROVE  /\ W!Started(<<w, 1>>) => W!Started(<<w, 1>>)'
               /\ state'[w] = "TERMINATE" => state[w] = "TERMINATE"
               /\ pc'[<<w, 1>>] = "exited" => pc[<<w, 1>>] = "exited" \/ state[w] = "TERMINATE"
    <2>1. CASE t = <<w, 1>>
      BY <2>1, ThreadMoves DEF W!Started
    <2>2. CASE t # <<w, 1>>
      <3>1. pc'[<<w, 1>>] = pc[<<w, 1>>]
        BY <2>2, ThreadMoves, WorkerThreads
      <3>2. state'[w] = "TERMINATE" => state[w] = "TERMINATE"
        BY <1>1, ThreadMoves
      <3>. QED
        BY <3>1, <3>2 DEF W!Started
    <2>. QED
      BY <2>1, <2>2
  <1>7. QuietInv'
    BY <1>3, <1>6 DEF QuietInv
  <1>. QED
    BY <1>5, <1>7

\* What leaves the threads and states alone.
LEMMA StillQuiet ==
    ASSUME QuietInv, UNCHANGED <<pc, state, totalWorkerCount, handler, stops>>
    PROVE  QuietInv'
  BY DEF QuietInv, W!Started

LEMMA SignalQuiet ==
    ASSUME TypeInv, QuietInv, NEW v \in Workers, W!Signal(v),
           UNCHANGED totalWorkerCount, handler' # "off" => stops' > 0,
           stops' = 0 => stops = 0 /\ \A w \in Workers : state'[w] # "TERMINATE"
    PROVE  QuietInv'
  <1>1. \A w \in Workers : /\ W!Started(<<w, 1>>)' <=> W!Started(<<w, 1>>)
                           /\ pc'[<<w, 1>>] = "exited" => pc[<<w, 1>>] = "exited"
    BY WorkerThreads DEF W!Signal, W!ThreadsOf, W!Threads, W!Started, TypeInv, TypeOK, W!TypeOK
  <1>. QED
    BY <1>1 DEF QuietInv

LEMMA CreateQuiet ==
    ASSUME TypeInv, QuietInv, CreateNewWorker, UNCHANGED <<handler, stops>>
    PROVE  QuietInv'
  <1>. DEFINE new == totalWorkerCount + 1
  <1>1. /\ new \in Workers /\ totalWorkerCount \in Nat /\ totalWorkerCount' = new
        /\ pc' = [pc EXCEPT ![<<new, 1>>] = "run"] /\ UNCHANGED state
    BY WorkerCountAssumption
    DEF CreateNewWorker, W!Create, W!Trans, TypeInv, TypeOK, Workers
  <1>2. ASSUME NEW w \in Workers
        PROVE  /\ w <= totalWorkerCount' => W!Started(<<w, 1>>)'
               /\ pc'[<<w, 1>>] = "exited" => pc[<<w, 1>>] = "exited"
    <2>1. CASE w = new
      BY <1>1, <2>1, WorkerThreads DEF W!Started, TypeInv, TypeOK, W!TypeOK
    <2>2. CASE w # new
      <3>1. pc'[<<w, 1>>] = pc[<<w, 1>>]
        BY <1>1, <2>2, WorkerThreads DEF TypeInv, TypeOK, W!TypeOK
      <3>2. w <= totalWorkerCount' => w <= totalWorkerCount
        BY <1>1, <2>2 DEF Workers
      <3>. QED
        BY <3>1, <3>2 DEF QuietInv, W!Started
    <2>. QED
      BY <2>1, <2>2
  <1>. QED
    BY <1>1, <1>2 DEF QuietInv

LEMMA OwnerKeeps ==
    ASSUME TypeInv, PoolInv, ListInv, QuietInv, OwnerStep
    PROVE  ListInv' /\ QuietInv'
  <1>. USE DEF OwnerAt, OwnerTo, InLoop, OwnerLabels
  <1>1. CASE Construct \/ AddOne
    BY <1>1, CreateQuiet
    DEF Construct, AddOne, AddWorker, handlerVars, ListInv
  <1>2. CASE CreateWorker
    BY <1>2, CreateQuiet DEF CreateWorker, handlerVars, ListInv
  <1>3. CASE Assign
    <2>1. chosen \in Workers
      BY DEF TypeInv, TypeOK
    <2>2. receiverSocket'[chosen] = Head(evList)
      BY <1>3, <2>1 DEF Assign, W!AssignSocket, TypeInv, TypeOK, W!TypeOK
    <2>. QED
      BY <1>3, <2>2, StillQuiet DEF Assign, W!AssignSocket, poolVars, handlerVars, ListInv
  <1>4. CASE ResumeWorker \/ ResumeNewWorker
    <2>1. chosen \in Workers
      BY DEF TypeInv, TypeOK
    <2>2. state' = [state EXCEPT ![chosen] = "RESUME"] /\ W!Signal(chosen)
      BY <1>4 DEF ResumeWorker, ResumeNewWorker, W!Resume
    <2>3. QuietInv'
      BY <1>4, <2>1, <2>2, SignalQuiet
      DEF ResumeWorker, ResumeNewWorker, QuietInv, poolVars, handlerVars, TypeInv, TypeOK, W!TypeOK
    <2>4. ListInv'
      BY <1>4 DEF ResumeWorker, ResumeNewWorker, NextEvent, ListInv
    <2>. QED
      BY <2>3, <2>4
  <1>5. CASE SecondCreate
    <2>1. chosen \in Workers /\ <<chosen, 2>> \in W!Threads
      BY WorkerThreads DEF TypeInv, TypeOK
    <2>2. /\ pc' = [pc EXCEPT ![<<chosen, 2>>] = "run"]
          /\ UNCHANGED <<state, totalWorkerCount, handler, stops>>
      BY <1>5 DEF SecondCreate, W!Create, W!Trans, poolVars, handlerVars
    <2>3. \A w \in Workers : pc'[<<w, 1>>] = pc[<<w, 1>>]
      BY <2>1, <2>2, WorkerThreads DEF TypeInv, TypeOK, W!TypeOK
    <2>4. QuietInv'
      BY <2>2, <2>3 DEF QuietInv, W!Started
    <2>5. ListInv'
      BY <1>5 DEF SecondCreate, NextEvent, ListInv
    <2>. QED
      BY <2>4, <2>5
  <1>6. CASE OwnerLocks \/ TakeFreeWorker \/ NoFreeWorker \/ RecordNewBusyWorker \/ PushPending
             \/ JoinWorker \/ Exit
    <2>1. UNCHANGED <<pc, state, totalWorkerCount, handler, stops>>
      BY <1>6 DEF OwnerLocks, TakeFreeWorker, NoFreeWorker, RecordNewBusyWorker, PushPending,
         JoinWorker, Exit, W!EndProcess, workerVars, poolVars, handlerVars
    <2>2. ListInv'
      BY <1>6 DEF OwnerLocks, TakeFreeWorker, NoFreeWorker, RecordNewBusyWorker, PushPending,
         JoinWorker, Exit, W!EndProcess, NextEvent, workerVars, ownerVars, ListInv, Single,
         W!Started
    <2>. QED
      BY <2>1, <2>2, StillQuiet
  <1>. QED
    BY <1>1, <1>2, <1>3, <1>4, <1>5, <1>6 DEF OwnerStep

LEMMA OtherKeeps ==
    ASSUME TypeInv, PoolInv, ListInv, QuietInv, OtherStep
    PROVE  ListInv' /\ QuietInv'
  <1>. USE DEF OwnerAt, OwnerTo, InLoop, OwnerLabels
  <1>1. CASE HandlerStep
    <2>1. UNCHANGED <<ownerVars, receiverSocket, totalWorkerCount, stops>> /\ handler # "off"
      BY <1>1 DEF HandlerStep, HandlerLocks, HandlerStores, HandlerSignals, W!StoreTerminate,
         W!SignalTerminate, workerVars, poolVars
    <2>2. stops > 0 /\ stops' > 0
      BY <2>1 DEF QuietInv
    <2>3. \A w \in Workers : /\ W!Started(<<w, 1>>)' <=> W!Started(<<w, 1>>)
                             /\ Single(w)' => Single(w)
      <3>1. CASE HandlerSignals
        BY <3>1, WorkerThreads
        DEF HandlerSignals, W!SignalTerminate, W!Signal, W!ThreadsOf, W!Threads, W!Started, Single,
            TypeInv, TypeOK, W!TypeOK
      <3>. QED
        BY <1>1, <3>1 DEF HandlerStep, HandlerLocks, HandlerStores, W!StoreTerminate, workerVars,
           Single, W!Started
    <2>4. chosen \in Workers
      BY DEF TypeInv, TypeOK
    <2>. QED
      <3>1. QuietInv'
        BY <2>1, <2>2, <2>3 DEF QuietInv
      <3>2. UNCHANGED <<main, evList, chosen, receiverSocket>> /\ (Single(chosen)' => Single(chosen))
        BY <2>1, <2>3, <2>4 DEF ownerVars
      <3>3. ListInv'
        BY <3>2 DEF ListInv
      <3>. QED
        BY <3>1, <3>3
  <1>2. CASE \E t \in Threads : ThreadStep(t) \/ Disturbed(t)
    BY <1>2, ThreadKeeps
  <1>3. CASE AddFails \/ CreateFails \/ UseDeleted \/ UNCHANGED vars
    BY <1>3, StillQuiet
    DEF AddFails, CreateFails, UseDeleted, W!EndProcess, vars, workerVars, poolVars, ownerVars,
        handlerVars, ListInv, Single, W!Started
  <1>4. CASE Environment
    <2>1. CASE WakeUpAllThreads \/ InterruptLogging \/ InterruptStop
      <3>1. stops' > 0 /\ UNCHANGED <<workerVars, poolVars, ownerVars>>
        BY <2>1 DEF WakeUpAllThreads, InterruptLogging, InterruptStop, StopCall, TypeInv, TypeOK
      <3>. QED
        BY <3>1 DEF ListInv, QuietInv, workerVars, poolVars, ownerVars, Single, W!Started
    <2>2. CASE ~(WakeUpAllThreads \/ InterruptLogging \/ InterruptStop)
      BY <1>4, <2>2, StillQuiet
      DEF Environment, AddWorkers, OwnerThrows, EnterWait, EnterJoin, ProcessData, W!EndProcess,
          workerVars, poolVars, ownerVars, handlerVars, ListInv, Single, W!Started
    <2>. QED
      BY <2>1, <2>2
  <1>. QED
    BY <1>1, <1>2, <1>3, <1>4 DEF OtherStep, Failure

LEMMA InitDispatch == Init => DispatchInv
  <1>. SUFFICES ASSUME Init
                PROVE  DispatchInv
    OBVIOUS
  <1>1. TypeInv /\ PoolInv /\ WP!ResumeInv
    BY InitTyped, InitPool, SameWorkers, WP!InitResume, SocketsAssumption
  <1>2. LostInv
    BY WorkerCountAssumption DEF Init, Workers, LostInv, Circulates
  <1>3. ListInv
    BY DEF Init, ListInv, InLoop
  <1>4. QuietInv
    <2>1. ASSUME NEW w \in Workers
          PROVE  state[w] = "SLEEP_WAIT" /\ pc[<<w, 1>>] = "none" /\ ~(w <= totalWorkerCount)
      <3>1. state[w] = "SLEEP_WAIT" /\ pc[<<w, 1>>] = "none"
        BY WorkerThreads DEF Init, W!Init
      <3>2. ~(w <= totalWorkerCount)
        BY WorkerCountAssumption DEF Init, Workers
      <3>. QED
        BY <3>1, <3>2
    <2>. QED
      BY <2>1 DEF Init, QuietInv
  <1>. QED
    BY <1>1, <1>2, <1>3, <1>4 DEF DispatchInv

LEMMA NextDispatch == DispatchInv /\ [Next]_vars => DispatchInv'
  <1>. SUFFICES ASSUME DispatchInv, [Next]_vars
                PROVE  DispatchInv'
    OBVIOUS
  <1>. USE DEF DispatchInv
  <1>1. TypeInv' /\ PoolInv' /\ LostInv'
    BY NextTyped, NextPool, NextLost
  <1>2. WP!ResumeInv'
    BY WorkerStep, SameWorkers, WP!NextResume, SocketsAssumption
  <1>3. ListInv' /\ QuietInv'
    BY OwnerKeeps, OtherKeeps, ThreadKeeps DEF Next, OtherStep
  <1>. QED
    BY <1>1, <1>2, <1>3

-----------------------------------------------------------------------------
(* The way of a socket through the dispatcher.                               *)

\* What WillDrain says of one thread.
Drains(t, s) ==
    \/ pc[t] = "receive" /\ held[t] = s
    \/ pc[t] = "call" /\ receiverSocket[t[1]] = s
    \/ pc[t] \in {"run", "pause"} /\ state[t[1]] = "RESUME" /\ receiverSocket[t[1]] = s
    \/ pc[t] = "store" /\ held[t] = s

Accounted(s) == InDispatch(s) \/ s \in pendingItems.swallowed

LEMMA OneThread ==
    ASSUME NEW w \in Workers, Single(w), NEW s
    PROVE  WillDrain(w, s) <=> Drains(<<w, 1>>, s)
  BY DEF WillDrain, Drains, Single, W!Started, W!ThreadsOf

LEMMA DrainIsAccounted ==
    ASSUME NEW w \in Workers, NEW s, Drains(<<w, 1>>, s)'
    PROVE  Accounted(s)'
  <1>1. WillDrain(w, s)'
    BY DEF WillDrain, Drains, W!ThreadsOf
  <1>. QED
    BY <1>1 DEF Accounted, InDispatch

\* Where an accounted socket may be.
LEMMA Places ==
    ASSUME Calm, NEW s, Accounted(s)
    PROVE  \/ \E i \in DOMAIN evList : evList[i] = s
           \/ InPending(s)
           \/ \E w \in Workers : Drains(<<w, 1>>, s)
           \/ s \in pendingItems.swallowed
  BY OneThread DEF Calm, Accounted, InDispatch

\* Threads that have started stay so, and a process that has ended too.
LEMMA StartedStays ==
    ASSUME W!TypeOK, [W!Next]_(W!vars)
    PROVE  /\ \A u \in W!Threads : W!Started(u) => W!Started(u)'
           /\ process' = "up" => process = "up"
  <1>. USE DEF W!TypeOK, W!Started, W!Threads
  <1>1. CASE \E t \in W!Threads : W!ThreadStep(t)
    BY <1>1 DEF W!ThreadStep, W!Progress, W!CheckPending, W!FetchItem, W!Return, W!ReadState,
       W!CallReceive, W!CallGarbage, W!ReturnFromReceive, W!KeepResumed, W!StoreItem, W!GoIdle,
       W!LeavePause, W!DecideToWait, W!CondWait, W!ReceiveThrows, W!SpuriousWakeup, W!Trans
  <1>2. CASE \E w \in Workers : W!Calls(w)
    BY <1>2 DEF W!Calls, W!Create, W!AssignSocket, W!Resume, W!StoreTerminate, W!SignalTerminate,
       W!Signal, W!ThreadsOf, W!Trans
  <1>3. CASE (\E how \in {"aborted", "exited"} : W!EndProcess(how)) \/ UNCHANGED W!vars
    BY <1>3 DEF W!EndProcess, W!vars
  <1>. QED
    BY <1>1, <1>2, <1>3 DEF W!Next

LEMMA CalmBefore ==
    ASSUME TypeInv, [Next]_vars, Calm'
    PROVE  Calm
  <1>1. W!TypeOK
    BY DEF TypeInv, TypeOK
  <1>2. process = "up" /\ \A w \in Workers : Single(w)
    BY <1>1, WorkerStep, StartedStays, WorkerThreads DEF Calm, Single
  <1>3. stops' = stops \/ stops' = stops + 1
    BY DEF Next, OwnerStep, HandlerStep, Failure, Environment, Construct, AddOne, AddWorker,
       OwnerLocks, TakeFreeWorker, NoFreeWorker, CreateWorker, Assign, ResumeWorker,
       ResumeNewWorker, RecordNewBusyWorker, SecondCreate, PushPending, JoinWorker, Exit,
       HandlerLocks, HandlerStores, HandlerSignals, AddFails, CreateFails, UseDeleted, Disturbed,
       AddWorkers, OwnerThrows, EnterWait, EnterJoin, WakeUpAllThreads, InterruptLogging,
       InterruptStop, StopCall, ProcessData, ThreadStep,
       CheckPending, PopPending, ReturnFreeWorker, OwnStep, FinishReceive, vars, handlerVars
  <1>4. stops = 0
    BY <1>3 DEF Calm, TypeInv, TypeOK
  <1>. QED
    BY <1>2, <1>4 DEF Calm

\* A worker the owner has in hand drains nothing.
LEMMA NotDraining ==
    ASSUME PoolInv, NEW w \in Workers, Single(w), BeingAssigned(w), NEW s
    PROVE  ~Drains(<<w, 1>>, s)
  BY DEF PoolInv, Apart, Drains, Working

-----------------------------------------------------------------------------

\* The queue, under a push and a pop.
LEMMA PushAccounts ==
    ASSUME pendingItems \in Q!QueueType, NEW x \in Sockets, Q!Push(x), NEW s,
           s = x \/ InPending(s) \/ s \in pendingItems.swallowed
    PROVE  InPending(s)' \/ s \in pendingItems'.swallowed
  <1>1. CASE pendingItems.overPops > 0
    <2>1. /\ pendingItems'.items = pendingItems.items
          /\ pendingItems'.swallowed = pendingItems.swallowed \cup {x}
      BY <1>1 DEF Q!Push, Q!QueueType
    <2>. QED
      BY <2>1 DEF InPending
  <1>2. CASE ~(pendingItems.overPops > 0)
    <2>1. /\ pendingItems'.items = Append(pendingItems.items, x)
          /\ pendingItems'.swallowed = pendingItems.swallowed
      BY <1>2 DEF Q!Push, Q!QueueType
    <2>2. /\ DOMAIN pendingItems'.items = 1 .. Len(pendingItems.items) + 1
          /\ pendingItems'.items[Len(pendingItems.items) + 1] = x
          /\ \A i \in DOMAIN pendingItems.items :
                /\ i \in DOMAIN pendingItems'.items
                /\ pendingItems'.items[i] = pendingItems.items[i]
          /\ Len(pendingItems.items) + 1 \in DOMAIN pendingItems'.items
      BY <2>1 DEF Q!QueueType
    <2>. QED
      BY <2>1, <2>2 DEF InPending
  <1>. QED
    BY <1>1, <1>2

LEMMA PopAccounts ==
    ASSUME pendingItems \in Q!QueueType, NEW x, Q!Pop(x), NEW s,
           InPending(s) \/ s \in pendingItems.swallowed
    PROVE  s = x \/ InPending(s)' \/ s \in pendingItems'.swallowed
  <1>1. pendingItems'.swallowed = pendingItems.swallowed
    BY DEF Q!Pop, Q!PopItem, Q!PopEmpty, Q!QueueType
  <1>2. ASSUME InPending(s), s # x
        PROVE  InPending(s)'
    <2>. DEFINE items == pendingItems.items
    <2>1. PICK i \in DOMAIN items : items[i] = s
      BY <1>2 DEF InPending
    <2>2. items \in Seq(Sockets) /\ items # <<>>
      BY <2>1 DEF Q!QueueType
    <2>3. x = Head(items) /\ pendingItems'.items = Tail(items)
      BY <2>2 DEF Q!Pop, Q!PopItem, Q!PopEmpty, Q!QueueType
    <2>4. i - 1 \in DOMAIN Tail(items) /\ Tail(items)[i - 1] = s
      BY <1>2, <2>1, <2>2, <2>3
    <2>. QED
      BY <2>3, <2>4 DEF InPending
  <1>. QED
    BY <1>1, <1>2

\* The owner's list, when it goes on to the next event.
LEMMA TailAccounts ==
    ASSUME evList \in Seq(Sockets), evList # <<>>, evList' = Tail(evList), NEW s,
           \E i \in DOMAIN evList : evList[i] = s
    PROVE  s = Head(evList) \/ \E i \in DOMAIN evList' : evList'[i] = s
  <1>1. PICK i \in DOMAIN evList : evList[i] = s
    OBVIOUS
  <1>2. CASE i = 1
    BY <1>1, <1>2
  <1>3. CASE i # 1
    <2>1. i - 1 \in DOMAIN Tail(evList) /\ Tail(evList)[i - 1] = s
      BY <1>1, <1>3
    <2>. QED
      BY <2>1
  <1>. QED
    BY <1>2, <1>3

-----------------------------------------------------------------------------

\* A step of thread t, to the socket its own worker has yet to drain.
LEMMA OwnDrain ==
    ASSUME DispatchInv, Calm, Calm', NEW t \in Threads, NEW w \in Workers, t = <<w, 1>>,
           ThreadStep(t) \/ FinishReceive(t) \/ Disturbed(t), NEW s, Drains(t, s)
    PROVE  Drains(t, s)' \/ (FinishReceive(t) /\ held[t] = s)
  <1>1. t \in W!Threads /\ t[1] = w
    BY DEF Threads
  <1>2. state[w] # "TERMINATE"
    BY DEF DispatchInv, QuietInv, Calm
  <1>3. pc[t] = "store" => state[w] = "RESUME"
    <2>1. W!Started(t) => w <= totalWorkerCount
      <3>1. W!Started(t) => ~(w > totalWorkerCount)
        BY DEF DispatchInv, PoolInv, Unborn
      <3>2. totalWorkerCount \in Nat /\ w \in Nat
        BY WorkerCountAssumption DEF DispatchInv, TypeInv, TypeOK, Workers
      <3>. QED
        BY <3>1, <3>2
    <2>. QED
      BY <1>2, <2>1 DEF DispatchInv, LostInv, Circulates, Calm, Awake, W!Started
  <1>4. pc \in [W!Threads -> W!Labels] /\ held \in [W!Threads -> Sockets \cup {Garbage}]
        /\ receiverSocket \in [Workers -> Sockets \cup {Garbage}]
    BY DEF DispatchInv, TypeInv, TypeOK, W!TypeOK
  <1>5. process' = "up"
    BY DEF Calm
  <1>6. CASE FinishReceive(t)
    BY <1>6 DEF FinishReceive, W!ReturnFromReceive, W!Trans, Drains
  <1>7. CASE Disturbed(t)
    BY <1>1, <1>4, <1>5, <1>7 DEF Disturbed, W!ReceiveThrows, W!SpuriousWakeup, W!Trans, Drains
  <1>8. CASE CheckPending(t) \/ PopPending(t) \/ ReturnFreeWorker(t)
    BY <1>8 DEF CheckPending, PopPending, ReturnFreeWorker, W!CheckPending, W!FetchItem, W!Return,
       W!Trans, Drains
  <1>9. CASE OwnStep(t)
    BY <1>1, <1>2, <1>3, <1>4, <1>5, <1>9
    DEF OwnStep, W!ReadState, W!CallReceive, W!CallGarbage, W!KeepResumed, W!StoreItem, W!GoIdle,
        W!LeavePause, W!DecideToWait, W!CondWait, W!Trans, Drains
  <1>. QED
    BY <1>6, <1>7, <1>8, <1>9 DEF ThreadStep

\* A step of another thread.
LEMMA OthersDrain ==
    ASSUME DispatchInv, Calm, NEW t \in Threads, NEW w \in Workers, t # <<w, 1>>,
           ThreadStep(t) \/ FinishReceive(t) \/ Disturbed(t), NEW s, Drains(<<w, 1>>, s)
    PROVE  Drains(<<w, 1>>, s)'
  <1>1. W!Started(t)
    BY ThreadMoves DEF DispatchInv
  <1>2. t[1] # w
    BY <1>1 DEF Calm, Single, Threads, W!Threads
  <1>3. /\ pc'[<<w, 1>>] = pc[<<w, 1>>] /\ held'[<<w, 1>>] = held[<<w, 1>>]
        /\ state'[w] = state[w] /\ receiverSocket'[w] = receiverSocket[w]
    BY ZenonT(30), <1>2, ThreadMoves, WorkerThreads DEF DispatchInv
  <1>. QED
    BY <1>3 DEF Drains

\* Worker threads lose no socket but the one whose ReceiveData() returns.
LEMMA ThreadDelivers ==
    ASSUME DispatchInv, Calm, Calm', NEW t \in Threads,
           ThreadStep(t) \/ FinishReceive(t) \/ Disturbed(t), NEW s, Accounted(s)
    PROVE  Accounted(s)' \/ (FinishReceive(t) /\ held[t] = s)
  <1>1. UNCHANGED evList
    BY ThreadMoves DEF ownerVars, DispatchInv
  <1>2. CASE \E i \in DOMAIN evList : evList[i] = s
    BY <1>1, <1>2 DEF Accounted, InDispatch
  <1>3. CASE InPending(s) \/ s \in pendingItems.swallowed
    <2>1. CASE PopPending(t)
      <3>1. PICK x \in Sockets \cup {Garbage} : Q!Pop(x) /\ W!FetchItem(t, x)
        BY <2>1 DEF PopPending
      <3>2. CASE s = x
        <4>1. t[1] \in Workers /\ t = <<t[1], 1>>
          BY <3>1 DEF Calm, Single, Threads, W!Threads, W!FetchItem, W!Trans, W!Started
        <4>2. Drains(t, s)'
          BY <3>1, <3>2 DEF W!FetchItem, W!Trans, Drains, DispatchInv, TypeInv, TypeOK, W!TypeOK,
             Threads
        <4>. QED
          BY <4>1, <4>2, DrainIsAccounted
      <3>3. CASE s # x
        BY <1>3, <3>1, <3>3, PopAccounts DEF Accounted, InDispatch, DispatchInv, TypeInv, TypeOK
      <3>. QED
        BY <3>2, <3>3
    <2>2. CASE ~PopPending(t)
      <3>1. UNCHANGED pendingItems
        BY <2>2 DEF ThreadStep, FinishReceive, Disturbed, CheckPending, ReturnFreeWorker, OwnStep
      <3>. QED
        BY <1>3, <3>1 DEF Accounted, InDispatch, InPending
    <2>. QED
      BY <2>1, <2>2
  <1>4. CASE \E w \in Workers : Drains(<<w, 1>>, s)
    <2>1. PICK w \in Workers : Drains(<<w, 1>>, s)
      BY <1>4
    <2>. QED
      BY <2>1, OwnDrain, OthersDrain, DrainIsAccounted
  <1>. QED
    BY <1>2, <1>3, <1>4, Places

\* What touches neither list, queue nor workers loses no socket.
LEMMA StillAccounted ==
    ASSUME Calm, UNCHANGED <<evList, pendingItems, state, receiverSocket, pc, held>>,
           NEW s, Accounted(s)
    PROVE  Accounted(s)'
  BY DEF Accounted, InDispatch, InPending, WillDrain

\* A step that takes the head off the owner's list, if it takes anything, and leaves
\* the queue alone.
LEMMA OwnerAccounts ==
    ASSUME DispatchInv, Calm, UNCHANGED pendingItems,
           \/ UNCHANGED evList
           \/ evList # <<>> /\ evList' = Tail(evList),
           NEW s, Accounted(s),
           \A w \in Workers : Drains(<<w, 1>>, s) => Drains(<<w, 1>>, s)',
           s = Head(evList) /\ evList' # evList => Accounted(s)'
    PROVE  Accounted(s)'
  <1>1. CASE \E i \in DOMAIN evList : evList[i] = s
    <2>1. evList \in Seq(Sockets)
      BY DEF DispatchInv, TypeInv, TypeOK
    <2>. QED
      BY <1>1, <2>1, TailAccounts DEF Accounted, InDispatch
  <1>2. CASE InPending(s) \/ s \in pendingItems.swallowed
    BY <1>2 DEF Accounted, InDispatch, InPending
  <1>3. CASE \E w \in Workers : Drains(<<w, 1>>, s)
    BY <1>3, DrainIsAccounted
  <1>. QED
    BY <1>1, <1>2, <1>3, Places

\* Resume() of the worker the owner has in hand wakes it.
LEMMA ResumeWakes ==
    ASSUME DispatchInv, Calm, NEW w \in Workers, BeingAssigned(w), W!Resume(w)
    PROVE  pc'[<<w, 1>>] \in {"run", "pause"} /\ state'[w] = "RESUME"
  <1>1. /\ <<w, 1>> \in W!Threads /\ <<w, 2>> \in W!Threads
        /\ pc \in [W!Threads -> W!Labels]
        /\ state \in [Workers -> W!States]
        /\ pc[<<w, 2>>] = "none"
    BY WorkerThreads DEF DispatchInv, TypeInv, TypeOK, W!TypeOK, Calm, Single, W!Started
  <1>2. pc[<<w, 1>>] # "none" /\ pc[<<w, 1>>] # "exited"
    BY WorkerInRange DEF DispatchInv, QuietInv, Calm, W!Started
  <1>3. pc[<<w, 1>>] \notin Working
    BY DEF DispatchInv, PoolInv, Apart, Calm
  <1>4. pc[<<w, 1>>] # "towait"
    <2>1. <<w, 1>> \in WP!Threads
      BY <1>1 DEF W!Threads, WP!Threads
    <2>. QED
      BY <2>1 DEF DispatchInv, WP!ResumeInv, WP!WaiterHoldsLock, W!Resume
  <1>5. pc[<<w, 1>>] \in {"run", "pause", "waiting"}
    BY <1>1, <1>2, <1>3, <1>4 DEF W!Labels, Working
  <1>6. pc'[<<w, 1>>] \in {"run", "pause"}
    BY <1>1, <1>5 DEF W!Resume, W!Signal, W!ThreadsOf, W!Threads
  <1>. QED
    BY <1>1, <1>6 DEF W!Resume

\* A signal to worker v leaves what others drain.
LEMMA SignalDrains ==
    ASSUME W!TypeOK, NEW v \in Workers, W!Resume(v), NEW w \in Workers, w # v, NEW s,
           Drains(<<w, 1>>, s)
    PROVE  Drains(<<w, 1>>, s)'
  <1>1. pc'[<<w, 1>>] = pc[<<w, 1>>] /\ state'[w] = state[w]
    BY WorkerThreads DEF W!Resume, W!Signal, W!ThreadsOf, W!Threads, W!TypeOK
  <1>. QED
    BY <1>1 DEF Drains, W!Resume

\* The owner loses no socket on the way from its list to a worker or to the queue.
LEMMA OwnerDelivers ==
    ASSUME DispatchInv, Calm, Calm', OwnerStep, NEW s, Accounted(s)
    PROVE  Accounted(s)'
  <1>. USE DEF OwnerAt, OwnerTo
  <1>1. /\ chosen \in Workers /\ Single(chosen)
        /\ W!TypeOK
        /\ pendingItems \in Q!QueueType
        /\ evList \in Seq(Sockets)
        /\ PoolInv
        /\ main \in InLoop => evList # <<>>
    BY DEF DispatchInv, TypeInv, TypeOK, StackInv, Calm
  <1>2. CASE Construct \/ AddOne \/ CreateWorker
    <2>1. /\ pc[<<totalWorkerCount + 1, 1>>] = "none"
          /\ pc' = [pc EXCEPT ![<<totalWorkerCount + 1, 1>>] = "run"]
          /\ UNCHANGED <<state, receiverSocket, held, evList, pendingItems>>
      BY <1>2 DEF Construct, AddOne, CreateWorker, AddWorker, CreateNewWorker, W!Create, W!Trans
    <2>2. ASSUME NEW w \in Workers, Drains(<<w, 1>>, s)
          PROVE  Drains(<<w, 1>>, s)'
      <3>1. pc[<<w, 1>>] # "none"
        BY <2>2 DEF Drains
      <3>2. pc'[<<w, 1>>] = pc[<<w, 1>>]
        BY <1>1, <2>1, <3>1, WorkerThreads DEF W!TypeOK
      <3>. QED
        BY <2>1, <2>2, <3>2 DEF Drains
    <2>. QED
      BY <2>1, <2>2, OwnerAccounts
  <1>3. CASE Assign
    <2>1. BeingAssigned(chosen)
      BY <1>3 DEF Assign, BeingAssigned
    <2>2. /\ receiverSocket' = [receiverSocket EXCEPT ![chosen] = Head(evList)]
          /\ UNCHANGED <<state, pc, held, evList, pendingItems>>
      BY <1>3 DEF Assign, W!AssignSocket
    <2>3. ASSUME NEW w \in Workers, Drains(<<w, 1>>, s)
          PROVE  Drains(<<w, 1>>, s)'
      <3>1. w # chosen
        BY <1>1, <2>1, <2>3, NotDraining
      <3>. QED
        BY <1>1, <2>2, <2>3, <3>1 DEF Drains, W!TypeOK
    <2>. QED
      BY <2>2, <2>3, OwnerAccounts
  <1>4. CASE ResumeWorker \/ ResumeNewWorker
    <2>1. BeingAssigned(chosen) /\ W!Resume(chosen) /\ UNCHANGED pendingItems
      BY <1>4 DEF ResumeWorker, ResumeNewWorker, BeingAssigned
    <2>2. ASSUME NEW w \in Workers, Drains(<<w, 1>>, s)
          PROVE  Drains(<<w, 1>>, s)'
      <3>1. w # chosen
        BY <1>1, <2>1, <2>2, NotDraining
      <3>. QED
        BY <1>1, <2>1, <2>2, <3>1, SignalDrains
    <2>3. CASE ResumeNewWorker
      BY <2>1, <2>2, <2>3, OwnerAccounts DEF ResumeNewWorker
    <2>4. CASE ResumeWorker
      <3>1. evList # <<>> /\ evList' = Tail(evList) /\ receiverSocket[chosen] = Head(evList)
        BY <1>1, <2>4 DEF ResumeWorker, NextEvent, DispatchInv, ListInv, InLoop, OwnerLabels
      <3>2. s = Head(evList) => Accounted(s)'
        <4>1. PICK w \in Workers : w = chosen
          BY <1>1
        <4>2. receiverSocket' = receiverSocket
          BY <2>1 DEF W!Resume
        <4>3. pc'[<<w, 1>>] \in {"run", "pause"} /\ state'[w] = "RESUME"
          BY <2>1, <4>1, ResumeWakes
        <4>4. s = Head(evList) => Drains(<<w, 1>>, s)'
          BY <3>1, <4>1, <4>2, <4>3 DEF Drains
        <4>. QED
          BY <4>4, DrainIsAccounted
      <3>. QED
        BY <2>1, <2>2, <3>1, <3>2, OwnerAccounts
    <2>. QED
      BY <1>4, <2>3, <2>4
  <1>5. CASE SecondCreate
    <2>1. pc' = [pc EXCEPT ![<<chosen, 2>>] = "run"]
      BY <1>5 DEF SecondCreate, W!Create, W!Trans
    <2>2. pc'[<<chosen, 2>>] = "run"
      BY <1>1, <2>1, WorkerThreads DEF W!TypeOK
    <2>3. Single(chosen)'
      BY <1>1, <1>5 DEF Calm, SecondCreate, NextEvent
    <2>. QED
      BY <1>5, <2>2, <2>3 DEF Single, W!Started, SecondCreate, NextEvent
  <1>6. CASE PushPending
    <2>1. /\ evList # <<>> /\ evList' = Tail(evList)
          /\ Q!Push(Head(evList))
          /\ UNCHANGED <<state, receiverSocket, pc, held>>
      BY <1>1, <1>6 DEF PushPending, NextEvent, workerVars, InLoop, OwnerLabels
    <2>2. CASE s = Head(evList) \/ InPending(s) \/ s \in pendingItems.swallowed
      BY <1>1, <2>1, <2>2, PushAccounts DEF Accounted, InDispatch
    <2>3. CASE s # Head(evList) /\ \E i \in DOMAIN evList : evList[i] = s
      BY <1>1, <2>1, <2>3, TailAccounts DEF Accounted, InDispatch
    <2>4. CASE \E w \in Workers : Drains(<<w, 1>>, s)
      BY <2>1, <2>4, DrainIsAccounted DEF Drains
    <2>. QED
      BY <2>2, <2>3, <2>4, Places
  <1>7. CASE OwnerLocks \/ TakeFreeWorker \/ NoFreeWorker \/ RecordNewBusyWorker
             \/ JoinWorker \/ Exit
    BY <1>7, StillAccounted
    DEF OwnerLocks, TakeFreeWorker, NoFreeWorker, RecordNewBusyWorker, JoinWorker, Exit,
        W!EndProcess, workerVars, poolVars, ownerVars
  <1>. QED
    BY <1>2, <1>3, <1>4, <1>5, <1>6, <1>7 DEF OwnerStep

LEMMA OtherDelivers ==
    ASSUME DispatchInv, Calm, Calm', OtherStep, NEW s, Accounted(s)
    PROVE  Accounted(s)'
  <1>1. CASE HandlerStep
    <2>1. handler # "off"
      BY <1>1 DEF HandlerStep, HandlerLocks, HandlerStores, HandlerSignals
    <2>. QED
      BY <2>1 DEF DispatchInv, QuietInv, Calm
  <1>2. CASE \E t \in Threads : ThreadStep(t) \/ Disturbed(t)
    <2>1. PICK t \in Threads : ThreadStep(t) \/ Disturbed(t)
      BY <1>2
    <2>2. ~FinishReceive(t)
      BY <2>1 DEF FinishReceive, W!ReturnFromReceive, ThreadStep, Disturbed, CheckPending,
         PopPending, ReturnFreeWorker, OwnStep, W!CheckPending, W!FetchItem, W!Return, W!ReadState,
         W!CallReceive, W!CallGarbage, W!KeepResumed, W!StoreItem, W!GoIdle, W!LeavePause,
         W!DecideToWait, W!CondWait, W!ReceiveThrows, W!SpuriousWakeup, W!Trans
    <2>. QED
      BY <2>1, <2>2, ThreadDelivers
  <1>3. CASE AddFails \/ CreateFails \/ UseDeleted \/ UNCHANGED vars
    BY <1>3, StillAccounted
    DEF AddFails, CreateFails, UseDeleted, W!EndProcess, vars, workerVars, ownerVars
  <1>4. CASE Environment
    <2>1. CASE WakeUpAllThreads \/ InterruptLogging \/ InterruptStop
      BY <2>1 DEF WakeUpAllThreads, InterruptLogging, InterruptStop, StopCall, Calm
    <2>2. CASE \E evs \in EventLists : ProcessData(evs)
      <3>1. evList = <<>> /\ UNCHANGED <<pendingItems, workerVars>>
        BY <2>2 DEF ProcessData, OwnerAt, DispatchInv, ListInv, InLoop, OwnerLabels
      <3>2. ~\E i \in DOMAIN evList : evList[i] = s
        BY <3>1
      <3>3. InPending(s) \/ s \in pendingItems.swallowed => Accounted(s)'
        BY <3>1 DEF Accounted, InDispatch, InPending
      <3>4. ASSUME NEW w \in Workers, Drains(<<w, 1>>, s)
            PROVE  Drains(<<w, 1>>, s)'
        BY <3>1, <3>4 DEF Drains, workerVars
      <3>. QED
        BY <3>2, <3>3, <3>4, Places, DrainIsAccounted
    <2>3. CASE OwnerThrows \/ EnterWait \/ EnterJoin \/ \E count \in Workers : AddWorkers(count)
      BY <2>3, StillAccounted
      DEF OwnerThrows, EnterWait, EnterJoin, AddWorkers, OwnerTo, W!EndProcess, workerVars,
         ownerVars
    <2>. QED
      BY <1>4, <2>1, <2>2, <2>3 DEF Environment
  <1>. QED
    BY <1>1, <1>2, <1>3, <1>4 DEF OtherStep, Failure

=============================================================================
