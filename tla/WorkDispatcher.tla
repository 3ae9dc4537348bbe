--------------------------- MODULE WorkDispatcher ---------------------------
(***************************************************************************)
(* WorkDispatcher (WorkDispatcher.hxx, WorkDispatcher.cxx) together with   *)
(* the workers it owns and the queue of pending sockets.  Three kinds of   *)
(* actor run here:                                                         *)
(*                                                                         *)
(*   - the owner, the one thread that constructs the dispatcher, adds      *)
(*     workers, hands events to ProcessData and joins the threads;         *)
(*   - the worker threads, which come back through OnWorkComplete;         *)
(*   - WakeUpAllThreads.  Its callers, the stop command and the signal     *)
(*     handler, run on the owner's own stack, so while it runs the owner   *)
(*     stands still, whatever mutex it may hold.  So does a stop call that *)
(*     another signal interrupts.                                          *)
(*                                                                         *)
(* A Worker is the number of its slot, from 1: `workers' is then           *)
(* 1 .. totalWorkerCount.                                                  *)
(***************************************************************************)
EXTENDS Naturals, Sequences, FiniteSets

CONSTANTS
    Sockets,            \* the receivers
    Garbage,            \* a pointer never written
    InitialWorkers,     \* the 5 of the constructor
    MaxWorkerThreads,   \* MAX_WORKER_THREADS
    MaxWorkers,         \* bound: Worker objects ever created
    MaxPending,         \* bound: sockets waiting in the queue
    MaxFree,            \* bound: length of the deque of free workers
    MaxOverPops,        \* bound: pops of an empty queue
    MaxStops            \* bound: calls of WakeUpAllThreads

ASSUME SocketsAssumption == Garbage \notin Sockets /\ IsFiniteSet(Sockets)
ASSUME WorkerCountAssumption ==
    /\ {InitialWorkers, MaxWorkerThreads, MaxWorkers} \subseteq Nat \ {0}
    /\ InitialWorkers <= MaxWorkers
    /\ MaxWorkerThreads <= MaxWorkers
ASSUME BoundAssumption == {MaxPending, MaxFree, MaxOverPops, MaxStops} \subseteq Nat

Workers == 1 .. MaxWorkers

VARIABLES
    \* the workers, see Worker.tla
    state, receiverSocket, syncLock, pc, held, process,
    \* the dispatcher
    pendingItems,       \* the queue of sockets no worker was free for
    freeWorkers,        \* the deque of workers to hand out
    busyWorkers,        \* the workers ever handed out: the code never removes one
    totalWorkerCount,   \* the Worker objects created
    dispatchLock,       \* who holds sync_lock: nobody, the owner, or the stop call
    \* the owner's stack
    main,               \* where the owner is
    evList,             \* the events of this ProcessData not dealt with yet
    chosen,             \* its local `worker'
    toAdd,              \* the workers AddWorkers has still to create
    joined,             \* the workers JoinThreads has joined and deleted
    \* WakeUpAllThreads, on top of it
    handler,            \* where the topmost call of it is
    below,              \* the calls under that one, each interrupted before its lock
    hNext,              \* the next worker it terminates
    stops               \* how often it has been called

workerVars == <<state, receiverSocket, syncLock, pc, held, process>>
poolVars == <<freeWorkers, busyWorkers, totalWorkerCount>>
ownerVars == <<main, evList, chosen, toAdd, joined>>
handlerVars == <<handler, below, hNext, stops>>
vars == <<workerVars, pendingItems, poolVars, dispatchLock, ownerVars, handlerVars>>

W == INSTANCE Worker
Q == INSTANCE PendingWorkQueue WITH Items <- Sockets, pendingList <- pendingItems

Threads == W!Threads

OwnerLabels == {"construct", "cli", "add", "wait", "getFree", "inGetFree", "assign",
                "resume", "create", "assignNew", "resumeNew", "record", "inRecord",
                "second", "push", "join"}

TypeOK ==
    /\ W!TypeOK
    /\ pendingItems \in Q!QueueType
    /\ freeWorkers \in Seq(Workers)
    /\ busyWorkers \subseteq Workers
    /\ totalWorkerCount \in 0 .. MaxWorkers
    /\ dispatchLock \in {"free", "owner", "handler"}
    /\ main \in OwnerLabels
    /\ evList \in Seq(Sockets)
    /\ chosen \in Workers
    /\ toAdd \in 0 .. MaxWorkers
    /\ joined \in 0 .. MaxWorkers
    /\ handler \in {"off", "lock", "lockInLog", "store", "signal", "stuck"}
    /\ below \in 0 .. MaxStops
    /\ hNext \in 1 .. MaxWorkers + 1
    /\ stops \in 0 .. MaxStops

Init ==
    /\ W!Init
    /\ Q!QueueInit
    /\ freeWorkers = <<>>
    /\ busyWorkers = {}
    /\ totalWorkerCount = 0
    /\ dispatchLock = "free"
    /\ main = "construct"
    /\ evList = <<>>
    /\ chosen = 1
    /\ toAdd = 0
    /\ joined = 0
    /\ handler = "off"
    /\ below = 0
    /\ hNext = 1
    /\ stops = 0

-----------------------------------------------------------------------------
(* The owner: creating workers. *)

\* The owner runs: the process is up and no stop call stands on its stack.
OwnerAt(label) == process = "up" /\ handler = "off" /\ main = label

\* CreateNewWorker: the thread starts before the worker is on record.
CreateNewWorker ==
    /\ totalWorkerCount < MaxWorkers
    /\ W!Create(totalWorkerCount + 1, 1)
    /\ totalWorkerCount' = totalWorkerCount + 1

\* One round of AddWorkers: the new worker is free.
AddWorker ==
    /\ CreateNewWorker
    /\ freeWorkers' = Append(freeWorkers, totalWorkerCount + 1)
    /\ UNCHANGED <<busyWorkers, pendingItems, dispatchLock, evList, chosen, joined, handlerVars>>

\* The constructor: AddWorkers(5).
Construct ==
    /\ OwnerAt("construct")
    /\ AddWorker
    /\ main' = IF totalWorkerCount + 1 = InitialWorkers THEN "cli" ELSE "construct"
    /\ UNCHANGED toAdd

\* Mutant of AddWorkers: the command interface runs beside the event loop.
AddWorkersAnyTime(count) ==
    /\ OwnerAt("cli") \/ OwnerAt("wait")
    /\ totalWorkerCount + count <= MaxWorkers
    /\ main' = "add"
    /\ toAdd' = count
    /\ UNCHANGED <<workerVars, poolVars, pendingItems, dispatchLock, evList, chosen, joined,
                   handlerVars>>

\* AddWorkers(count) for the CLI; MAX_WORKER_THREADS is not looked at.
AddWorkers(count) ==
    /\ OwnerAt("cli")
    /\ totalWorkerCount + count <= MaxWorkers
    /\ main' = "add"
    /\ toAdd' = count
    /\ UNCHANGED <<workerVars, poolVars, pendingItems, dispatchLock, evList, chosen, joined,
                   handlerVars>>

AddOne ==
    /\ OwnerAt("add")
    /\ AddWorker
    /\ toAdd' = toAdd - 1
    /\ main' = IF toAdd = 1 THEN "cli" ELSE "add"

\* pthread_create fails.  The CLI catches it and goes on with the workers it
\* has; from the constructor or from ProcessData it ends the process.
AddFails ==
    /\ OwnerAt("add")
    /\ main' = "cli"
    /\ toAdd' = 0
    /\ UNCHANGED <<workerVars, poolVars, pendingItems, dispatchLock, evList, chosen, joined,
                   handlerVars>>

CreateFails ==
    /\ OwnerAt("construct") \/ OwnerAt("create") \/ OwnerAt("second")
    /\ W!EndProcess("aborted")
    /\ UNCHANGED <<poolVars, pendingItems, dispatchLock, ownerVars, handlerVars>>

\* What the owner calls before it waits for events throws, and main() catches nothing.
OwnerThrows ==
    /\ OwnerAt("cli")
    /\ W!EndProcess("aborted")
    /\ UNCHANGED <<poolVars, pendingItems, dispatchLock, ownerVars, handlerVars>>

\* The CLI is done with; the owner waits for events from here on.
EnterWait ==
    /\ OwnerAt("cli")
    /\ main' = "wait"
    /\ UNCHANGED <<workerVars, poolVars, pendingItems, dispatchLock, evList, chosen, toAdd, joined,
                   handlerVars>>

-----------------------------------------------------------------------------
(* The owner: ProcessData. *)

ProcessData(evs) ==
    /\ OwnerAt("wait")
    /\ Len(pendingItems.items) + Len(evs) <= MaxPending
    /\ evList' = evs
    /\ main' = "getFree"
    /\ UNCHANGED <<workerVars, poolVars, pendingItems, dispatchLock, chosen, toAdd, joined,
                   handlerVars>>

\* The end of the loop's body.
NextEvent ==
    /\ evList' = Tail(evList)
    /\ main' = IF Tail(evList) = <<>> THEN "wait" ELSE "getFree"
    /\ UNCHANGED <<chosen, toAdd, joined>>

\* The owner moves on and nothing else of its stack changes.
OwnerTo(label) == main' = label /\ UNCHANGED <<evList, toAdd, joined>>

\* scoped_lock in GetFreeWorker and RecordNewBusyWorker.
OwnerLocks ==
    /\ dispatchLock = "free"
    /\ dispatchLock' = "owner"
    /\ \/ OwnerAt("getFree") /\ OwnerTo("inGetFree")
       \/ OwnerAt("record") /\ OwnerTo("inRecord")
    /\ UNCHANGED <<workerVars, poolVars, pendingItems, chosen, handlerVars>>

\* Mutant of TakeFreeWorker: pop_front() is forgotten.
TakeWithoutPop ==
    /\ OwnerAt("inGetFree")
    /\ freeWorkers # <<>>
    /\ chosen' = Head(freeWorkers)
    /\ busyWorkers' = busyWorkers \cup {Head(freeWorkers)}
    /\ dispatchLock' = "free"
    /\ OwnerTo("assign")
    /\ UNCHANGED <<workerVars, freeWorkers, totalWorkerCount, pendingItems, handlerVars>>

\* GetFreeWorker finds one, and unlocks.
TakeFreeWorker ==
    /\ OwnerAt("inGetFree")
    /\ freeWorkers # <<>>
    /\ chosen' = Head(freeWorkers)
    /\ freeWorkers' = Tail(freeWorkers)
    /\ busyWorkers' = busyWorkers \cup {Head(freeWorkers)}
    /\ dispatchLock' = "free"
    /\ OwnerTo("assign")
    /\ UNCHANGED <<workerVars, totalWorkerCount, pendingItems, handlerVars>>

\* GetFreeWorker finds none, and unlocks: spawn a worker, or queue the socket.
NoFreeWorker ==
    /\ OwnerAt("inGetFree")
    /\ freeWorkers = <<>>
    /\ dispatchLock' = "free"
    /\ \/ totalWorkerCount < MaxWorkerThreads /\ OwnerTo("create")
       \/ totalWorkerCount >= MaxWorkerThreads /\ OwnerTo("push")
    /\ UNCHANGED <<workerVars, poolVars, pendingItems, chosen, handlerVars>>

CreateWorker ==
    /\ OwnerAt("create")
    /\ CreateNewWorker
    /\ chosen' = totalWorkerCount + 1
    /\ OwnerTo("assignNew")
    /\ UNCHANGED <<freeWorkers, busyWorkers, pendingItems, dispatchLock, handlerVars>>

Assign ==
    /\ \/ OwnerAt("assign") /\ OwnerTo("resume")
       \/ OwnerAt("assignNew") /\ OwnerTo("resumeNew")
    /\ W!AssignSocket(chosen, Head(evList))
    /\ UNCHANGED <<poolVars, pendingItems, dispatchLock, chosen, handlerVars>>

ResumeWorker ==
    /\ OwnerAt("resume")
    /\ W!Resume(chosen)
    /\ NextEvent
    /\ UNCHANGED <<poolVars, pendingItems, dispatchLock, handlerVars>>

\* Mutant of ResumeNewWorker: the state is written from outside, without the mutex.
ResumeNewFromOutside ==
    /\ OwnerAt("resumeNew")
    /\ state' = [state EXCEPT ![chosen] = "RESUME"]
    /\ W!Signal(chosen)
    /\ OwnerTo("record")
    /\ UNCHANGED <<receiverSocket, syncLock, held, process>>
    /\ UNCHANGED <<poolVars, pendingItems, dispatchLock, chosen, handlerVars>>

ResumeNewWorker ==
    /\ OwnerAt("resumeNew")
    /\ W!Resume(chosen)
    /\ OwnerTo("record")
    /\ UNCHANGED <<poolVars, pendingItems, dispatchLock, chosen, handlerVars>>

RecordNewBusyWorker ==
    /\ OwnerAt("inRecord")
    /\ busyWorkers' = busyWorkers \cup {chosen}
    /\ dispatchLock' = "free"
    /\ OwnerTo("second")
    /\ UNCHANGED <<workerVars, freeWorkers, totalWorkerCount, pendingItems, chosen, handlerVars>>

\* worker->Create() once more, after CreateNewWorker has called it.
SecondCreate ==
    /\ OwnerAt("second")
    /\ W!Create(chosen, 2)
    /\ NextEvent
    /\ UNCHANGED <<poolVars, pendingItems, dispatchLock, handlerVars>>

\* Mutant of PushPending: the socket no worker was free for is dropped.
DropPending ==
    /\ OwnerAt("push")
    /\ NextEvent
    /\ UNCHANGED <<workerVars, poolVars, pendingItems, dispatchLock, handlerVars>>

PushPending ==
    /\ OwnerAt("push")
    /\ Q!Push(Head(evList))
    /\ NextEvent
    /\ UNCHANGED <<workerVars, poolVars, dispatchLock, handlerVars>>

-----------------------------------------------------------------------------
(* The owner: JoinThreads. *)

EnterJoin ==
    /\ OwnerAt("wait")
    /\ OwnerTo("join")
    /\ UNCHANGED <<workerVars, poolVars, pendingItems, dispatchLock, chosen, handlerVars>>

\* GetThreadId(): Create() overwrites it, so only the last thread is known.
LastThread(w) == IF W!Started(<<w, 2>>) THEN <<w, 2>> ELSE <<w, 1>>

\* Mutant of JoinWorker: the thread is not waited for.
DeleteWorker ==
    /\ OwnerAt("join")
    /\ joined < totalWorkerCount
    /\ joined' = joined + 1
    /\ UNCHANGED <<workerVars, poolVars, pendingItems, dispatchLock, main, evList, chosen, toAdd,
                   handlerVars>>

\* Join the worker's last thread, delete the worker.
JoinWorker ==
    /\ OwnerAt("join")
    /\ joined < totalWorkerCount
    /\ pc[LastThread(joined + 1)] = "exited"
    /\ joined' = joined + 1
    /\ UNCHANGED <<workerVars, poolVars, pendingItems, dispatchLock, main, evList, chosen, toAdd,
                   handlerVars>>

\* All are joined: WaitForExit and main() return.
Exit ==
    /\ OwnerAt("join")
    /\ joined = totalWorkerCount
    /\ W!EndProcess("exited")
    /\ UNCHANGED <<poolVars, pendingItems, dispatchLock, ownerVars, handlerVars>>

\* A deleted Worker is used: by a thread of it that was not joined, or by a stop
\* call, which finds it in `workers'.  Undefined: nothing comes of it (the other
\* actions do not look at joined), or the process dies.
UseDeleted ==
    /\ \/ \E t \in Threads : t[1] <= joined /\ pc[t] \notin {"none", "exited", "waiting"}
       \/ handler \in {"store", "signal"} /\ hNext <= joined
    /\ W!EndProcess("aborted")
    /\ UNCHANGED <<poolVars, pendingItems, dispatchLock, ownerVars, handlerVars>>

-----------------------------------------------------------------------------
(* WakeUpAllThreads, on the owner's stack. *)

\* The owner may be inside Log(), where it holds the mutex of the log file: in the
\* command interface, while it creates a worker or a Create() of its throws, and in
\* the destructor of the worker that it has joined.
OwnerMayLog ==
    \/ main \in {"cli", "add", "create", "second"}
    \/ /\ main = "join" /\ joined < totalWorkerCount
       /\ pc[LastThread(joined + 1)] = "exited"

\* Before the constructor returns there is no proxy to stop.
StopCall(label) ==
    /\ process = "up"
    /\ main # "construct"
    /\ stops < MaxStops
    /\ stops' = stops + 1
    /\ handler' = label
    /\ UNCHANGED <<workerVars, poolVars, pendingItems, dispatchLock, ownerVars, hNext>>

WakeUpAllThreads == handler = "off" /\ StopCall("lock") /\ UNCHANGED below

\* A signal comes while the owner logs.
InterruptLogging ==
    handler = "off" /\ OwnerMayLog /\ StopCall("lockInLog") /\ UNCHANGED below

\* A signal comes during a stop call: before its lock, and the call goes on when this
\* one is done; or under its lock, where this one waits for the mutex that its own
\* stack holds.
InterruptStop ==
    \/ handler \in {"lock", "lockInLog"} /\ StopCall(handler) /\ below' = below + 1
    \/ handler \in {"store", "signal"} /\ StopCall("stuck") /\ UNCHANGED below

\* The lock, and FinishAndDie's LOGINF of the first worker, which never returns when
\* it is the interrupted owner that holds the log file's mutex.
HandlerLocks ==
    /\ process = "up"
    /\ dispatchLock = "free"
    /\ dispatchLock' = "handler"
    /\ \/ handler = "lock" /\ handler' = "store"
       \/ handler = "lockInLog" /\ handler' = "stuck"
    /\ hNext' = 1
    /\ UNCHANGED <<workerVars, poolVars, pendingItems, ownerVars, below, stops>>

\* FinishAndDie of worker hNext, its two steps behind its LOGINF.  A worker that logs
\* gives the log file's mutex back, so on top of nobody who logs LOGINF returns.
HandlerStores ==
    /\ handler = "store"
    /\ W!StoreTerminate(hNext)
    /\ handler' = "signal"
    /\ UNCHANGED <<poolVars, pendingItems, dispatchLock, ownerVars, below, hNext, stops>>

\* The call that is done was on top of the owner, or of another call.
LeaveStop ==
    \/ below = 0 /\ handler' = "off" /\ UNCHANGED below
    \/ below > 0 /\ handler' = "lock" /\ below' = below - 1


\* Behind the last worker the mutex is released.
HandlerSignals ==
    /\ handler = "signal"
    /\ W!SignalTerminate(hNext)
    /\ hNext' = hNext + 1
    /\ \/ hNext # totalWorkerCount /\ handler' = "store" /\ UNCHANGED <<dispatchLock, below>>
       \/ hNext = totalWorkerCount /\ dispatchLock' = "free" /\ LeaveStop
    /\ UNCHANGED <<poolVars, pendingItems, ownerVars, stops>>

-----------------------------------------------------------------------------
(* The worker threads.  OnWorkComplete is the only code of theirs that      *)
(* touches the dispatcher.                                                  *)

CheckPending(t) ==
    /\ W!CheckPending(t, Q!CountIsPositive)
    /\ UNCHANGED <<poolVars, pendingItems, dispatchLock, ownerVars, handlerVars>>

PopPending(t) ==
    /\ \E s \in Sockets \cup {Garbage} : Q!Pop(s) /\ W!FetchItem(t, s)
    /\ UNCHANGED <<poolVars, dispatchLock, ownerVars, handlerVars>>

\* Mutants of ReturnFreeWorker: nothing is pushed; the slot is counted from 0.
ReturnWithoutPush(t) ==
    /\ dispatchLock = "free"
    /\ W!Return(t)
    /\ UNCHANGED <<poolVars, pendingItems, dispatchLock, ownerVars, handlerVars>>
ReturnSlotFromZero(t) ==
    /\ dispatchLock = "free"
    /\ Len(freeWorkers) < MaxFree
    /\ W!Return(t)
    /\ freeWorkers' = Append(freeWorkers, t[1] - 1)
    /\ UNCHANGED <<busyWorkers, totalWorkerCount, pendingItems, dispatchLock, ownerVars,
                   handlerVars>>

\* MaxFree cuts off what only a worker with two threads does: each of its
\* threads returns it, and the deque grows without end.
ReturnFreeWorker(t) ==
    /\ dispatchLock = "free"
    /\ Len(freeWorkers) < MaxFree
    /\ W!Return(t)
    /\ freeWorkers' = Append(freeWorkers, t[1])
    /\ UNCHANGED <<busyWorkers, totalWorkerCount, pendingItems, dispatchLock, ownerVars,
                   handlerVars>>

\* The steps of a thread inside the Worker class.
OwnStep(t) ==
    /\ \/ W!ReadState(t) \/ W!CallReceive(t) \/ W!CallGarbage(t) \/ W!KeepResumed(t)
       \/ W!StoreItem(t) \/ W!GoIdle(t) \/ W!LeavePause(t) \/ W!DecideToWait(t) \/ W!CondWait(t)
    /\ UNCHANGED <<poolVars, pendingItems, dispatchLock, ownerVars, handlerVars>>

FinishReceive(t) ==
    /\ W!ReturnFromReceive(t)
    /\ UNCHANGED <<poolVars, pendingItems, dispatchLock, ownerVars, handlerVars>>

\* What may happen to a thread, but need not.
Disturbed(t) ==
    /\ W!ReceiveThrows(t) \/ W!SpuriousWakeup(t)
    /\ UNCHANGED <<poolVars, pendingItems, dispatchLock, ownerVars, handlerVars>>

-----------------------------------------------------------------------------

\* epoll_wait reports a descriptor once, in any order.
EventLists ==
    {evs \in UNION {[1 .. n -> Sockets] : n \in 1 .. Cardinality(Sockets)} :
        \A i, j \in DOMAIN evs : evs[i] = evs[j] => i = j}

OwnerStep ==
    \/ Construct \/ AddOne
    \/ OwnerLocks \/ TakeFreeWorker \/ NoFreeWorker \/ CreateWorker \/ Assign
    \/ ResumeWorker \/ ResumeNewWorker \/ RecordNewBusyWorker \/ SecondCreate \/ PushPending
    \/ JoinWorker \/ Exit

HandlerStep == HandlerLocks \/ HandlerStores \/ HandlerSignals

ThreadStep(t) ==
    CheckPending(t) \/ PopPending(t) \/ ReturnFreeWorker(t) \/ OwnStep(t)

Failure == AddFails \/ CreateFails \/ UseDeleted \/ \E t \in Threads : Disturbed(t)

\* What the users of the dispatcher decide: MddProxy.tla has the real ones.
Environment ==
    \/ \E count \in Workers : AddWorkers(count)
    \/ OwnerThrows \/ EnterWait \/ EnterJoin
    \/ WakeUpAllThreads \/ InterruptLogging \/ InterruptStop
    \/ \E evs \in EventLists : ProcessData(evs)

Next ==
    \/ OwnerStep \/ HandlerStep \/ Failure \/ Environment
    \/ \E t \in Threads : ThreadStep(t) \/ FinishReceive(t)

Spec == Init /\ [][Next]_vars

-----------------------------------------------------------------------------
(* Properties.  A worker that the second Create() of ProcessData has given  *)
(* two threads keeps none of these; see the run spawned_worker.             *)

Single(w) == ~W!Started(<<w, 2>>)

\* The labels between reading RESUME and being back in Run()'s loop.
Working == {"call", "receive", "complete", "keep", "fetch", "store", "idle", "return"}

IsFree(w) == \E i \in DOMAIN freeWorkers : freeWorkers[i] = w

\* The owner has taken worker w, or just created it, and not yet resumed it.
BeingAssigned(w) == chosen = w /\ main \in {"assign", "resume", "assignNew", "resumeNew"}

\* No worker is in the deque of free workers twice: ProcessData would hand it
\* two sockets and the first would be forgotten.
FreeOnce ==
    \A i, j \in DOMAIN freeWorkers :
        freeWorkers[i] = freeWorkers[j] /\ Single(freeWorkers[i]) => i = j

\* ProcessData writes the socket of a worker without a lock: whenever it may,
\* the worker's thread is outside ReceiveData() and OnWorkComplete() and will
\* not enter them before Resume().
ExclusiveAssignment ==
    \A w \in Workers :
        Single(w) /\ (IsFree(w) \/ BeingAssigned(w)) =>
            state[w] # "RESUME" /\ pc[<<w, 1>>] \notin Working

\* No worker drops out of circulation: unless told to terminate, each is free,
\* being assigned, resumed, or on its way through its work.
NoWorkerLost ==
    \A w \in 1 .. totalWorkerCount :
        Single(w) =>
            \/ IsFree(w) \/ BeingAssigned(w)
            \/ state[w] \in {"RESUME", "TERMINATE"}
            \/ pc[<<w, 1>>] \in Working

\* AddWorkers pushes to the deque of free workers, and counts them, without the mutex
\* under which ReturnFreeWorker pushes: while it does, and until the event loop runs,
\* no thread is on its way to ReturnFreeWorker, whatever stop calls come meanwhile.
PushIsAlone ==
    main \in {"construct", "cli", "add"} => \A t \in Threads : pc[t] \notin Working

\* Some thread of worker w is bound to drain socket s after this moment.
WillDrain(w, s) ==
    \E t \in W!ThreadsOf(w) :
        \/ pc[t] = "receive" /\ held[t] = s
        \/ pc[t] = "call" /\ receiverSocket[w] = s
        \/ pc[t] \in {"run", "pause"} /\ state[w] = "RESUME" /\ receiverSocket[w] = s
        \/ pc[t] = "store" /\ held[t] = s

InPending(s) == \E i \in DOMAIN pendingItems.items : pendingItems.items[i] = s

\* Socket s is on the owner's list, in the queue, or with a worker that has yet to
\* drain it.
InDispatch(s) ==
    \/ \E i \in DOMAIN evList : evList[i] = s
    \/ InPending(s)
    \/ \E w \in Workers : WillDrain(w, s)

\* Seen from one worker, the dispatcher calls it only in ways Worker.tla allows:
\* what holds of a worker under any calls (NoLostResume) holds here.
WorkerSpec == W!Safety

=============================================================================
