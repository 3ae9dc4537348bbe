------------------------------- MODULE Worker -------------------------------
(***************************************************************************)
(* The Worker class (Worker.hxx, Worker.cxx): a control block that the     *)
(* dispatcher writes and the worker's own pthread reads.                   *)
(*                                                                         *)
(* Create() may be called twice on one Worker (WorkDispatcher::ProcessData *)
(* does), and then two threads run Run() on the same control block, mutex  *)
(* and condition variable: thread <<w, k>> is the one the k-th Create() of *)
(* worker w starts.                                                        *)
(*                                                                         *)
(* pc[t] is where thread t stands in Run(), Pause() or, between "complete" *)
(* and "return", in WorkDispatcher::OnWorkComplete.  The calls other       *)
(* threads make on a Worker (Create, the write of the socket, Resume,      *)
(* FinishAndDie) may come here at any time; WorkDispatcher.tla says when.  *)
(*                                                                         *)
(* SLEEP_TIME is tested in Pause() and in Run(), but nothing ever assigns  *)
(* it, so a sleeping worker is one in SLEEP_WAIT.                          *)
(***************************************************************************)
EXTENDS Naturals

CONSTANTS
    Workers,    \* the Worker objects
    Sockets,    \* the ReceiverSocket objects
    Garbage     \* the value of a socket pointer never written

ASSUME SocketAssumption == Garbage \notin Sockets

VARIABLES
    state,          \* state[w]: myControlSlot->state
    receiverSocket, \* receiverSocket[w]: myControlSlot->receiverSocket
    syncLock,       \* syncLock[w]: the k of the thread that holds sync_lock, or 0
    pc,             \* pc[t]: where thread t is
    held,           \* held[t]: the socket in a frame of thread t, else Garbage
    process         \* whether the process still runs

vars == <<state, receiverSocket, syncLock, pc, held, process>>

Threads == Workers \X {1, 2}
ThreadsOf(w) == {w} \X {1, 2}

States == {"SLEEP_WAIT", "RESUME", "TERMINATE"}
Labels == {"none", "run", "call", "receive", "complete", "keep", "fetch", "store",
           "idle", "return", "pause", "towait", "waiting", "exited"}

TypeOK ==
    /\ state \in [Workers -> States]
    /\ receiverSocket \in [Workers -> Sockets \cup {Garbage}]
    /\ syncLock \in [Workers -> {0, 1, 2}]
    /\ pc \in [Threads -> Labels]
    /\ held \in [Threads -> Sockets \cup {Garbage}]
    /\ process \in {"up", "aborted", "exited"}

Init ==
    /\ state = [w \in Workers |-> "SLEEP_WAIT"]
    /\ receiverSocket = [w \in Workers |-> Garbage]
    /\ syncLock = [w \in Workers |-> 0]
    /\ pc = [t \in Threads |-> "none"]
    /\ held = [t \in Threads |-> Garbage]
    /\ process = "up"

Started(t) == pc[t] # "none"
Live(t) == pc[t] \notin {"none", "exited"}

-----------------------------------------------------------------------------
(* The worker's own threads. *)

Trans(t, from, to) ==
    /\ process = "up"
    /\ pc[t] = from
    /\ pc' = [pc EXCEPT ![t] = to]

\* One round of the chain of tests in Run().  The tests read the state one
\* after the other and without the lock; the branch taken is decided by one of
\* those reads, and that read is this step.
ReadState(t) ==
    /\ \/ state[t[1]] = "RESUME" /\ Trans(t, "run", "call")
       \/ state[t[1]] = "SLEEP_WAIT" /\ Trans(t, "run", "pause")
       \/ state[t[1]] = "TERMINATE" /\ Trans(t, "run", "exited")
    /\ UNCHANGED <<state, receiverSocket, syncLock, held, process>>

\* Loads the socket pointer and enters its ReceiveData().
CallReceive(t) ==
    /\ receiverSocket[t[1]] # Garbage
    /\ Trans(t, "call", "receive")
    /\ held' = [held EXCEPT ![t] = receiverSocket[t[1]]]
    /\ UNCHANGED <<state, receiverSocket, syncLock, process>>

\* A virtual call through a pointer never written takes the process down.
CallGarbage(t) ==
    /\ process = "up"
    /\ pc[t] = "call"
    /\ receiverSocket[t[1]] = Garbage
    /\ process' = "aborted"
    /\ UNCHANGED <<state, receiverSocket, syncLock, pc, held>>

\* ReceiveData() has found its socket drained.
ReturnFromReceive(t) ==
    /\ Trans(t, "receive", "complete")
    /\ held' = [held EXCEPT ![t] = Garbage]
    /\ UNCHANGED <<state, receiverSocket, syncLock, process>>

\* A sendto() failed: the exception leaves the thread, hence the process.
ReceiveThrows(t) ==
    /\ process = "up"
    /\ pc[t] = "receive"
    /\ process' = "aborted"
    /\ UNCHANGED <<state, receiverSocket, syncLock, pc, held>>

\* OnWorkComplete, its test of the pending queue: work is left, or is not.
CheckPending(t, more) ==
    /\ \/ more /\ Trans(t, "complete", "keep")
       \/ ~more /\ Trans(t, "complete", "idle")
    /\ UNCHANGED <<state, receiverSocket, syncLock, held, process>>

\* OnWorkComplete, work is left: the state is written before the pop.
KeepResumed(t) ==
    /\ Trans(t, "keep", "fetch")
    /\ state' = [state EXCEPT ![t[1]] = "RESUME"]
    /\ UNCHANGED <<receiverSocket, syncLock, held, process>>

FetchItem(t, s) ==
    /\ Trans(t, "fetch", "store")
    /\ held' = [held EXCEPT ![t] = s]
    /\ UNCHANGED <<state, receiverSocket, syncLock, process>>

\* Mutant of StoreItem: the socket popped is not stored.
StoreItemForgotten(t) ==
    /\ Trans(t, "store", "run")
    /\ held' = [held EXCEPT ![t] = Garbage]
    /\ UNCHANGED <<state, receiverSocket, syncLock, process>>

StoreItem(t) ==
    /\ Trans(t, "store", "run")
    /\ receiverSocket' = [receiverSocket EXCEPT ![t[1]] = held[t]]
    /\ held' = [held EXCEPT ![t] = Garbage]
    /\ UNCHANGED <<state, syncLock, process>>

\* Mutants of GoIdle: the other sleep state is stored; none is stored.
GoIdleTimed(t) ==
    /\ Trans(t, "idle", "return")
    /\ state' = [state EXCEPT ![t[1]] = "SLEEP_TIME"]
    /\ UNCHANGED <<receiverSocket, syncLock, held, process>>
GoIdleResumed(t) ==
    /\ Trans(t, "idle", "return")
    /\ UNCHANGED <<state, receiverSocket, syncLock, held, process>>

\* OnWorkComplete, no work left.
GoIdle(t) ==
    /\ Trans(t, "idle", "return")
    /\ state' = [state EXCEPT ![t[1]] = "SLEEP_WAIT"]
    /\ UNCHANGED <<receiverSocket, syncLock, held, process>>

\* OnWorkComplete's call of ReturnFreeWorker.
Return(t) ==
    /\ Trans(t, "return", "run")
    /\ UNCHANGED <<state, receiverSocket, syncLock, held, process>>

\* Pause(): with the mutex taken, test the state.  Not asleep: unlock and
\* leave.  Asleep: go on to wait, the mutex still taken.
LeavePause(t) ==
    /\ syncLock[t[1]] = 0
    /\ state[t[1]] # "SLEEP_WAIT"
    /\ Trans(t, "pause", "run")
    /\ UNCHANGED <<state, receiverSocket, syncLock, held, process>>

DecideToWait(t) ==
    /\ syncLock[t[1]] = 0
    /\ state[t[1]] = "SLEEP_WAIT"
    /\ Trans(t, "pause", "towait")
    /\ syncLock' = [syncLock EXCEPT ![t[1]] = t[2]]
    /\ UNCHANGED <<state, receiverSocket, held, process>>

\* pthread_cond_wait: release the mutex and wait, in one step.
CondWait(t) ==
    /\ Trans(t, "towait", "waiting")
    /\ syncLock' = [syncLock EXCEPT ![t[1]] = 0]
    /\ UNCHANGED <<state, receiverSocket, held, process>>

\* A wait may return without a signal.
SpuriousWakeup(t) ==
    /\ Trans(t, "waiting", "pause")
    /\ UNCHANGED <<state, receiverSocket, syncLock, held, process>>

-----------------------------------------------------------------------------
(* What other threads call on a Worker. *)

\* Create(): the k-th one starts thread <<w, k>>.
Create(w, k) ==
    /\ k = 2 => Started(<<w, 1>>)
    /\ Trans(<<w, k>>, "none", "run")
    /\ UNCHANGED <<state, receiverSocket, syncLock, held, process>>

\* GetParams()->receiverSocket = s, without the lock.
AssignSocket(w, s) ==
    /\ process = "up"
    /\ receiverSocket' = [receiverSocket EXCEPT ![w] = s]
    /\ UNCHANGED <<state, syncLock, pc, held, process>>

\* pthread_cond_signal: wakes one of the threads that wait, if any does.
Signal(w) ==
    LET waiters == {t \in ThreadsOf(w) : pc[t] = "waiting"}
    IN  \/ waiters = {} /\ UNCHANGED pc
        \/ \E t \in waiters : pc' = [pc EXCEPT ![t] = "pause"]

\* Mutants of Resume: without the mutex; without the signal.
ResumeUnlocked(w) ==
    /\ process = "up"
    /\ state' = [state EXCEPT ![w] = "RESUME"]
    /\ Signal(w)
    /\ UNCHANGED <<receiverSocket, syncLock, held, process>>
ResumeUnsignalled(w) ==
    /\ process = "up"
    /\ syncLock[w] = 0
    /\ state' = [state EXCEPT ![w] = "RESUME"]
    /\ UNCHANGED <<receiverSocket, syncLock, pc, held, process>>

\* Resume(): write and signal under the mutex.
Resume(w) ==
    /\ process = "up"
    /\ syncLock[w] = 0
    /\ state' = [state EXCEPT ![w] = "RESUME"]
    /\ Signal(w)
    /\ UNCHANGED <<receiverSocket, syncLock, held, process>>

\* Mutant of StoreTerminate: the wrong state.
StoreSleep(w) ==
    /\ process = "up"
    /\ state' = [state EXCEPT ![w] = "SLEEP_TIME"]
    /\ UNCHANGED <<receiverSocket, syncLock, pc, held, process>>

\* FinishAndDie(): write, then signal, without the mutex.  Whether the log file's mutex,
\* which its LOGINF takes first, can be had is the caller's: see WorkDispatcher.tla.
StoreTerminate(w) ==
    /\ process = "up"
    /\ state' = [state EXCEPT ![w] = "TERMINATE"]
    /\ UNCHANGED <<receiverSocket, syncLock, pc, held, process>>

SignalTerminate(w) ==
    /\ process = "up"
    /\ Signal(w)
    /\ UNCHANGED <<state, receiverSocket, syncLock, held, process>>

\* The process ends: main() returns, or an exception leaves it.
EndProcess(how) ==
    /\ process = "up"
    /\ process' = how
    /\ UNCHANGED <<state, receiverSocket, syncLock, pc, held>>

-----------------------------------------------------------------------------

\* The steps the scheduler owes a thread.
Progress(t) ==
    \/ ReadState(t) \/ CallReceive(t) \/ CallGarbage(t) \/ ReturnFromReceive(t)
    \/ \E more \in BOOLEAN : CheckPending(t, more)
    \/ KeepResumed(t)
    \/ \E s \in Sockets \cup {Garbage} : FetchItem(t, s)
    \/ StoreItem(t) \/ GoIdle(t) \/ Return(t)
    \/ LeavePause(t) \/ DecideToWait(t) \/ CondWait(t)

ThreadStep(t) == Progress(t) \/ ReceiveThrows(t) \/ SpuriousWakeup(t)

Calls(w) ==
    \/ \E k \in {1, 2} : Create(w, k)
    \/ \E s \in Sockets : AssignSocket(w, s)
    \/ Resume(w) \/ StoreTerminate(w) \/ SignalTerminate(w)

Next ==
    \/ \E t \in Threads : ThreadStep(t)
    \/ \E w \in Workers : Calls(w)
    \/ \E how \in {"aborted", "exited"} : EndProcess(how)

Safety == Init /\ [][Next]_vars

Spec == Safety /\ \A t \in Threads : WF_vars(Progress(t))

-----------------------------------------------------------------------------

\* A resume is never lost to the race between the test in Pause() and the wait:
\* while a worker is resumed and has threads, one of them is neither waiting nor
\* about to wait.  This is what Resume() takes the mutex for.
NoLostResume ==
    \A w \in Workers :
        (state[w] = "RESUME" /\ \E t \in ThreadsOf(w) : Live(t)) =>
            \E t \in ThreadsOf(w) : Live(t) /\ pc[t] \notin {"towait", "waiting"}

\* A resumed worker gets to call ReceiveData(), unless its state is written over
\* first, its threads are gone or the process ends.
ResumeIsObserved ==
    \A w \in Workers :
        state[w] = "RESUME" ~>
            \/ state[w] # "RESUME"
            \/ \A t \in ThreadsOf(w) : ~Live(t)
            \/ \E t \in ThreadsOf(w) : pc[t] = "call"
            \/ process # "up"

=============================================================================
