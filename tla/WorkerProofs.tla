---------------------------- MODULE WorkerProofs ----------------------------
(***************************************************************************)
(* What holds of every number of workers and every sequence of calls on    *)
(* them: the control block is well formed and no resume is lost.           *)
(***************************************************************************)
EXTENDS Worker, TLAPS

\* A worker has the threads of its two Create() calls and no other.
LEMMA TwoThreads ==
    ASSUME NEW w \in Workers
    PROVE  /\ ThreadsOf(w) = {<<w, 1>>, <<w, 2>>}
           /\ ThreadsOf(w) \subseteq Threads
  BY DEF ThreadsOf, Threads

\* A thread is a worker and the number of a Create() call.
LEMMA ThreadParts ==
    ASSUME NEW t \in Threads
    PROVE  t[1] \in Workers /\ t[2] \in {1, 2} /\ t = <<t[1], t[2]>>
  BY DEF Threads

-----------------------------------------------------------------------------

\* Each step of a thread keeps the control block well formed.
LEMMA ThreadStepTyped ==
    ASSUME TypeOK, NEW t \in Threads, ThreadStep(t)
    PROVE  TypeOK'
  <1>1. t[1] \in Workers /\ t[2] \in {1, 2}
    BY ThreadParts
  <1>2. CASE ReadState(t)
    BY <1>1, <1>2 DEF TypeOK, ReadState, Trans, Labels
  <1>3. CASE CallReceive(t)
    BY <1>1, <1>3 DEF TypeOK, CallReceive, Trans, Labels
  <1>4. CASE CallGarbage(t)
    BY <1>4 DEF TypeOK, CallGarbage
  <1>5. CASE ReturnFromReceive(t)
    BY <1>5 DEF TypeOK, ReturnFromReceive, Trans, Labels
  <1>6. CASE \E more \in BOOLEAN : CheckPending(t, more)
    BY <1>6 DEF TypeOK, CheckPending, Trans, Labels
  <1>7. CASE KeepResumed(t)
    BY <1>1, <1>7 DEF TypeOK, KeepResumed, Trans, Labels, States
  <1>8. CASE \E s \in Sockets \cup {Garbage} : FetchItem(t, s)
    BY <1>8 DEF TypeOK, FetchItem, Trans, Labels
  <1>9. CASE StoreItem(t)
    BY <1>1, <1>9 DEF TypeOK, StoreItem, Trans, Labels
  <1>10. CASE GoIdle(t)
    BY <1>1, <1>10 DEF TypeOK, GoIdle, Trans, Labels, States
  <1>11. CASE Return(t)
    BY <1>11 DEF TypeOK, Return, Trans, Labels
  <1>12. CASE LeavePause(t)
    BY <1>12 DEF TypeOK, LeavePause, Trans, Labels
  <1>13. CASE DecideToWait(t)
    BY <1>1, <1>13 DEF TypeOK, DecideToWait, Trans, Labels
  <1>14. CASE CondWait(t)
    BY <1>1, <1>14 DEF TypeOK, CondWait, Trans, Labels
  <1>15. CASE ReceiveThrows(t)
    BY <1>15 DEF TypeOK, ReceiveThrows
  <1>16. CASE SpuriousWakeup(t)
    BY <1>16 DEF TypeOK, SpuriousWakeup, Trans, Labels
  <1>. QED
    BY <1>2, <1>3, <1>4, <1>5, <1>6, <1>7, <1>8, <1>9, <1>10, <1>11, <1>12, <1>13, <1>14, <1>15,
       <1>16 DEF ThreadStep, Progress

\* A signal moves at most one thread of the worker, from waiting to pause.
LEMMA SignalTyped ==
    ASSUME NEW w \in Workers, pc \in [Threads -> Labels], Signal(w)
    PROVE  pc' \in [Threads -> Labels]
  BY TwoThreads DEF Signal, Labels

\* Each call on a worker keeps the control block well formed.
LEMMA CallTyped ==
    ASSUME TypeOK, NEW w \in Workers, Calls(w)
    PROVE  TypeOK'
  <1>1. CASE \E k \in {1, 2} : Create(w, k)
    BY <1>1 DEF TypeOK, Create, Trans, Labels
  <1>2. CASE \E s \in Sockets : AssignSocket(w, s)
    BY <1>2 DEF TypeOK, AssignSocket
  <1>3. CASE Resume(w)
    BY <1>3, SignalTyped DEF TypeOK, Resume, States
  <1>4. CASE StoreTerminate(w)
    BY <1>4 DEF TypeOK, StoreTerminate, States
  <1>5. CASE SignalTerminate(w)
    BY <1>5, SignalTyped DEF TypeOK, SignalTerminate
  <1>. QED
    BY <1>1, <1>2, <1>3, <1>4, <1>5 DEF Calls

LEMMA NextTyped == TypeOK /\ [Next]_vars => TypeOK'
  <1>. SUFFICES ASSUME TypeOK, [Next]_vars
                PROVE  TypeOK'
    OBVIOUS
  <1>1. CASE \E how \in {"aborted", "exited"} : EndProcess(how)
    BY <1>1 DEF TypeOK, EndProcess
  <1>2. CASE UNCHANGED vars
    BY <1>2 DEF TypeOK, vars
  <1>. QED
    BY <1>1, <1>2, ThreadStepTyped, CallTyped DEF Next

\* The control block is well formed: its state is one of the three that are
\* ever assigned, its socket pointer a receiver or never written.
THEOREM TypeCorrect == Safety => []TypeOK
  <1>1. Init => TypeOK
    BY DEF Init, TypeOK, States, Labels
  <1>2. TypeOK /\ [Next]_vars => TypeOK'
    BY NextTyped
  <1>. QED
    BY <1>1, <1>2, PTL DEF Safety

-----------------------------------------------------------------------------
(* NoLostResume.  It is not inductive alone: what keeps Resume() from        *)
(* falling between the test in Pause() and the wait is the mutex, so the     *)
(* invariant adds that a thread about to wait holds it.                      *)

WaiterHoldsLock == \A t \in Threads : pc[t] = "towait" => syncLock[t[1]] = t[2]

ResumeInv == TypeOK /\ WaiterHoldsLock /\ NoLostResume

Asleep == {"towait", "waiting"}

\* A thread that moves to a place where it is awake loses no resume, whatever it
\* writes to the state of its own worker.
LEMMA AwakeMove ==
    ASSUME TypeOK, NoLostResume,
           NEW t \in Threads, NEW to \in Labels \ (Asleep \cup {"none", "exited"}),
           pc' = [pc EXCEPT ![t] = to],
           \A w \in Workers : w # t[1] => state'[w] = state[w]
    PROVE  NoLostResume'
  <1>. SUFFICES ASSUME NEW w \in Workers, state'[w] = "RESUME",
                       \E u \in ThreadsOf(w) : Live(u)'
                PROVE  \E u \in ThreadsOf(w) : Live(u)' /\ pc'[u] \notin Asleep
    BY DEF NoLostResume, Asleep
  <1>1. ThreadsOf(w) \subseteq Threads
    BY TwoThreads
  <1>2. pc'[t] = to /\ \A u \in Threads : u # t => pc'[u] = pc[u]
    BY DEF TypeOK
  <1>3. CASE t[1] = w
    <2>1. t \in ThreadsOf(w)
      BY <1>3, ThreadParts, TwoThreads
    <2>. QED
      BY <1>2, <2>1 DEF Live, Asleep
  <1>4. CASE t[1] # w
    <2>1. \A u \in ThreadsOf(w) : u # t
      BY <1>4, TwoThreads
    <2>2. state[w] = "RESUME" /\ \A u \in ThreadsOf(w) : pc'[u] = pc[u]
      BY <1>1, <1>2, <1>4, <2>1
    <2>. QED
      BY <2>2 DEF NoLostResume, Live, Asleep
  <1>. QED
    BY <1>3, <1>4

\* A thread that falls asleep or ends loses no resume while its worker is not
\* resumed, or if it was not awake before.
LEMMA AsleepMove ==
    ASSUME TypeOK, NoLostResume, NEW t \in Threads, NEW to \in Labels,
           pc' = [pc EXCEPT ![t] = to], state' = state, Live(t),
           state[t[1]] # "RESUME" \/ pc[t] \in Asleep
    PROVE  NoLostResume'
  <1>. SUFFICES ASSUME NEW w \in Workers, state[w] = "RESUME",
                       \E u \in ThreadsOf(w) : Live(u)'
                PROVE  \E u \in ThreadsOf(w) : Live(u)' /\ pc'[u] \notin Asleep
    BY DEF NoLostResume, Asleep
  <1>1. ThreadsOf(w) \subseteq Threads
    BY TwoThreads
  <1>2. \A u \in Threads : u # t => pc'[u] = pc[u]
    BY DEF TypeOK
  <1>3. \E u \in ThreadsOf(w) : Live(u)
    BY <1>1, <1>2 DEF Live
  <1>4. PICK u \in ThreadsOf(w) : Live(u) /\ pc[u] \notin Asleep
    BY <1>3 DEF NoLostResume, Asleep
  <1>5. u # t
    BY <1>4, TwoThreads
  <1>. QED
    BY <1>1, <1>2, <1>4, <1>5 DEF Live

\* A signal to any worker loses no resume.
LEMMA SignalAwakes ==
    ASSUME TypeOK, NoLostResume, NEW w \in Workers, Signal(w),
           \A v \in Workers : v # w => state'[v] = state[v],
           state'[w] = state[w] \/ \A t \in ThreadsOf(w) : pc[t] # "towait"
    PROVE  NoLostResume'
  <1>1. CASE \E t \in ThreadsOf(w) : pc' = [pc EXCEPT ![t] = "pause"]
    <2>1. PICK t \in ThreadsOf(w) : pc' = [pc EXCEPT ![t] = "pause"]
      BY <1>1
    <2>2. t \in Threads /\ t[1] = w
      BY TwoThreads
    <2>. QED
      BY <2>1, <2>2, AwakeMove DEF Labels, Asleep
  <1>2. CASE UNCHANGED pc /\ \A t \in ThreadsOf(w) : pc[t] # "waiting"
    <2>. SUFFICES ASSUME NEW v \in Workers, state'[v] = "RESUME",
                         \E u \in ThreadsOf(v) : Live(u)
                  PROVE  \E u \in ThreadsOf(v) : Live(u) /\ pc[u] \notin Asleep
      BY <1>2 DEF NoLostResume, Live, Asleep
    <2>1. CASE state'[v] = state[v]
      BY <2>1 DEF NoLostResume, Asleep
    <2>2. CASE state'[v] # state[v]
      BY <1>2, <2>2 DEF Asleep
    <2>. QED
      BY <2>1, <2>2
  <1>. QED
    BY <1>1, <1>2 DEF Signal

-----------------------------------------------------------------------------

LEMMA ThreadStepResume ==
    ASSUME ResumeInv, NEW t \in Threads, ThreadStep(t)
    PROVE  WaiterHoldsLock' /\ NoLostResume'
  <1>. USE DEF ResumeInv
  <1>1. t[1] \in Workers /\ t[2] \in {1, 2} /\ t = <<t[1], t[2]>>
    BY ThreadParts
  <1>2. ASSUME NEW u \in Threads PROVE u[1] \in Workers /\ u = <<u[1], u[2]>>
    BY ThreadParts
  <1>3. CASE ReadState(t)
    <2>1. CASE state[t[1]] = "TERMINATE" /\ Trans(t, "run", "exited")
      <3>1. NoLostResume'
        BY <1>3, <2>1, AsleepMove DEF ReadState, Trans, Labels, Live
      <3>2. WaiterHoldsLock'
        BY <1>3, <2>1 DEF ReadState, Trans, WaiterHoldsLock, TypeOK
      <3>. QED
        BY <3>1, <3>2
    <2>2. CASE Trans(t, "run", "call") \/ Trans(t, "run", "pause")
      <3>1. NoLostResume'
        BY <1>3, <2>2, AwakeMove DEF ReadState, Trans, Labels, Asleep
      <3>2. WaiterHoldsLock'
        BY <1>3, <2>2 DEF ReadState, Trans, WaiterHoldsLock, TypeOK
      <3>. QED
        BY <3>1, <3>2
    <2>. QED
      BY <1>3, <2>1, <2>2 DEF ReadState
  <1>4. CASE DecideToWait(t)
    <2>1. NoLostResume'
      BY <1>4, AsleepMove DEF DecideToWait, Trans, Labels, Live
    <2>2. ASSUME NEW u \in Threads, pc'[u] = "towait", u # t
          PROVE  syncLock'[u[1]] = u[2]
      <3>1. pc[u] = "towait" /\ syncLock[u[1]] = u[2]
        BY <1>4, <2>2 DEF DecideToWait, Trans, TypeOK, WaiterHoldsLock
      <3>2. u[1] # t[1]
        BY <1>4, <3>1, ThreadParts DEF DecideToWait
      <3>. QED
        BY <1>1, <1>2, <1>4, <3>1, <3>2 DEF DecideToWait, TypeOK
    <2>3. syncLock'[t[1]] = t[2]
      BY <1>1, <1>4 DEF DecideToWait, TypeOK
    <2>. QED
      BY <2>1, <2>2, <2>3 DEF WaiterHoldsLock
  <1>5. CASE CondWait(t)
    <2>1. NoLostResume'
      BY <1>5, AsleepMove DEF CondWait, Trans, Labels, Live, Asleep
    <2>2. WaiterHoldsLock'
      BY <1>1, <1>2, <1>5 DEF CondWait, Trans, WaiterHoldsLock, TypeOK
    <2>. QED
      BY <2>1, <2>2
  <1>6. CASE CallReceive(t) \/ ReturnFromReceive(t) \/ StoreItem(t) \/ Return(t)
             \/ (\E more \in BOOLEAN : CheckPending(t, more))
             \/ (\E s \in Sockets \cup {Garbage} : FetchItem(t, s))
             \/ LeavePause(t) \/ SpuriousWakeup(t) \/ KeepResumed(t) \/ GoIdle(t)
    <2>1. /\ \E to \in Labels \ (Asleep \cup {"none", "exited"}) : pc' = [pc EXCEPT ![t] = to]
          /\ UNCHANGED syncLock
          /\ \A w \in Workers : w # t[1] => state'[w] = state[w]
      BY <1>6 DEF CallReceive, ReturnFromReceive, StoreItem, Return, CheckPending, FetchItem,
         LeavePause, SpuriousWakeup, KeepResumed, GoIdle, Trans, Labels, Asleep, TypeOK
    <2>2. NoLostResume'
      BY <2>1, AwakeMove
    <2>3. WaiterHoldsLock'
      BY <2>1 DEF WaiterHoldsLock, TypeOK, Asleep
    <2>. QED
      BY <2>2, <2>3
  <1>7. CASE CallGarbage(t) \/ ReceiveThrows(t)
    BY <1>7 DEF CallGarbage, ReceiveThrows, WaiterHoldsLock, NoLostResume, Live
  <1>. QED
    BY <1>3, <1>4, <1>5, <1>6, <1>7 DEF ThreadStep, Progress

LEMMA SignalKeepsLock ==
    ASSUME TypeOK, WaiterHoldsLock, NEW w \in Workers, Signal(w), UNCHANGED syncLock
    PROVE  WaiterHoldsLock'
  BY TwoThreads DEF Signal, WaiterHoldsLock, TypeOK

LEMMA CallResume ==
    ASSUME ResumeInv, NEW w \in Workers, Calls(w)
    PROVE  WaiterHoldsLock' /\ NoLostResume'
  <1>. USE DEF ResumeInv
  <1>1. CASE \E k \in {1, 2} : Create(w, k)
    <2>1. PICK k \in {1, 2} : Create(w, k)
      BY <1>1
    <2>2. <<w, k>> \in Threads
      BY DEF Threads
    <2>3. NoLostResume'
      BY <2>1, <2>2, AwakeMove DEF Create, Trans, Labels, Asleep
    <2>4. WaiterHoldsLock'
      BY <2>1, <2>2 DEF Create, Trans, WaiterHoldsLock, TypeOK
    <2>. QED
      BY <2>3, <2>4
  <1>2. CASE \E s \in Sockets : AssignSocket(w, s)
    BY <1>2 DEF AssignSocket, WaiterHoldsLock, NoLostResume, Live
  <1>3. CASE Resume(w)
    <2>1. \A t \in ThreadsOf(w) : pc[t] # "towait"
      BY <1>3, TwoThreads DEF Resume, WaiterHoldsLock
    <2>. QED
      BY <1>3, <2>1, SignalAwakes, SignalKeepsLock DEF Resume, TypeOK
  <1>4. CASE StoreTerminate(w)
    BY <1>4 DEF StoreTerminate, WaiterHoldsLock, NoLostResume, Live, TypeOK
  <1>5. CASE SignalTerminate(w)
    BY <1>5, SignalAwakes, SignalKeepsLock DEF SignalTerminate
  <1>. QED
    BY <1>1, <1>2, <1>3, <1>4, <1>5 DEF Calls

LEMMA InitResume == Init => ResumeInv
  BY DEF Init, ResumeInv, TypeOK, States, Labels, WaiterHoldsLock, NoLostResume

LEMMA NextResume == ResumeInv /\ [Next]_vars => ResumeInv'
  <1>. SUFFICES ASSUME ResumeInv, [Next]_vars
                PROVE  WaiterHoldsLock' /\ NoLostResume'
    BY NextTyped DEF ResumeInv
  <1>1. CASE \E how \in {"aborted", "exited"} : EndProcess(how)
    BY <1>1 DEF EndProcess, ResumeInv, WaiterHoldsLock, NoLostResume, Live
  <1>2. CASE UNCHANGED vars
    BY <1>2 DEF vars, ResumeInv, WaiterHoldsLock, NoLostResume, Live
  <1>. QED
    BY <1>1, <1>2, ThreadStepResume, CallResume DEF Next

\* Under any sequence of calls a worker that is resumed and has threads has one
\* that is awake: the race between Pause() and Resume() is closed by the mutex.
THEOREM ResumeNotLost == Safety => []NoLostResume
  <1>1. ResumeInv => NoLostResume
    BY DEF ResumeInv
  <1>. QED
    BY <1>1, InitResume, NextResume, PTL DEF Safety

=============================================================================
