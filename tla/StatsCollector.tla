--------------------------- MODULE StatsCollector ---------------------------
(***************************************************************************)
(* The StatsCollector of each socket and the StatsWriter that reads them   *)
(* all (StatsCollector.cxx, StatsWriter.cxx).  Neither takes a lock.       *)
(*                                                                         *)
(* ReportBytes() is `intvlBytesTrns += n' on a 32-bit counter: a load and  *)
(* a store, between which others may touch the counter.                    *)
(* GetStatsInPrevPeriod() adds the counter to the total and then clears    *)
(* it, two steps as well.  An access is open between its two steps.  The   *)
(* figures it returns are only printed, and left out, but for the division *)
(* that computes the rate.                                                 *)
(***************************************************************************)
EXTENDS Naturals

CONSTANTS
    Reporters,      \* the threads that call ReportBytes()
    NumCollectors,  \* the collectors are 0 .. NumCollectors - 1
    CounterSize,    \* 2^32
    Frequency       \* the seconds between two reports, after the cast to uint16_t

VARIABLES
    intvlBytesTrns,     \* intvlBytesTrns[c]: bytes since the last report
    totalBytesTrns,     \* totalBytesTrns[c]: bytes up to the last report
    loaded,             \* loaded[t]: the access reporter t has open, as a set of at most one
    writer,             \* where the writer thread is
    at,                 \* the collector the writer is at
    timed,              \* whether intvlStart is set: the writer has been through the collectors
    writeStats,         \* StatsWriter::writeStats
    raced               \* history, raced[c]: two accesses of c were open at once

statsVars == <<intvlBytesTrns, totalBytesTrns, loaded, writer, at, timed, writeStats, raced>>

Collectors == 0 .. NumCollectors - 1
Values == 0 .. CounterSize - 1
Access == [collector : Collectors, value : Values]

StatsTypeOK ==
    /\ intvlBytesTrns \in [Collectors -> Values]
    /\ totalBytesTrns \in [Collectors -> Nat]
    /\ loaded \in [Reporters -> {{}} \cup {{a} : a \in Access}]
    /\ writer \in {"off", "sleep", "read", "clear"}
    /\ at \in Collectors
    /\ timed \in BOOLEAN
    /\ writeStats \in BOOLEAN
    /\ raced \in [Collectors -> BOOLEAN]

StatsInit ==
    /\ intvlBytesTrns = [c \in Collectors |-> 0]
    /\ totalBytesTrns = [c \in Collectors |-> 0]
    /\ loaded = [t \in Reporters |-> {}]
    /\ writer = "off"
    /\ at = 0
    /\ timed = FALSE
    /\ writeStats = FALSE
    /\ raced = [c \in Collectors |-> FALSE]

\* Some access of collector c is open.
Touched(c) ==
    \/ \E t \in Reporters : \E a \in loaded[t] : a.collector = c
    \/ writer = "clear" /\ at = c

Open(c) == raced' = [raced EXCEPT ![c] = @ \/ Touched(c)]

-----------------------------------------------------------------------------

\* ReportBytes() of collector c, its two steps.
Load(t, c) ==
    /\ loaded[t] = {}
    /\ loaded' = [loaded EXCEPT ![t] = {[collector |-> c, value |-> intvlBytesTrns[c]]}]
    /\ Open(c)
    /\ UNCHANGED <<intvlBytesTrns, totalBytesTrns, writer, at, timed, writeStats>>

Store(t, n) ==
    /\ \E a \in loaded[t] :
          intvlBytesTrns' = [intvlBytesTrns EXCEPT ![a.collector] = (a.value + n) % CounterSize]
    /\ loaded' = [loaded EXCEPT ![t] = {}]
    /\ UNCHANGED <<totalBytesTrns, writer, at, timed, writeStats, raced>>

\* StatsWriter::Start(): its caller waits for the thread to end, so there is one.  There
\* is none when pthread_create fails, which leaves writeStats set, and none for long when
\* a Stop() comes before the thread has tested writeStats once.
StartStats ==
    /\ writer = "off"
    /\ \/ writer' = "sleep" /\ writeStats' = TRUE
       \/ UNCHANGED writer /\ writeStats' \in BOOLEAN
    /\ UNCHANGED <<intvlBytesTrns, totalBytesTrns, loaded, at, timed, raced>>

StopStats ==
    /\ writeStats
    /\ writeStats' = FALSE
    /\ UNCHANGED <<intvlBytesTrns, totalBytesTrns, loaded, writer, at, timed, raced>>

\* The writer wakes up to read all collectors; it looks at writeStats after that.
WakeUp ==
    /\ writer = "sleep"
    /\ writer' = "read"
    /\ at' = 0
    /\ UNCHANGED <<intvlBytesTrns, totalBytesTrns, loaded, timed, writeStats, raced>>

\* Mutant of AddToTotal: the total is set, not added to.
SetTotal ==
    /\ writer = "read"
    /\ writer' = "clear"
    /\ totalBytesTrns' = [totalBytesTrns EXCEPT ![at] = intvlBytesTrns[at]]
    /\ Open(at)
    /\ UNCHANGED <<intvlBytesTrns, loaded, at, timed, writeStats>>

\* GetStatsInPrevPeriod(): the time and the total.
AddToTotal ==
    /\ writer = "read"
    /\ writer' = "clear"
    /\ totalBytesTrns' = [totalBytesTrns EXCEPT ![at] = @ + intvlBytesTrns[at]]
    /\ Open(at)
    /\ UNCHANGED <<intvlBytesTrns, loaded, at, timed, writeStats>>

\* The seconds since the last report may be none when intvlStart was never set,
\* or when the writer does not sleep: the division by zero ends the process.
MayDivideByZero == writer = "read" /\ (~timed \/ Frequency = 0)

\* Then the writer goes on to the next collector.
NextCollector ==
    \/ /\ at + 1 < NumCollectors
       /\ writer' = "read"
       /\ at' = at + 1
       /\ UNCHANGED timed
    \/ /\ at + 1 = NumCollectors
       /\ writer' = IF writeStats THEN "sleep" ELSE "off"
       /\ at' = 0
       /\ timed' = TRUE

\* GetStatsInPrevPeriod(): the counter is cleared.
Clear ==
    /\ writer = "clear"
    /\ intvlBytesTrns' = [intvlBytesTrns EXCEPT ![at] = 0]
    /\ NextCollector
    /\ UNCHANGED <<totalBytesTrns, loaded, writeStats, raced>>

WriterStep == WakeUp \/ AddToTotal \/ Clear

=============================================================================
