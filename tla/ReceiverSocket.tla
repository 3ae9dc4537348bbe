--------------------------- MODULE ReceiverSocket ---------------------------
(***************************************************************************)
(* A ReceiverSocket, the list of SenderSockets it forwards to, and their   *)
(* statistics (ReceiverSocket.cxx, SenderSocket.cxx, StatsCollector.tla),  *)
(* under the worker threads the dispatcher sends to it: MddProxy.tla has   *)
(* the way from epoll to a worker, which is one step here, and takes the   *)
(* drain that is modelled here for one step.                               *)
(*                                                                         *)
(* `buff' is a member, shared by all threads that drain the socket.  A     *)
(* datagram is its number in the order of arrival, and so is each byte of  *)
(* it: buff[j] is the datagram the byte at j was part of, 0 if none was    *)
(* ever stored there.  The kernel copies byte after byte, on either side.  *)
(*                                                                         *)
(* count is a size_t: the -1 of a recvfrom() that fails is its largest     *)
(* value, and so is its cast to the 32 bits of a counter.  sockLen is not  *)
(* initialised: if what is in it is negative, the first recvfrom() of a    *)
(* drain takes a datagram, copies it and then fails.  count[t] is 0 until  *)
(* that call has returned.                                                 *)
(***************************************************************************)
EXTENDS Naturals, Sequences, FiniteSets

CONSTANTS
    Threads,        \* the worker threads
    NumSenders,     \* the length of senderSocketList
    MaxPacketSize,  \* MAX_PACKET_SIZE
    Sizes,          \* the sizes of the datagrams that arrive
    MaxDatagrams,   \* bound: how many arrive
    CounterSize, Frequency      \* see StatsCollector.tla

ASSUME ThreadsAssumption == IsFiniteSet(Threads)
ASSUME RelayAssumption ==
    /\ NumSenders \in Nat
    /\ MaxPacketSize \in Nat \ {0}
    /\ Sizes \subseteq Nat
    /\ MaxDatagrams \in Nat
    /\ CounterSize \in Nat /\ CounterSize > MaxPacketSize + 1
    /\ Frequency \in Nat

VARIABLES
    process,    \* whether the process runs
    arrived,    \* the sizes of the datagrams that have arrived
    taken,      \* how many of them recvfrom() has taken from the socket's queue
    ready,      \* whether the socket is on epoll's ready list
    buff,       \* the buffer
    pc,         \* pc[t]: where thread t is in ReceiveData()
    count,      \* count[t]: its count
    inHand,     \* inHand[t]: the datagram it took last, while it deals with it
    byte,       \* byte[t]: the byte a copy of it comes to next
    sender,     \* sender[t]: its place in senderSocketList
    packet,     \* packet[t]: what its sendto() has copied so far
    sent,       \* sent[s]: the packets sender s has sent
    intvlBytesTrns, totalBytesTrns, loaded, writer, at, timed, writeStats, raced,
    \* history
    received,   \* the packets recvfrom() has returned, but for empty ones
    overlapped, \* two threads had a datagram in hand at once
    cutOff,     \* an empty or a lost datagram has ended the last drain
    failures    \* how many calls of recvfrom() have failed

Stats == INSTANCE StatsCollector WITH Reporters <- Threads, NumCollectors <- NumSenders + 1

statsVars == <<intvlBytesTrns, totalBytesTrns, loaded, writer, at, timed, writeStats, raced>>
kernelVars == <<arrived, taken, ready>>
threadVars == <<pc, count, inHand, byte, sender, packet>>
history == <<received, overlapped, cutOff, failures>>
vars == <<process, kernelVars, buff, threadVars, sent, statsVars, history>>

Senders == 1 .. NumSenders
Datagrams == 1 .. MaxDatagrams
Bytes == 0 .. MaxDatagrams
Nothing == CounterSize - 1      \* -1, as above
Counts == 0 .. MaxPacketSize \cup {Nothing}
Labels == {"off", "recvfrom", "copyIn", "report", "add", "copyOut", "transmit", "reportSent",
           "addSent"}

Packet(d, n) == [j \in 1 .. n |-> d]
\* Mutant of Shorter: the length of the buffer is not looked at.
Whole(m, n) == m
Shorter(m, n) == IF m <= n THEN m ELSE n

TypeOK ==
    /\ process \in {"up", "aborted"}
    /\ arrived \in Seq(Sizes) /\ Len(arrived) <= MaxDatagrams
    /\ taken \in 0 .. Len(arrived)
    /\ ready \in BOOLEAN
    /\ buff \in [1 .. MaxPacketSize -> Bytes]
    /\ pc \in [Threads -> Labels]
    /\ count \in [Threads -> Counts]
    /\ inHand \in [Threads -> 0 .. MaxDatagrams]
    /\ byte \in [Threads -> 1 .. MaxPacketSize + 1]
    /\ sender \in [Threads -> 0 .. NumSenders]
    /\ packet \in [Threads -> Seq(Bytes)]
    /\ sent \in [Senders -> Seq(Seq(Bytes))]
    /\ Stats!StatsTypeOK
    /\ received \in Seq(Seq(Datagrams))
    /\ overlapped \in BOOLEAN /\ cutOff \in BOOLEAN
    /\ failures \in Nat

Init ==
    /\ process = "up"
    /\ arrived = <<>>
    /\ taken = 0
    /\ ready = FALSE
    /\ buff = [j \in 1 .. MaxPacketSize |-> 0]
    /\ pc = [t \in Threads |-> "off"]
    /\ count = [t \in Threads |-> 0]
    /\ inHand = [t \in Threads |-> 0]
    /\ byte = [t \in Threads |-> 1]
    /\ sender = [t \in Threads |-> 0]
    /\ packet = [t \in Threads |-> <<>>]
    /\ sent = [s \in Senders |-> <<>>]
    /\ Stats!StatsInit
    /\ received = <<>>
    /\ overlapped = FALSE
    /\ cutOff = FALSE
    /\ failures = 0

-----------------------------------------------------------------------------

\* The network delivers a datagram of n bytes, and epoll takes note.
Arrive(n) ==
    /\ process = "up"
    /\ Len(arrived) < MaxDatagrams
    /\ arrived' = Append(arrived, n)
    /\ ready' = TRUE
    /\ UNCHANGED <<process, taken, buff, threadVars, sent, statsVars, history>>

Unread == taken < Len(arrived)

Trans(t, from, to) ==
    /\ process = "up"
    /\ pc[t] = from
    /\ pc' = [pc EXCEPT ![t] = to]

\* Epoll reports the socket, once, and a worker is sent to it.
Dispatch(t) ==
    /\ ready /\ Unread
    /\ ready' = FALSE
    /\ Trans(t, "off", "recvfrom")
    /\ UNCHANGED <<process, arrived, taken, buff, count, inHand, byte, sender, packet, sent,
                   statsVars, history>>

\* What recvfrom() makes of the next datagram: what is longer than the buffer is cut off.
Length(d) == Shorter(arrived[d], MaxPacketSize)

\* recvfrom() takes a datagram from the queue, and copies it if it is not empty.
Take(t, d) ==
    /\ Unread
    /\ Trans(t, "recvfrom", IF Length(d) > 0 THEN "copyIn" ELSE "report")
    /\ taken' = d
    /\ inHand' = [inHand EXCEPT ![t] = IF Length(d) > 0 THEN d ELSE 0]
    /\ byte' = [byte EXCEPT ![t] = 1]
    /\ overlapped' = (overlapped \/ (Length(d) > 0 /\ \E u \in Threads : inHand[u] # 0))
    /\ UNCHANGED <<process, arrived, ready, buff, sender, packet, sent, statsVars>>

RecvFrom(t) ==
    LET d == taken + 1
        n == Length(d)
    IN  /\ Take(t, d)
        /\ count' = [count EXCEPT ![t] = n]
        /\ received' = IF n > 0 THEN Append(received, Packet(d, n)) ELSE received
        /\ cutOff' = (cutOff \/ n = 0)
        /\ UNCHANGED failures

\* The first call of a drain finds a negative sockLen: the datagram is lost.
RecvLoses(t) ==
    /\ count[t] = 0
    /\ Take(t, taken + 1)
    /\ count' = [count EXCEPT ![t] = Nothing]
    /\ failures' = failures + 1
    /\ cutOff' = TRUE
    /\ UNCHANGED received

\* recvfrom() would block.
RecvNothing(t) ==
    /\ ~Unread
    /\ Trans(t, "recvfrom", "report")
    /\ count' = [count EXCEPT ![t] = Nothing]
    /\ failures' = failures + 1
    /\ cutOff' = FALSE
    /\ UNCHANGED <<process, kernelVars, buff, inHand, byte, sender, packet, sent, statsVars,
                   received, overlapped>>

CopyIn(t) ==
    /\ Trans(t, "copyIn", IF byte[t] = Length(inHand[t]) THEN "report" ELSE "copyIn")
    /\ buff' = [buff EXCEPT ![byte[t]] = inHand[t]]
    /\ byte' = [byte EXCEPT ![t] = @ + 1]
    /\ UNCHANGED <<process, kernelVars, count, inHand, sender, packet, sent, statsVars, history>>

\* ReportBytes() of the receiver's collector, or of the sender's it has come to.
Report(t) ==
    /\ Trans(t, "report", "add") \/ Trans(t, "reportSent", "addSent")
    /\ Stats!Load(t, sender[t])
    /\ UNCHANGED <<process, kernelVars, buff, count, inHand, byte, sender, packet, sent, history>>

\* Sender s is next for thread t, or, if there is none, the next recvfrom().
GoToSender(t, from, s) ==
    /\ sender' = [sender EXCEPT ![t] = IF s \in Senders THEN s ELSE 0]
    /\ byte' = [byte EXCEPT ![t] = 1]
    /\ inHand' = [inHand EXCEPT ![t] = IF s \in Senders THEN @ ELSE 0]
    /\ Trans(t, from, IF s \in Senders THEN "copyOut" ELSE "recvfrom")

\* Forwarding begins unless count is 0 or too large, which end the drain.
Forward(t) ==
    /\ count[t] > 0 /\ count[t] <= MaxPacketSize
    /\ Stats!Store(t, count[t])
    /\ GoToSender(t, "add", 1)
    /\ UNCHANGED <<process, kernelVars, buff, count, packet, sent, history>>

\* Mutant of EndDrain: a packet that leaves room in the buffer is taken for the last.
EndDrainEarly(t) ==
    /\ count[t] < MaxPacketSize \/ count[t] > MaxPacketSize
    /\ Stats!Store(t, count[t])
    /\ Trans(t, "add", "off")
    /\ count' = [count EXCEPT ![t] = 0]
    /\ inHand' = [inHand EXCEPT ![t] = 0]
    /\ UNCHANGED <<process, kernelVars, buff, byte, sender, packet, sent, history>>

EndDrain(t) ==
    /\ count[t] = 0 \/ count[t] > MaxPacketSize
    /\ Stats!Store(t, count[t])
    /\ Trans(t, "add", "off")
    /\ count' = [count EXCEPT ![t] = 0]
    /\ inHand' = [inHand EXCEPT ![t] = 0]
    /\ UNCHANGED <<process, kernelVars, buff, byte, sender, packet, sent, history>>

\* Mutants of CopyOut: the whole buffer is sent; one byte less than received is sent.
CopyOutBuffer(t) ==
    /\ Trans(t, "copyOut", IF byte[t] = MaxPacketSize THEN "transmit" ELSE "copyOut")
    /\ packet' = [packet EXCEPT ![t] = Append(@, buff[byte[t]])]
    /\ byte' = [byte EXCEPT ![t] = @ + 1]
    /\ UNCHANGED <<process, kernelVars, buff, count, inHand, sender, sent, statsVars, history>>
CopyOutShort(t) ==
    /\ Trans(t, "copyOut", IF byte[t] + 1 >= count[t] THEN "transmit" ELSE "copyOut")
    /\ packet' = [packet EXCEPT ![t] = Append(@, buff[byte[t]])]
    /\ byte' = [byte EXCEPT ![t] = @ + 1]
    /\ UNCHANGED <<process, kernelVars, buff, count, inHand, sender, sent, statsVars, history>>

\* sendto(): the kernel copies count bytes, then sends them.
CopyOut(t) ==
    /\ Trans(t, "copyOut", IF byte[t] = count[t] THEN "transmit" ELSE "copyOut")
    /\ packet' = [packet EXCEPT ![t] = Append(@, buff[byte[t]])]
    /\ byte' = [byte EXCEPT ![t] = @ + 1]
    /\ UNCHANGED <<process, kernelVars, buff, count, inHand, sender, sent, statsVars, history>>

Transmit(t) ==
    /\ Trans(t, "transmit", "reportSent")
    /\ sent' = [sent EXCEPT ![sender[t]] = Append(@, packet[t])]
    /\ packet' = [packet EXCEPT ![t] = <<>>]
    /\ UNCHANGED <<process, kernelVars, buff, count, inHand, byte, sender, statsVars, history>>

\* Mutant of NextSender: the loop over the senders is left after the first.
NoNextSender(t) ==
    /\ Stats!Store(t, count[t])
    /\ GoToSender(t, "addSent", NumSenders + 1)
    /\ UNCHANGED <<process, kernelVars, buff, count, packet, sent, history>>

\* SendData() has reported what it sent.
NextSender(t) ==
    /\ Stats!Store(t, count[t])
    /\ GoToSender(t, "addSent", sender[t] + 1)
    /\ UNCHANGED <<process, kernelVars, buff, count, packet, sent, history>>

\* sendto() fails, as it does when it would block: the exception ends the process.
SendFails(t) ==
    /\ process = "up"
    /\ pc[t] = "transmit"
    /\ process' = "aborted"
    /\ UNCHANGED <<kernelVars, buff, threadVars, sent, statsVars, history>>

\* The writer divides by zero.
DivideByZero ==
    /\ process = "up"
    /\ Stats!MayDivideByZero
    /\ process' = "aborted"
    /\ UNCHANGED <<kernelVars, buff, threadVars, sent, statsVars, history>>

\* The writer, and the calls that start and stop it.
Statistics ==
    /\ process = "up"
    /\ Stats!StartStats \/ Stats!StopStats \/ Stats!WriterStep
    /\ UNCHANGED <<process, kernelVars, buff, threadVars, sent, history>>

-----------------------------------------------------------------------------

ThreadStep(t) ==
    \/ RecvFrom(t) \/ RecvLoses(t) \/ RecvNothing(t) \/ CopyIn(t) \/ Report(t) \/ Forward(t) \/ EndDrain(t)
    \/ CopyOut(t) \/ Transmit(t) \/ NextSender(t)

Next ==
    \/ \E n \in Sizes : Arrive(n)
    \/ \E t \in Threads : Dispatch(t) \/ ThreadStep(t) \/ SendFails(t)
    \/ Statistics \/ DivideByZero

Spec == Init /\ [][Next]_vars

-----------------------------------------------------------------------------

Relayed == {Packet(d, n) : d \in Datagrams, n \in 1 .. MaxPacketSize}

R == INSTANCE Relay WITH Packets <- Relayed

\* As long as no two threads have a datagram in hand at once, the socket does what
\* Relay.tla promises: every non-empty datagram received, as far as the buffer reaches, is
\* forwarded by each sender, once, unchanged and in order.
ImplementsRelay == R!Init /\ [][R!Next \/ overlapped']_<<received, sent>>

\* Thread t has a datagram in hand that sender s has yet to send.
Owes(t, s) ==
    /\ inHand[t] # 0 /\ count[t] # Nothing
    /\ sender[t] < s \/ (sender[t] = s /\ pc[t] \in {"copyOut", "transmit"})

\* Even when drains overlap, and mix or repeat what is in the buffer, each sender
\* sends one packet for each datagram received: the loop over the senders is never
\* left early and never runs twice.
NoPacketLost ==
    \A s \in Senders :
        Len(sent[s]) + Cardinality({t \in Threads : Owes(t, s)}) = Len(received)

\* Even when drains overlap, no byte goes out that was not received at its place in
\* some datagram: never what the new buffer held, never what lies behind the end of
\* all datagrams.
BytesAreReceived ==
    \A s \in Senders : \A i \in DOMAIN sent[s] : \A j \in DOMAIN sent[s][i] :
        LET d == sent[s][i][j] IN d \in 1 .. taken /\ arrived[d] >= j

\* Thread t is going to call recvfrom().
WillReceive(t) == pc[t] = "recvfrom" \/ (inHand[t] # 0 /\ count[t] # Nothing)

\* Epoll reports edges: a datagram nobody is going to read and epoll is not going to
\* report is there only if an empty or a lost one has ended a drain in front of it.
UnreadIsCovered ==
    Unread => ready \/ cutOff \/ \E t \in Threads : WillReceive(t)

\* The sum of a function whose values are natural numbers: how many units make it up.
Units(f) == UNION {{i} \X (1 .. f[i]) : i \in DOMAIN f}
SumOf(f) == Cardinality(Units(f))

Volume(packets) == SumOf([i \in DOMAIN packets |-> Len(packets[i])])

\* What collector c should have counted: the bytes received and a -1 for each call of
\* recvfrom() that has failed, or the bytes its sender has sent.
Traffic(c) ==
    IF c = 0
    THEN Volume(received) + failures * Nothing
    ELSE Volume(sent[c])

\* What thread t has yet to report to collector c.
Unreported(t, c) ==
    IF sender[t] = c /\ pc[t] \in {"copyIn", "report", "add", "reportSent", "addSent"}
    THEN count[t]
    ELSE 0

\* The counter and the total of a collector agree with the traffic to the modulus of
\* the counter, one byte lost for each failure included, unless two threads
\* had an access of that collector open at once.
CountsFollowTraffic ==
    \A c \in Stats!Collectors :
        ~raced[c] /\ ~Stats!Touched(c) =>
            (totalBytesTrns[c] + intvlBytesTrns[c] + SumOf([t \in Threads |-> Unreported(t, c)]))
                % CounterSize
            = Traffic(c) % CounterSize

=============================================================================
