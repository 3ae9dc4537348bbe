------------------------ MODULE ReceiverSocketProofs ------------------------
(***************************************************************************)
(* What holds of a receiver for any threads, senders, sizes and number of  *)
(* datagrams: no packet is lost between the buffer and the senders, no     *)
(* byte is sent that was not received, no unread datagram is forgotten,    *)
(* while drains do not overlap the receiver is the relay of Relay.tla, and *)
(* a counter nobody raced for agrees with the traffic.                     *)
(***************************************************************************)
EXTENDS ReceiverSocket, SequenceTheorems, FiniteSetTheorems, TLAPS

\* What is appended is the last element, and the others keep their places.
LEMMA Appended ==
    ASSUME NEW S, NEW s \in Seq(S), NEW e \in S
    PROVE  /\ Append(s, e) \in Seq(S)
           /\ Len(Append(s, e)) = Len(s) + 1
           /\ \A i \in 1 .. Len(s) : Append(s, e)[i] = s[i]
           /\ Append(s, e)[Len(s) + 1] = e
           /\ Len(s) \in Nat
           /\ DOMAIN s = 1 .. Len(s) /\ DOMAIN Append(s, e) = 1 .. Len(s) + 1
  BY AppendProperties, LenProperties

\* -1 is none of the lengths recvfrom() returns.
LEMMA Sizing ==
    /\ NumSenders \in Nat /\ MaxPacketSize \in Nat \ {0} /\ MaxDatagrams \in Nat
    /\ CounterSize \in Nat \ {0}
    /\ Nothing \in Nat /\ Nothing > MaxPacketSize
  BY RelayAssumption DEF Nothing

\* The operations of the statistics keep their types.
LEMMA LoadTyped ==
    ASSUME Stats!StatsTypeOK, NEW t \in Threads, NEW c \in Stats!Collectors, Stats!Load(t, c)
    PROVE  Stats!StatsTypeOK'
  BY DEF Stats!StatsTypeOK, Stats!Load, Stats!Open, Stats!Touched, Stats!Access

LEMMA Remainder ==
    ASSUME NEW n \in Nat
    PROVE  n % CounterSize \in Stats!Values
  BY Sizing DEF Stats!Values

LEMMA StoreTyped ==
    ASSUME Stats!StatsTypeOK, NEW t \in Threads, NEW n \in Nat, Stats!Store(t, n)
    PROVE  Stats!StatsTypeOK'
  <1>1. PICK a \in loaded[t] :
           intvlBytesTrns' = [intvlBytesTrns EXCEPT ![a.collector] = (a.value + n) % CounterSize]
    BY DEF Stats!Store
  <1>2. a \in Stats!Access
    BY DEF Stats!StatsTypeOK
  <1>3. a.value + n \in Nat
    BY <1>2 DEF Stats!Access, Stats!Values
  <1>4. (a.value + n) % CounterSize \in Stats!Values
    BY <1>3, Remainder
  <1>. QED
    BY <1>1, <1>4 DEF Stats!Store, Stats!StatsTypeOK

LEMMA StatisticsTyped ==
    ASSUME Stats!StatsTypeOK, Statistics
    PROVE  Stats!StatsTypeOK'
  <1>. USE DEF Stats!StatsTypeOK
  <1>0. 0 \in Stats!Collectors /\ 0 \in Stats!Values
    BY Sizing DEF Stats!Collectors, Stats!Values
  <1>1. CASE Stats!StartStats
    BY <1>1 DEF Stats!StartStats
  <1>2. CASE Stats!StopStats
    BY <1>2 DEF Stats!StopStats
  <1>3. CASE Stats!WakeUp
    BY <1>0, <1>3 DEF Stats!WakeUp
  <1>4. CASE Stats!AddToTotal
    <2>1. intvlBytesTrns[at] \in Nat /\ totalBytesTrns[at] \in Nat
      BY DEF Stats!Values
    <2>. QED
      BY <1>4, <2>1 DEF Stats!AddToTotal, Stats!Open, Stats!Touched
  <1>5. CASE Stats!Clear
    <2>1. at' \in Stats!Collectors
      BY <1>0, <1>5, Sizing DEF Stats!Clear, Stats!NextCollector, Stats!Collectors
    <2>2. writer' \in {"off", "sleep", "read", "clear"}
      BY <1>5 DEF Stats!Clear, Stats!NextCollector
    <2>3. timed' \in BOOLEAN
      BY <1>5 DEF Stats!Clear, Stats!NextCollector
    <2>. QED
      BY <1>0, <1>5, <2>1, <2>2, <2>3 DEF Stats!Clear
  <1>. QED
    BY <1>1, <1>2, <1>3, <1>4, <1>5 DEF Statistics, Stats!WriterStep

-----------------------------------------------------------------------------
(* Types.  They are not inductive alone: that a copy stays within the buffer *)
(* depends on where the thread is.                                           *)

Holding == {"copyIn", "report", "add", "copyOut", "transmit", "reportSent", "addSent"}
Sending == {"copyOut", "transmit", "reportSent", "addSent"}

\* What a thread that has a datagram in hand knows of it.
InHandIsTaken(t) ==
    inHand[t] # 0 =>
        /\ pc[t] \in Holding
        /\ inHand[t] \in 1 .. taken
        /\ Length(inHand[t]) \in 1 .. MaxPacketSize
        /\ count[t] = Length(inHand[t]) \/ count[t] = Nothing

Place(t) ==
    /\ pc[t] \notin Sending => sender[t] = 0 /\ packet[t] = <<>>
    /\ pc[t] \in Sending => sender[t] \in Senders /\ inHand[t] # 0 /\ count[t] # Nothing
    /\ pc[t] = "copyIn" => inHand[t] # 0 /\ byte[t] \in 1 .. Length(inHand[t])
    /\ pc[t] \in {"report", "add"} /\ inHand[t] = 0 => count[t] \in {0, Nothing}
    /\ pc[t] = "copyOut" => byte[t] \in 1 .. count[t] /\ Len(packet[t]) = byte[t] - 1
    /\ pc[t] = "transmit" => Len(packet[t]) = count[t]
    /\ pc[t] \in {"reportSent", "addSent"} => packet[t] = <<>>

Control(t) == InHandIsTaken(t) /\ Place(t)

TypeInv == TypeOK /\ \A t \in Threads : Control(t)

\* Datagrams that have arrived keep their sizes, those that are taken stay so.
KernelGrows ==
    /\ taken' \in Nat /\ taken <= taken'
    /\ \A d \in 1 .. taken : arrived'[d] = arrived[d]

\* A step that does not touch thread u leaves it where it is.
Untouched(u) ==
    /\ pc'[u] = pc[u] /\ count'[u] = count[u] /\ inHand'[u] = inHand[u]
    /\ byte'[u] = byte[u] /\ sender'[u] = sender[u] /\ packet'[u] = packet[u]

LEMMA ControlStays ==
    ASSUME TypeOK, NEW u \in Threads, Control(u), Untouched(u), KernelGrows
    PROVE  Control(u)'
  <1>1. taken \in Nat
    BY LenProperties DEF TypeOK
  <1>2. inHand[u] # 0 => inHand'[u] \in 1 .. taken' /\ Length(inHand[u])' = Length(inHand[u])
    BY <1>1 DEF Control, InHandIsTaken, Untouched, KernelGrows, Length, Shorter
  <1>3. InHandIsTaken(u)'
    BY <1>2 DEF Control, InHandIsTaken, Untouched
  <1>4. Place(u)'
    BY <1>2 DEF Control, Place, Untouched
  <1>. QED
    BY <1>3, <1>4 DEF Control

\* Trans moves one thread.
LEMMA Moves ==
    ASSUME TypeOK, NEW t \in Threads, NEW from, NEW to, Trans(t, from, to)
    PROVE  pc[t] = from /\ pc'[t] = to /\ \A u \in Threads \ {t} : pc'[u] = pc[u]
  BY DEF TypeOK, Trans

\* recvfrom() makes at most a buffer of a datagram.
LEMMA LengthTyped ==
    ASSUME TypeOK, NEW d \in 1 .. Len(arrived)
    PROVE  Length(d) \in 0 .. MaxPacketSize
  <1>1. arrived[d] \in Nat
    BY RelayAssumption, ElementOfSeq DEF TypeOK
  <1>. QED
    BY <1>1, Sizing DEF Length, Shorter

\* The next datagram of the queue.
LEMMA TakeTyped ==
    ASSUME TypeInv, NEW t \in Threads, Take(t, taken + 1)
    PROVE  /\ taken + 1 \in 1 .. Len(arrived) /\ taken + 1 \in Datagrams
           /\ taken' = taken + 1 /\ taken \in Nat /\ KernelGrows
           /\ Length(taken + 1) \in 0 .. MaxPacketSize
           /\ arrived' = arrived
  <1>1. /\ Len(arrived) \in Nat /\ taken \in Nat /\ taken < Len(arrived) /\ taken' = taken + 1
        /\ Len(arrived) <= MaxDatagrams /\ arrived' = arrived
    BY LenProperties DEF TypeInv, TypeOK, Take, Unread
  <1>2. taken + 1 \in 1 .. Len(arrived) /\ taken + 1 \in Datagrams
    BY <1>1, Sizing DEF Datagrams
  <1>3. Length(taken + 1) \in 0 .. MaxPacketSize
    BY <1>2, LengthTyped DEF TypeInv
  <1>. QED
    BY <1>1, <1>2, <1>3 DEF KernelGrows

LEMMA TakeControl ==
    ASSUME TypeInv, NEW t \in Threads, Take(t, taken + 1), NEW n,
           n = Length(taken + 1) \/ n = Nothing, count' = [count EXCEPT ![t] = n]
    PROVE  \A u \in Threads : Control(u)'
  <1>1. \A u \in Threads \ {t} : Untouched(u)
    BY DEF TypeInv, TypeOK, Take, Trans, Untouched
  <1>2. \A u \in Threads \ {t} : Control(u)'
    BY <1>1, TakeTyped, ControlStays DEF TypeInv
  <1>3. /\ pc[t] = "recvfrom" /\ pc'[t] = (IF Length(taken + 1) > 0 THEN "copyIn" ELSE "report")
        /\ inHand'[t] = (IF Length(taken + 1) > 0 THEN taken + 1 ELSE 0)
        /\ byte'[t] = 1 /\ count'[t] = n /\ sender'[t] = sender[t] /\ packet'[t] = packet[t]
    BY DEF TypeInv, TypeOK, Take, Trans
  <1>4. /\ taken \in Nat /\ taken' = taken + 1 /\ Length(taken + 1) \in 0 .. MaxPacketSize
        /\ arrived' = arrived
    BY TakeTyped
  <1>5. inHand'[t] # 0 => Length(inHand[t])' = Length(taken + 1)
    BY <1>3, <1>4 DEF Length
  <1>6. InHandIsTaken(t)'
    BY <1>3, <1>4, <1>5, Sizing DEF InHandIsTaken, Holding
  <1>7. sender[t] = 0 /\ packet[t] = <<>>
    BY <1>3 DEF TypeInv, Control, Place, Sending
  <1>8. Place(t)'
    BY <1>3, <1>4, <1>5, <1>7, Sizing DEF Place, Sending
  <1>. QED
    BY <1>2, <1>6, <1>8 DEF Control

\* The packet recvfrom() returns.
LEMMA PacketTyped ==
    ASSUME NEW d \in Datagrams, NEW n \in 0 .. MaxPacketSize
    PROVE  Packet(d, n) \in Seq(Datagrams) /\ Len(Packet(d, n)) = n
  BY Sizing DEF Packet

LEMMA TakeStepTyped ==
    ASSUME TypeInv, NEW t \in Threads, RecvFrom(t) \/ RecvLoses(t)
    PROVE  TypeInv'
  <1>1. Take(t, taken + 1)
    BY DEF RecvFrom, RecvLoses
  <1>2. count' = [count EXCEPT ![t] = Length(taken + 1)] \/ count' = [count EXCEPT ![t] = Nothing]
    BY DEF RecvFrom, RecvLoses
  <1>3. \A u \in Threads : Control(u)'
    BY <1>1, <1>2, TakeControl
  <1>4. count' \in [Threads -> Counts]
    BY <1>1, <1>2, TakeTyped DEF TypeInv, TypeOK, Counts
  <1>5. received' \in Seq(Seq(Datagrams))
    <2>1. Packet(taken + 1, Length(taken + 1)) \in Seq(Datagrams)
      BY <1>1, TakeTyped, PacketTyped
    <2>2. received \in Seq(Seq(Datagrams))
      BY DEF TypeInv, TypeOK
    <2>3. Append(received, Packet(taken + 1, Length(taken + 1))) \in Seq(Seq(Datagrams))
      BY <2>1, <2>2, Appended
    <2>. QED
      BY <2>2, <2>3 DEF RecvFrom, RecvLoses
  <1>6. taken' \in 0 .. Len(arrived') /\ inHand' \in [Threads -> 0 .. MaxDatagrams]
    <2>1. /\ taken + 1 \in 1 .. Len(arrived) /\ taken + 1 \in 1 .. MaxDatagrams
          /\ taken' = taken + 1 /\ arrived' = arrived
      BY <1>1, TakeTyped DEF Datagrams
    <2>2. inHand' = [inHand EXCEPT ![t] = IF Length(taken + 1) > 0 THEN taken + 1 ELSE 0]
      BY <1>1 DEF Take
    <2>. QED
      BY <2>1, <2>2, Sizing DEF TypeInv, TypeOK
  <1>7. pc' \in [Threads -> Labels] /\ byte' \in [Threads -> 1 .. MaxPacketSize + 1]
    BY SMTT(30), <1>1, Sizing DEF TypeInv, TypeOK, Take, Trans, Labels
  <1>8. failures' \in Nat /\ cutOff' \in BOOLEAN
    <2>1. CASE RecvFrom(t)
      BY <2>1 DEF TypeInv, TypeOK, RecvFrom
    <2>2. CASE RecvLoses(t)
      BY <2>2 DEF TypeInv, TypeOK, RecvLoses
    <2>. QED
      BY <2>1, <2>2
  <1>9. Stats!StatsTypeOK'
    BY <1>1 DEF TypeInv, TypeOK, Take, statsVars, Stats!StatsTypeOK
  <1>10. UNCHANGED <<process, arrived, ready, buff, sender, packet, sent>> /\ overlapped' \in BOOLEAN
    BY <1>1 DEF TypeInv, TypeOK, Take
  <1>. QED
    BY <1>3, <1>4, <1>5, <1>6, <1>7, <1>8, <1>9, <1>10 DEF TypeInv, TypeOK

\* If a step touches thread t alone, only its place is in question.
LEMMA OthersStay ==
    ASSUME TypeInv, NEW t \in Threads, KernelGrows, \A u \in Threads \ {t} : Untouched(u),
           Control(t)'
    PROVE  \A u \in Threads : Control(u)'
  BY ControlStays DEF TypeInv

LEMMA KernelStays ==
    ASSUME TypeOK, UNCHANGED <<arrived, taken>>
    PROVE  KernelGrows
  BY LenProperties DEF TypeOK, KernelGrows

\* The statistics are typed again after a step that leaves them alone.
LEMMA StatsStay == TypeOK /\ UNCHANGED statsVars => Stats!StatsTypeOK'
  BY DEF TypeOK, statsVars, Stats!StatsTypeOK

LEMMA ArriveTyped ==
    ASSUME TypeInv, NEW n \in Sizes, Arrive(n)
    PROVE  TypeInv'
  <1>1. /\ arrived' \in Seq(Sizes) /\ Len(arrived') = Len(arrived) + 1 /\ Len(arrived) \in Nat
        /\ \A d \in 1 .. Len(arrived) : arrived'[d] = arrived[d]
    BY Appended DEF TypeInv, TypeOK, Arrive
  <1>2. taken' = taken /\ taken \in 0 .. Len(arrived) /\ Len(arrived') <= MaxDatagrams
    BY <1>1, Sizing DEF TypeInv, TypeOK, Arrive
  <1>3. KernelGrows
    BY <1>1, <1>2 DEF KernelGrows
  <1>4. \A u \in Threads : Control(u)'
    BY <1>3, ControlStays DEF TypeInv, Arrive, threadVars, Untouched
  <1>5. Stats!StatsTypeOK'
    BY StatsStay DEF TypeInv, Arrive
  <1>. QED
    BY <1>1, <1>2, <1>4, <1>5 DEF TypeInv, TypeOK, Arrive, threadVars, history

LEMMA DispatchTyped ==
    ASSUME TypeInv, NEW t \in Threads, Dispatch(t)
    PROVE  TypeInv'
  <1>1. pc[t] = "off" /\ pc'[t] = "recvfrom" /\ \A u \in Threads \ {t} : pc'[u] = pc[u]
    BY Moves DEF TypeInv, Dispatch
  <1>2. UNCHANGED <<count, inHand, byte, sender, packet, arrived, taken>>
    BY DEF Dispatch
  <1>3. KernelGrows
    BY <1>2, KernelStays DEF TypeInv
  <1>4. Control(t)'
    BY <1>1, <1>2 DEF TypeInv, Control, InHandIsTaken, Place, Holding, Sending
  <1>5. \A u \in Threads : Control(u)'
    BY <1>1, <1>2, <1>3, <1>4, OthersStay DEF Untouched
  <1>6. Stats!StatsTypeOK'
    BY StatsStay DEF TypeInv, Dispatch
  <1>. QED
    BY <1>5, <1>6 DEF TypeInv, TypeOK, Dispatch, Trans, Labels, history

LEMMA RecvNothingTyped ==
    ASSUME TypeInv, NEW t \in Threads, RecvNothing(t)
    PROVE  TypeInv'
  <1>1. pc[t] = "recvfrom" /\ pc'[t] = "report" /\ \A u \in Threads \ {t} : pc'[u] = pc[u]
    BY Moves DEF TypeInv, RecvNothing
  <1>2. /\ UNCHANGED <<inHand, byte, packet, arrived, taken>>
        /\ count'[t] = Nothing /\ sender'[t] = sender[t]
        /\ \A u \in Threads \ {t} : count'[u] = count[u] /\ sender'[u] = sender[u]
    BY DEF RecvNothing, kernelVars, TypeInv, TypeOK
  <1>3. KernelGrows
    BY <1>2, KernelStays DEF TypeInv
  <1>4. Control(t)'
    BY <1>1, <1>2 DEF TypeInv, Control, InHandIsTaken, Place, Holding, Sending
  <1>5. \A u \in Threads : Control(u)'
    BY <1>1, <1>2, <1>3, <1>4, OthersStay DEF Untouched
  <1>6. Stats!StatsTypeOK'
    BY StatsStay DEF TypeInv, RecvNothing
  <1>7. count' \in [Threads -> Counts]
    BY DEF TypeInv, TypeOK, RecvNothing, Counts
  <1>8. failures' \in Nat
    BY DEF TypeInv, TypeOK, RecvNothing
  <1>9. cutOff' \in BOOLEAN
    BY DEF RecvNothing
  <1>10. pc' \in [Threads -> Labels]
    BY DEF TypeInv, TypeOK, RecvNothing, Trans, Labels
  <1>. QED
    BY <1>5, <1>6, <1>7, <1>8, <1>9, <1>10 DEF TypeInv, TypeOK, RecvNothing, kernelVars

LEMMA CopyInTyped ==
    ASSUME TypeInv, NEW t \in Threads, CopyIn(t)
    PROVE  TypeInv'
  <1>1. /\ pc[t] = "copyIn" /\ \A u \in Threads \ {t} : pc'[u] = pc[u]
        /\ pc'[t] = (IF byte[t] = Length(inHand[t]) THEN "report" ELSE "copyIn")
    BY Moves DEF TypeInv, CopyIn
  <1>2. /\ UNCHANGED <<count, inHand, sender, packet, arrived, taken>>
        /\ byte'[t] = byte[t] + 1
        /\ \A u \in Threads \ {t} : byte'[u] = byte[u]
    BY DEF CopyIn, kernelVars, TypeInv, TypeOK
  <1>3. KernelGrows
    BY <1>2, KernelStays DEF TypeInv
  <1>4. /\ inHand[t] \in 1 .. taken /\ Length(inHand[t]) \in 1 .. MaxPacketSize
        /\ byte[t] \in 1 .. Length(inHand[t]) /\ byte[t] \in 1 .. MaxPacketSize
    BY <1>1, Sizing DEF TypeInv, Control, InHandIsTaken, Place
  <1>5. Length(inHand[t])' = Length(inHand[t])
    BY <1>2 DEF Length
  <1>6. Control(t)'
    BY <1>1, <1>2, <1>4, <1>5 DEF TypeInv, Control, InHandIsTaken, Place, Holding, Sending
  <1>7. \A u \in Threads : Control(u)'
    BY <1>1, <1>2, <1>3, <1>6, OthersStay DEF Untouched
  <1>8. Stats!StatsTypeOK'
    BY StatsStay DEF TypeInv, CopyIn
  <1>9. byte' \in [Threads -> 1 .. MaxPacketSize + 1]
    BY SMTT(30), <1>4, Sizing DEF TypeInv, TypeOK, CopyIn
  <1>10. buff' \in [1 .. MaxPacketSize -> Bytes]
    BY <1>4 DEF TypeInv, TypeOK, CopyIn, Bytes
  <1>. QED
    BY <1>7, <1>8, <1>9, <1>10 DEF TypeInv, TypeOK, CopyIn, Trans, Labels, kernelVars, history

LEMMA ReportTyped ==
    ASSUME TypeInv, NEW t \in Threads, Report(t)
    PROVE  TypeInv'
  <1>1. /\ (pc[t] = "report" /\ pc'[t] = "add") \/ (pc[t] = "reportSent" /\ pc'[t] = "addSent")
        /\ \A u \in Threads \ {t} : pc'[u] = pc[u]
    BY Moves DEF TypeInv, Report
  <1>2. UNCHANGED <<count, inHand, byte, sender, packet, arrived, taken>>
    BY DEF Report, kernelVars
  <1>3. KernelGrows
    BY <1>2, KernelStays DEF TypeInv
  <1>4. Length(inHand[t])' = Length(inHand[t])
    BY <1>2 DEF Length
  <1>5. Control(t)'
    BY <1>1, <1>2, <1>4 DEF TypeInv, Control, InHandIsTaken, Place, Holding, Sending
  <1>6. \A u \in Threads : Control(u)'
    BY <1>1, <1>2, <1>3, <1>5, OthersStay DEF Untouched
  <1>7. sender[t] \in Stats!Collectors
    BY Sizing DEF TypeInv, TypeOK, Stats!Collectors
  <1>8. Stats!StatsTypeOK'
    BY <1>7, LoadTyped DEF TypeInv, TypeOK, Report
  <1>9. pc' \in [Threads -> Labels]
    BY DEF TypeInv, TypeOK, Report, Trans, Labels
  <1>. QED
    BY <1>6, <1>8, <1>9 DEF TypeInv, TypeOK, Report, kernelVars, history

\* On to a sender, or back to recvfrom(), with a datagram in hand that was received.
LEMMA GoToSenderTyped ==
    ASSUME TypeInv, NEW t \in Threads, NEW from, pc[t] \in Holding, packet[t] = <<>>,
           inHand[t] # 0, count[t] # Nothing, NEW s \in Nat, s > 0, GoToSender(t, from, s),
           UNCHANGED <<process, kernelVars, buff, count, packet, sent, history>>,
           Stats!StatsTypeOK'
    PROVE  TypeInv'
  <1>. DEFINE more == s \in Senders
  <1>1. /\ pc'[t] = (IF more THEN "copyOut" ELSE "recvfrom")
        /\ sender'[t] = (IF more THEN s ELSE 0) /\ byte'[t] = 1
        /\ inHand'[t] = (IF more THEN inHand[t] ELSE 0)
        /\ count' = count /\ packet' = packet /\ arrived' = arrived /\ taken' = taken
    BY DEF TypeInv, TypeOK, GoToSender, Trans, kernelVars
  <1>2. \A u \in Threads \ {t} : Untouched(u)
    BY DEF TypeInv, TypeOK, GoToSender, Trans, Untouched
  <1>3. KernelGrows
    BY <1>1, KernelStays DEF TypeInv
  <1>4. /\ inHand[t] \in 1 .. taken /\ Length(inHand[t]) \in 1 .. MaxPacketSize
        /\ count[t] = Length(inHand[t])
    BY DEF TypeInv, Control, InHandIsTaken
  <1>5. inHand'[t] # 0 => Length(inHand[t])' = Length(inHand[t])
    BY <1>1 DEF Length
  <1>6. InHandIsTaken(t)'
    BY <1>1, <1>4, <1>5 DEF InHandIsTaken, Holding
  <1>7. Len(packet[t]) = 0
    OBVIOUS
  <1>8. Place(t)'
    BY <1>1, <1>4, <1>7 DEF Place, Sending
  <1>9. \A u \in Threads : Control(u)'
    BY <1>2, <1>3, <1>6, <1>8, OthersStay DEF Control
  <1>10. /\ sender' \in [Threads -> 0 .. NumSenders]
         /\ inHand' \in [Threads -> 0 .. MaxDatagrams]
         /\ byte' \in [Threads -> 1 .. MaxPacketSize + 1]
         /\ pc' \in [Threads -> Labels]
    BY Sizing DEF TypeInv, TypeOK, GoToSender, Trans, Labels, Senders
  <1>. QED
    BY <1>9, <1>10 DEF TypeInv, TypeOK, kernelVars, history

LEMMA ForwardTyped ==
    ASSUME TypeInv, NEW t \in Threads, Forward(t) \/ NextSender(t)
    PROVE  TypeInv'
  <1>1. PICK from \in {"add", "addSent"}, s \in Nat :
           /\ pc[t] = from /\ s > 0 /\ GoToSender(t, from, s)
           /\ from = "addSent" \/ (count[t] > 0 /\ count[t] <= MaxPacketSize)
    <2>1. CASE Forward(t)
      <3>1. pc[t] = "add" /\ GoToSender(t, "add", 1) /\ count[t] > 0 /\ count[t] <= MaxPacketSize
        BY <2>1 DEF Forward, GoToSender, Trans
      <3>. QED
        BY <3>1
    <2>2. CASE NextSender(t)
      <3>1. pc[t] = "addSent" /\ GoToSender(t, "addSent", sender[t] + 1)
        BY <2>2 DEF NextSender, GoToSender, Trans
      <3>2. sender[t] + 1 \in Nat /\ sender[t] + 1 > 0
        BY Sizing DEF TypeInv, TypeOK
      <3>. QED
        BY <3>1, <3>2
    <2>. QED
      BY <2>1, <2>2
  <1>2. packet[t] = <<>> /\ inHand[t] # 0 /\ count[t] # Nothing
    BY <1>1, Sizing DEF TypeInv, Control, Place, Sending
  <1>3. count[t] \in Nat
    BY Sizing DEF TypeInv, TypeOK, Counts
  <1>4. Stats!StatsTypeOK'
    BY <1>3, StoreTyped DEF TypeInv, TypeOK, Forward, NextSender
  <1>5. UNCHANGED <<process, kernelVars, buff, count, packet, sent, history>>
    BY DEF Forward, NextSender
  <1>6. pc[t] \in Holding
    BY <1>1 DEF Holding
  <1>. QED
    BY <1>1, <1>2, <1>4, <1>5, <1>6, GoToSenderTyped

LEMMA EndDrainTyped ==
    ASSUME TypeInv, NEW t \in Threads, EndDrain(t)
    PROVE  TypeInv'
  <1>1. pc[t] = "add" /\ pc'[t] = "off" /\ \A u \in Threads \ {t} : pc'[u] = pc[u]
    BY Moves DEF TypeInv, EndDrain
  <1>2. /\ UNCHANGED <<byte, sender, packet, arrived, taken>>
        /\ count'[t] = 0 /\ inHand'[t] = 0
        /\ \A u \in Threads \ {t} : count'[u] = count[u] /\ inHand'[u] = inHand[u]
    BY DEF EndDrain, kernelVars, TypeInv, TypeOK
  <1>3. KernelGrows
    BY <1>2, KernelStays DEF TypeInv
  <1>4. Control(t)'
    BY <1>1, <1>2 DEF TypeInv, Control, InHandIsTaken, Place, Holding, Sending
  <1>5. \A u \in Threads : Control(u)'
    BY <1>1, <1>2, <1>3, <1>4, OthersStay DEF Untouched
  <1>6. count[t] \in Nat
    BY Sizing DEF TypeInv, TypeOK, Counts
  <1>7. Stats!StatsTypeOK'
    BY <1>6, StoreTyped DEF TypeInv, TypeOK, EndDrain
  <1>8. count' \in [Threads -> Counts] /\ inHand' \in [Threads -> 0 .. MaxDatagrams]
    BY Sizing DEF TypeInv, TypeOK, EndDrain, Counts
  <1>9. pc' \in [Threads -> Labels]
    BY DEF TypeInv, TypeOK, EndDrain, Trans, Labels
  <1>. QED
    BY <1>5, <1>7, <1>8, <1>9 DEF TypeInv, TypeOK, EndDrain, kernelVars, history

\* A byte of the buffer goes to the packet.
LEMMA CopiedOut ==
    ASSUME TypeInv, NEW t \in Threads, CopyOut(t)
    PROVE  /\ byte[t] \in 1 .. MaxPacketSize /\ byte[t] \in 1 .. count[t]
           /\ buff[byte[t]] \in Bytes
           /\ packet[t] \in Seq(Bytes) /\ Len(packet[t]) = byte[t] - 1
           /\ packet'[t] = Append(packet[t], buff[byte[t]])
           /\ packet'[t] \in Seq(Bytes) /\ Len(packet'[t]) = byte[t]
           /\ \A j \in 1 .. byte[t] - 1 : packet'[t][j] = packet[t][j]
           /\ packet'[t][byte[t]] = buff[byte[t]]
  <1>1. pc[t] = "copyOut"
    BY DEF CopyOut, Trans
  <1>2. inHand[t] # 0 /\ count[t] # Nothing /\ byte[t] \in 1 .. count[t] /\ Len(packet[t]) = byte[t] - 1
    BY <1>1 DEF TypeInv, Control, Place, Sending
  <1>3. count[t] \in 1 .. MaxPacketSize
    BY <1>2 DEF TypeInv, Control, InHandIsTaken
  <1>4. byte[t] \in 1 .. MaxPacketSize
    BY <1>2, <1>3, Sizing
  <1>5. buff[byte[t]] \in Bytes /\ packet[t] \in Seq(Bytes)
    BY <1>4 DEF TypeInv, TypeOK
  <1>6. packet'[t] = Append(packet[t], buff[byte[t]])
    BY DEF TypeInv, TypeOK, CopyOut
  <1>. QED
    BY <1>2, <1>4, <1>5, <1>6, Appended

LEMMA CopyOutTyped ==
    ASSUME TypeInv, NEW t \in Threads, CopyOut(t)
    PROVE  TypeInv'
  <1>1. /\ pc[t] = "copyOut" /\ \A u \in Threads \ {t} : pc'[u] = pc[u]
        /\ pc'[t] = (IF byte[t] = count[t] THEN "transmit" ELSE "copyOut")
    BY Moves DEF TypeInv, CopyOut
  <1>2. /\ UNCHANGED <<count, inHand, sender, arrived, taken>>
        /\ byte'[t] = byte[t] + 1
        /\ \A u \in Threads \ {t} : byte'[u] = byte[u] /\ packet'[u] = packet[u]
    BY DEF CopyOut, kernelVars, TypeInv, TypeOK
  <1>3. KernelGrows
    BY <1>2, KernelStays DEF TypeInv
  <1>4. Length(inHand[t])' = Length(inHand[t])
    BY <1>2 DEF Length
  <1>5. InHandIsTaken(t)'
    BY <1>1, <1>2, <1>4 DEF TypeInv, Control, InHandIsTaken, Holding
  <1>6. Place(t)'
    <2>1. byte[t] \in 1 .. count[t] /\ byte[t] \in Nat /\ Len(packet'[t]) = byte[t]
      BY CopiedOut, Sizing
    <2>2. count[t] \in Nat
      BY Sizing DEF TypeInv, TypeOK, Counts
    <2>3. sender[t] \in Senders /\ inHand[t] # 0 /\ count[t] # Nothing
      BY <1>1 DEF TypeInv, Control, Place, Sending
    <2>. QED
      BY <1>1, <1>2, <2>1, <2>2, <2>3 DEF Place, Sending
  <1>7. \A u \in Threads : Control(u)'
    BY <1>1, <1>2, <1>3, <1>5, <1>6, OthersStay DEF Untouched, Control
  <1>8. Stats!StatsTypeOK'
    BY StatsStay DEF TypeInv, CopyOut
  <1>9. byte' \in [Threads -> 1 .. MaxPacketSize + 1]
    <2>1. byte[t] + 1 \in 1 .. MaxPacketSize + 1
      BY CopiedOut, Sizing
    <2>. QED
      BY <2>1 DEF TypeInv, TypeOK, CopyOut
  <1>10. packet' \in [Threads -> Seq(Bytes)]
    BY CopiedOut DEF TypeInv, TypeOK, CopyOut
  <1>. QED
    BY <1>7, <1>8, <1>9, <1>10 DEF TypeInv, TypeOK, CopyOut, Trans, Labels, kernelVars, history

\* A packet goes out.
LEMMA Transmitted ==
    ASSUME TypeInv, NEW t \in Threads, Transmit(t)
    PROVE  /\ sender[t] \in Senders /\ packet[t] \in Seq(Bytes) /\ Len(packet[t]) = count[t]
           /\ sent[sender[t]] \in Seq(Seq(Bytes))
           /\ sent'[sender[t]] = Append(sent[sender[t]], packet[t])
           /\ sent'[sender[t]] \in Seq(Seq(Bytes))
           /\ Len(sent'[sender[t]]) = Len(sent[sender[t]]) + 1 /\ Len(sent[sender[t]]) \in Nat
           /\ \A i \in 1 .. Len(sent[sender[t]]) : sent'[sender[t]][i] = sent[sender[t]][i]
           /\ sent'[sender[t]][Len(sent[sender[t]]) + 1] = packet[t]
           /\ \A s \in Senders \ {sender[t]} : sent'[s] = sent[s]
  <1>1. pc[t] = "transmit"
    BY DEF Transmit, Trans
  <1>2. sender[t] \in Senders /\ Len(packet[t]) = count[t]
    BY <1>1 DEF TypeInv, Control, Place, Sending
  <1>3. packet[t] \in Seq(Bytes) /\ sent[sender[t]] \in Seq(Seq(Bytes))
    BY <1>2 DEF TypeInv, TypeOK
  <1>4. sent'[sender[t]] = Append(sent[sender[t]], packet[t])
    BY <1>2 DEF TypeInv, TypeOK, Transmit
  <1>5. \A s \in Senders \ {sender[t]} : sent'[s] = sent[s]
    BY DEF TypeInv, TypeOK, Transmit
  <1>. QED
    BY <1>2, <1>3, <1>4, <1>5, Appended

LEMMA TransmitTyped ==
    ASSUME TypeInv, NEW t \in Threads, Transmit(t)
    PROVE  TypeInv'
  <1>1. /\ pc[t] = "transmit" /\ \A u \in Threads \ {t} : pc'[u] = pc[u]
        /\ pc'[t] = "reportSent"
    BY Moves DEF TypeInv, Transmit
  <1>2. /\ UNCHANGED <<count, inHand, byte, sender, arrived, taken>>
        /\ packet'[t] = <<>>
        /\ \A u \in Threads \ {t} : packet'[u] = packet[u]
    BY DEF Transmit, kernelVars, TypeInv, TypeOK
  <1>3. KernelGrows
    BY <1>2, KernelStays DEF TypeInv
  <1>4. Length(inHand[t])' = Length(inHand[t])
    BY <1>2 DEF Length
  <1>5. InHandIsTaken(t)'
    BY <1>1, <1>2, <1>4 DEF TypeInv, Control, InHandIsTaken, Holding
  <1>6. Place(t)'
    BY <1>1, <1>2 DEF TypeInv, Control, Place, Sending
  <1>7. \A u \in Threads : Control(u)'
    BY <1>1, <1>2, <1>3, <1>5, <1>6, OthersStay DEF Untouched, Control
  <1>8. Stats!StatsTypeOK'
    BY StatsStay DEF TypeInv, Transmit
  <1>9. packet' \in [Threads -> Seq(Bytes)]
    BY DEF TypeInv, TypeOK, Transmit
  <1>10. sent' \in [Senders -> Seq(Seq(Bytes))]
    BY Transmitted DEF TypeInv, TypeOK, Transmit
  <1>. QED
    BY <1>7, <1>8, <1>9, <1>10 DEF TypeInv, TypeOK, Transmit, Trans, Labels, kernelVars, history

\* Steps that leave the threads, the kernel and the buffer alone.
LEMMA AsideTyped ==
    ASSUME TypeInv, UNCHANGED <<kernelVars, buff, threadVars, sent, history>>,
           process' \in {"up", "aborted"}, Stats!StatsTypeOK'
    PROVE  TypeInv'
  <1>1. KernelGrows
    BY KernelStays DEF TypeInv, kernelVars
  <1>2. \A u \in Threads : Control(u)'
    BY <1>1, ControlStays DEF TypeInv, threadVars, Untouched
  <1>. QED
    BY <1>2 DEF TypeInv, TypeOK, kernelVars, threadVars, history

LEMMA NextTyped == TypeInv /\ [Next]_vars => TypeInv'
  <1>. SUFFICES ASSUME TypeInv, [Next]_vars
                PROVE  TypeInv'
    OBVIOUS
  <1>1. CASE \E n \in Sizes : Arrive(n)
    BY <1>1, ArriveTyped
  <1>2. CASE \E t \in Threads : Dispatch(t) \/ ThreadStep(t)
    BY <1>2, DispatchTyped, TakeStepTyped, RecvNothingTyped, CopyInTyped, ReportTyped,
       ForwardTyped, EndDrainTyped, CopyOutTyped, TransmitTyped DEF ThreadStep
  <1>3. CASE (\E t \in Threads : SendFails(t)) \/ DivideByZero \/ UNCHANGED vars
    <2>1. /\ UNCHANGED <<kernelVars, buff, threadVars, sent, history, statsVars>>
          /\ process' \in {"up", "aborted"}
      BY <1>3 DEF SendFails, DivideByZero, vars, TypeInv, TypeOK
    <2>. QED
      BY <2>1, StatsStay, AsideTyped DEF TypeInv
  <1>4. CASE Statistics
    <2>1. Stats!StatsTypeOK'
      BY <1>4, StatisticsTyped DEF TypeInv, TypeOK
    <2>. QED
      BY <1>4, <2>1, AsideTyped DEF Statistics
  <1>. QED
    BY <1>1, <1>2, <1>3, <1>4 DEF Next

LEMMA InitTyped == Init => TypeInv
  <1>. SUFFICES ASSUME Init
                PROVE  TypeInv
    OBVIOUS
  <1>1. Stats!StatsTypeOK
    <2>1. 0 \in Stats!Collectors /\ 0 \in Stats!Values
      BY Sizing DEF Stats!Collectors, Stats!Values
    <2>2. Stats!StatsInit
      BY DEF Init
    <2>. QED
      BY <2>1, <2>2 DEF Stats!StatsInit, Stats!StatsTypeOK
  <1>2. /\ arrived \in Seq(Sizes) /\ Len(arrived) = 0
        /\ \A S : <<>> \in Seq(S)
    BY DEF Init
  <1>3. TypeOK
    <2>1. /\ 0 \in Counts /\ 0 \in Bytes /\ 0 \in 0 .. MaxDatagrams /\ 0 \in 0 .. NumSenders
          /\ 1 \in 1 .. MaxPacketSize + 1 /\ taken \in 0 .. Len(arrived) /\ Len(arrived) <= MaxDatagrams
      BY <1>2, Sizing DEF Init, Counts, Bytes
    <2>2. /\ buff \in [1 .. MaxPacketSize -> Bytes]
          /\ pc \in [Threads -> Labels]
          /\ count \in [Threads -> Counts]
          /\ inHand \in [Threads -> 0 .. MaxDatagrams]
          /\ byte \in [Threads -> 1 .. MaxPacketSize + 1]
          /\ sender \in [Threads -> 0 .. NumSenders]
      BY <2>1 DEF Init, Labels
    <2>3. /\ packet \in [Threads -> Seq(Bytes)]
          /\ sent \in [Senders -> Seq(Seq(Bytes))]
          /\ received \in Seq(Seq(Datagrams))
      BY <1>2 DEF Init
    <2>. QED
      BY <1>1, <1>2, <2>1, <2>2, <2>3 DEF Init, TypeOK
  <1>4. \A t \in Threads : Control(t)
    BY DEF Init, Control, InHandIsTaken, Place, Sending
  <1>. QED
    BY <1>3, <1>4 DEF TypeInv

\* The receiver's state is well formed for any threads, senders and datagrams: a copy
\* never leaves the buffer, and a counter never leaves its width.
THEOREM TypeCorrect == Spec => []TypeOK
  <1>1. TypeInv => TypeOK
    BY DEF TypeInv
  <1>. QED
    BY <1>1, InitTyped, NextTyped, PTL DEF Spec

-----------------------------------------------------------------------------
(* What the steps of a thread do, in the terms of the properties below.      *)

\* A datagram is taken from the queue.
LEMMA Taking ==
    ASSUME TypeInv, NEW t \in Threads, RecvFrom(t) \/ RecvLoses(t)
    PROVE  /\ pc[t] = "recvfrom" /\ inHand[t] = 0 /\ sender[t] = 0 /\ sender'[t] = 0
           /\ pc'[t] = (IF Length(taken + 1) > 0 THEN "copyIn" ELSE "report")
           /\ inHand'[t] = (IF Length(taken + 1) > 0 THEN taken + 1 ELSE 0)
           /\ byte'[t] = 1
           /\ RecvFrom(t) => count'[t] = Length(taken + 1)
           /\ count'[t] = Length(taken + 1) \/ count'[t] = Nothing
           /\ \A u \in Threads \ {t} : Untouched(u)
           /\ UNCHANGED <<arrived, buff, packet, sent, ready>>
  <1>1. Take(t, taken + 1)
    BY DEF RecvFrom, RecvLoses
  <1>2. pc[t] = "recvfrom"
    BY <1>1 DEF Take, Trans
  <1>3. inHand[t] = 0 /\ sender[t] = 0
    BY <1>2 DEF TypeInv, Control, InHandIsTaken, Place, Holding, Sending
  <1>4. count'[t] = Length(taken + 1) \/ count'[t] = Nothing
    BY DEF TypeInv, TypeOK, RecvFrom, RecvLoses
  <1>5. RecvFrom(t) => count'[t] = Length(taken + 1)
    BY DEF TypeInv, TypeOK, RecvFrom
  <1>6. \A u \in Threads \ {t} : count'[u] = count[u]
    BY DEF TypeInv, TypeOK, RecvFrom, RecvLoses
  <1>. QED
    BY <1>1, <1>2, <1>3, <1>4, <1>5, <1>6 DEF TypeInv, TypeOK, Take, Trans, Untouched

\* The thread goes on to a sender, or to recvfrom() after the last.
LEMMA Forwarding ==
    ASSUME TypeInv, NEW t \in Threads, Forward(t) \/ NextSender(t)
    PROVE  /\ pc[t] \in {"add", "addSent"} /\ inHand[t] # 0 /\ count[t] # Nothing
           /\ packet[t] = <<>> /\ sender[t] \in Nat
           /\ pc'[t] = (IF sender[t] + 1 \in Senders THEN "copyOut" ELSE "recvfrom")
           /\ sender'[t] = (IF sender[t] + 1 \in Senders THEN sender[t] + 1 ELSE 0)
           /\ inHand'[t] = (IF sender[t] + 1 \in Senders THEN inHand[t] ELSE 0)
           /\ byte'[t] = 1
           /\ \A u \in Threads \ {t} : Untouched(u)
           /\ UNCHANGED <<process, kernelVars, buff, count, packet, sent, history>>
  <1>1. sender[t] \in Nat
    BY Sizing DEF TypeInv, TypeOK
  <1>2. PICK from \in {"add", "addSent"} :
           /\ pc[t] = from /\ GoToSender(t, from, sender[t] + 1)
           /\ from = "addSent" \/ (count[t] > 0 /\ count[t] <= MaxPacketSize)
    <2>1. CASE Forward(t)
      <3>1. pc[t] = "add" /\ GoToSender(t, "add", 1) /\ count[t] > 0 /\ count[t] <= MaxPacketSize
        BY <2>1 DEF Forward, GoToSender, Trans
      <3>2. sender[t] = 0
        BY <3>1 DEF TypeInv, Control, Place, Sending
      <3>. QED
        BY <3>1, <3>2
    <2>2. CASE NextSender(t)
      <3>1. pc[t] = "addSent" /\ GoToSender(t, "addSent", sender[t] + 1)
        BY <2>2 DEF NextSender, GoToSender, Trans
      <3>. QED
        BY <3>1
    <2>. QED
      BY <2>1, <2>2
  <1>3. packet[t] = <<>> /\ inHand[t] # 0 /\ count[t] # Nothing
    BY <1>2, Sizing DEF TypeInv, Control, Place, Sending
  <1>4. UNCHANGED <<process, kernelVars, buff, count, packet, sent, history>>
    BY DEF Forward, NextSender
  <1>. QED
    BY <1>1, <1>2, <1>3, <1>4 DEF TypeInv, TypeOK, GoToSender, Trans, Untouched

\* A drain ends with an empty datagram, a lost one or none.
LEMMA Ending ==
    ASSUME TypeInv, NEW t \in Threads, EndDrain(t)
    PROVE  /\ pc[t] = "add" /\ pc'[t] = "off" /\ inHand'[t] = 0 /\ sender[t] = 0
           /\ inHand[t] = 0 \/ count[t] = Nothing
           /\ \A u \in Threads \ {t} : Untouched(u)
           /\ UNCHANGED <<process, kernelVars, buff, sender, packet, sent, history>>
  <1>1. pc[t] = "add" /\ (count[t] = 0 \/ count[t] > MaxPacketSize)
    BY DEF EndDrain, Trans
  <1>2. sender[t] = 0 /\ (inHand[t] = 0 \/ count[t] = Nothing)
    BY <1>1, Sizing DEF TypeInv, Control, InHandIsTaken, Place, Sending
  <1>. QED
    BY <1>1, <1>2 DEF EndDrain, TypeInv, TypeOK, Trans, Untouched

-----------------------------------------------------------------------------
(* UnreadIsCovered.                                                          *)

LEMMA CoverStep == TypeInv /\ UnreadIsCovered /\ [Next]_vars => UnreadIsCovered'
  <1>. SUFFICES ASSUME TypeInv, UnreadIsCovered, [Next]_vars
                PROVE  UnreadIsCovered'
    OBVIOUS
  <1>1. ASSUME NEW u \in Threads, Untouched(u), WillReceive(u)
        PROVE  WillReceive(u)'
    BY <1>1 DEF Untouched, WillReceive
  <1>2. CASE \E n \in Sizes : Arrive(n)
    BY <1>2 DEF Arrive, UnreadIsCovered
  <1>3. CASE \E t \in Threads : Dispatch(t)
    <2>1. PICK t \in Threads : Dispatch(t)
      BY <1>3
    <2>2. pc'[t] = "recvfrom"
      BY <2>1 DEF Dispatch, Trans, TypeInv, TypeOK
    <2>. QED
      BY <2>2 DEF UnreadIsCovered, WillReceive
  <1>4. CASE \E t \in Threads : RecvFrom(t) \/ RecvLoses(t)
    <2>1. PICK t \in Threads : RecvFrom(t) \/ RecvLoses(t)
      BY <1>4
    <2>2. CASE RecvFrom(t) /\ Length(taken + 1) > 0
      <3>1. taken \in Nat /\ Length(taken + 1) \in 0 .. MaxPacketSize
        BY <2>1, TakeTyped DEF RecvFrom, RecvLoses
      <3>2. inHand'[t] = taken + 1 /\ count'[t] = Length(taken + 1)
        BY <2>2, Taking DEF TypeInv, TypeOK, RecvFrom
      <3>. QED
        BY <3>1, <3>2, Sizing DEF UnreadIsCovered, WillReceive
    <2>3. CASE ~(RecvFrom(t) /\ Length(taken + 1) > 0)
      <3>1. taken \in Nat /\ Length(taken + 1) \in 0 .. MaxPacketSize
        BY <2>1, TakeTyped DEF RecvFrom, RecvLoses
      <3>2. cutOff'
        <4>1. CASE RecvLoses(t)
          BY <4>1 DEF RecvLoses
        <4>2. CASE RecvFrom(t)
          <5>1. Length(taken + 1) = 0
            BY <2>3, <3>1, <4>2
          <5>. QED
            BY <4>2, <5>1 DEF RecvFrom
        <4>. QED
          BY <2>1, <4>1, <4>2
      <3>. QED
        BY <3>2 DEF UnreadIsCovered
    <2>. QED
      BY <2>2, <2>3
  <1>5. CASE \E t \in Threads : RecvNothing(t)
    BY <1>5 DEF RecvNothing, kernelVars, Unread, UnreadIsCovered
  <1>6. CASE \E t \in Threads : CopyIn(t) \/ Report(t) \/ CopyOut(t) \/ Transmit(t)
    <2>1. PICK t \in Threads : CopyIn(t) \/ Report(t) \/ CopyOut(t) \/ Transmit(t)
      BY <1>6
    <2>2. UNCHANGED <<arrived, taken, ready, cutOff, inHand, count>>
      BY <2>1 DEF CopyIn, Report, CopyOut, Transmit, kernelVars, history
    <2>3. pc[t] # "recvfrom" /\ \A u \in Threads \ {t} : pc'[u] = pc[u]
      BY <2>1, Moves DEF CopyIn, Report, CopyOut, Transmit, TypeInv
    <2>. QED
      BY <2>2, <2>3 DEF UnreadIsCovered, Unread, WillReceive
  <1>7. CASE \E t \in Threads : Forward(t) \/ NextSender(t)
    <2>1. PICK t \in Threads : Forward(t) \/ NextSender(t)
      BY <1>7
    <2>2. UNCHANGED <<arrived, taken, ready, cutOff, count>>
      BY <2>1, Forwarding DEF kernelVars, history
    <2>3. WillReceive(t)'
      BY <2>1, <2>2, Forwarding DEF WillReceive
    <2>. QED
      BY <2>3 DEF UnreadIsCovered
  <1>8. CASE \E t \in Threads : EndDrain(t)
    <2>1. PICK t \in Threads : EndDrain(t)
      BY <1>8
    <2>2. UNCHANGED <<arrived, taken, ready, cutOff>>
      BY <2>1, Ending DEF kernelVars, history
    <2>3. ~WillReceive(t) /\ \A u \in Threads \ {t} : Untouched(u)
      BY <2>1, Ending DEF WillReceive
    <2>. QED
      BY <1>1, <2>2, <2>3 DEF UnreadIsCovered, Unread
  <1>9. CASE (\E t \in Threads : SendFails(t)) \/ DivideByZero \/ Statistics \/ UNCHANGED vars
    <2>1. UNCHANGED <<kernelVars, threadVars, history>>
      BY <1>9 DEF SendFails, DivideByZero, Statistics, vars
    <2>. QED
      BY <2>1 DEF kernelVars, threadVars, history, UnreadIsCovered, Unread, WillReceive
  <1>. QED
    BY <1>2, <1>3, <1>4, <1>5, <1>6, <1>7, <1>8, <1>9 DEF Next, ThreadStep

\* No unread datagram is forgotten between epoll's edges and the drains but behind an
\* empty or a lost one, for any threads, senders and datagrams.
THEOREM NoneForgotten == Spec => []UnreadIsCovered
  <1>1. Init => UnreadIsCovered
    BY DEF Init, UnreadIsCovered, Unread
  <1>. QED
    BY <1>1, InitTyped, NextTyped, CoverStep, PTL DEF Spec

-----------------------------------------------------------------------------
(* BytesAreReceived.  What a thread has copied into the buffer is there, its  *)
(* own or another's, and so whatever it copies out was received in its place. *)

IsReceived(d, j) == d \in 1 .. taken /\ arrived[d] >= j

\* Byte j of the buffer has been written for thread t.
Filled(t, j) ==
    \/ pc[t] = "copyIn" /\ j < byte[t]
    \/ inHand[t] # 0 /\ pc[t] # "copyIn" /\ j <= Length(inHand[t])

BufferReceived == \A j \in 1 .. MaxPacketSize : buff[j] # 0 => IsReceived(buff[j], j)
FilledWritten == \A t \in Threads : \A j \in 1 .. MaxPacketSize : Filled(t, j) => buff[j] # 0
PacketsReceived ==
    \A t \in Threads : \A j \in 1 .. Len(packet[t]) : IsReceived(packet[t][j], j)
SentReceived ==
    \A s \in Senders : \A i \in 1 .. Len(sent[s]) : \A j \in 1 .. Len(sent[s][i]) :
        IsReceived(sent[s][i][j], j)

BytesInv == BufferReceived /\ FilledWritten /\ PacketsReceived /\ SentReceived

LEMMA ReceivedStays ==
    ASSUME TypeOK, KernelGrows, NEW d, NEW j, IsReceived(d, j)
    PROVE  d \in 1 .. taken' /\ arrived'[d] >= j
  <1>1. taken \in Nat
    BY LenProperties DEF TypeOK
  <1>. QED
    BY <1>1 DEF IsReceived, KernelGrows

\* What is filled for a thread that is not touched was filled before.
LEMMA FilledStays ==
    ASSUME TypeInv, KernelGrows, NEW u \in Threads, Untouched(u), NEW j, Filled(u, j)'
    PROVE  Filled(u, j)
  <1>1. inHand[u] # 0 => Length(inHand[u])' = Length(inHand[u])
    BY DEF TypeInv, Control, InHandIsTaken, KernelGrows, Length, Untouched
  <1>. QED
    BY <1>1 DEF Filled, Untouched

\* A step that neither copies nor sends.
LEMMA BytesStay ==
    ASSUME TypeInv, BytesInv, KernelGrows, UNCHANGED <<buff, packet, sent>>,
           \A t \in Threads : \A j \in 1 .. MaxPacketSize : Filled(t, j)' => Filled(t, j)
    PROVE  BytesInv'
  <1>1. BufferReceived'
    BY ReceivedStays DEF TypeInv, BytesInv, BufferReceived, IsReceived
  <1>2. FilledWritten'
    BY DEF BytesInv, FilledWritten
  <1>3. PacketsReceived'
    BY ReceivedStays DEF TypeInv, BytesInv, PacketsReceived, IsReceived
  <1>4. SentReceived'
    BY ReceivedStays DEF TypeInv, BytesInv, SentReceived, IsReceived
  <1>. QED
    BY <1>1, <1>2, <1>3, <1>4 DEF BytesInv

LEMMA CopyInBytes ==
    ASSUME TypeInv, BytesInv, NEW t \in Threads, CopyIn(t)
    PROVE  BytesInv'
  <1>1. /\ pc[t] = "copyIn"
        /\ pc'[t] = (IF byte[t] = Length(inHand[t]) THEN "report" ELSE "copyIn")
    BY Moves DEF TypeInv, CopyIn
  <1>2. /\ inHand[t] # 0 /\ inHand[t] \in 1 .. taken
        /\ Length(inHand[t]) \in 1 .. MaxPacketSize
        /\ byte[t] \in 1 .. Length(inHand[t]) /\ byte[t] \in 1 .. MaxPacketSize
    BY <1>1, Sizing DEF TypeInv, Control, InHandIsTaken, Place
  <1>3. /\ UNCHANGED <<arrived, taken, inHand, packet, sent>>
        /\ byte'[t] = byte[t] + 1 /\ buff'[byte[t]] = inHand[t]
        /\ \A j \in 1 .. MaxPacketSize : j # byte[t] => buff'[j] = buff[j]
    BY <1>2 DEF TypeInv, TypeOK, CopyIn, kernelVars
  <1>4. \A u \in Threads \ {t} : Untouched(u)
    BY DEF TypeInv, TypeOK, CopyIn, Trans, Untouched
  <1>5. KernelGrows
    BY <1>3, KernelStays DEF TypeInv
  <1>6. arrived[inHand[t]] >= byte[t]
    <2>1. arrived[inHand[t]] \in Nat
      <3>1. inHand[t] \in 1 .. Len(arrived) /\ arrived \in Seq(Sizes)
        BY <1>2, LenProperties DEF TypeInv, TypeOK
      <3>2. arrived[inHand[t]] \in Sizes
        BY <3>1, ElementOfSeq
      <3>. QED
        BY <3>2, RelayAssumption
    <2>. QED
      BY <1>2, <2>1, Sizing DEF Length, Shorter
  <1>7. BufferReceived'
    <2>1. ASSUME NEW j \in 1 .. MaxPacketSize, buff'[j] # 0
          PROVE  buff'[j] \in 1 .. taken /\ arrived[buff'[j]] >= j
      BY <1>2, <1>3, <1>6, <2>1 DEF BytesInv, BufferReceived, IsReceived
    <2>. QED
      BY <1>3, <2>1 DEF BufferReceived, IsReceived
  <1>8. FilledWritten'
    <2>1. ASSUME NEW j \in 1 .. MaxPacketSize, Filled(t, j)'
          PROVE  buff'[j] # 0
      <3>1. j <= byte[t]
        BY <1>1, <1>2, <1>3, <2>1 DEF Filled, Length
      <3>2. CASE j = byte[t]
        BY <1>2, <1>3, <3>2
      <3>3. CASE j < byte[t]
        BY <1>1, <1>3, <3>3 DEF BytesInv, FilledWritten, Filled
      <3>. QED
        BY <1>2, <3>1, <3>2, <3>3
    <2>2. ASSUME NEW u \in Threads \ {t}, NEW j \in 1 .. MaxPacketSize, Filled(u, j)'
          PROVE  buff'[j] # 0
      <3>1. Filled(u, j)
        BY <1>4, <1>5, <2>2, FilledStays
      <3>. QED
        BY <1>2, <1>3, <3>1 DEF BytesInv, FilledWritten
    <2>. QED
      BY <2>1, <2>2 DEF FilledWritten
  <1>9. PacketsReceived' /\ SentReceived'
    BY <1>3 DEF BytesInv, PacketsReceived, SentReceived, IsReceived
  <1>. QED
    BY <1>7, <1>8, <1>9 DEF BytesInv

LEMMA CopyOutBytes ==
    ASSUME TypeInv, BytesInv, NEW t \in Threads, CopyOut(t)
    PROVE  BytesInv'
  <1>1. pc[t] = "copyOut" /\ pc'[t] # "copyIn" /\ \A u \in Threads \ {t} : pc'[u] = pc[u]
    BY Moves DEF TypeInv, CopyOut
  <1>2. UNCHANGED <<arrived, taken, inHand, sent, buff>>
    BY DEF CopyOut, kernelVars
  <1>3. \A u \in Threads \ {t} : Untouched(u) /\ packet'[u] = packet[u]
    BY DEF TypeInv, TypeOK, CopyOut, Trans, Untouched
  <1>4. KernelGrows
    BY <1>2, KernelStays DEF TypeInv
  <1>5. inHand[t] # 0 /\ count[t] = Length(inHand[t])
    BY <1>1 DEF TypeInv, Control, InHandIsTaken, Place, Sending
  <1>6. /\ byte[t] \in 1 .. MaxPacketSize /\ byte[t] \in 1 .. count[t]
        /\ Len(packet'[t]) = byte[t] /\ packet'[t][byte[t]] = buff[byte[t]]
        /\ \A j \in 1 .. byte[t] - 1 : packet'[t][j] = packet[t][j]
        /\ Len(packet[t]) = byte[t] - 1
    BY CopiedOut
  <1>7. IsReceived(buff[byte[t]], byte[t])
    <2>1. Filled(t, byte[t])
      BY <1>1, <1>5, <1>6 DEF Filled
    <2>. QED
      BY <1>6, <2>1 DEF BytesInv, FilledWritten, BufferReceived
  <1>8. PacketsReceived'
    <2>1. ASSUME NEW j \in 1 .. Len(packet'[t])
          PROVE  packet'[t][j] \in 1 .. taken /\ arrived[packet'[t][j]] >= j
      <3>1. CASE j = byte[t]
        BY <1>6, <1>7, <3>1 DEF IsReceived
      <3>2. CASE j # byte[t]
        <4>1. j \in 1 .. byte[t] - 1 /\ j \in 1 .. Len(packet[t])
          BY <1>6, <3>2, Sizing
        <4>. QED
          BY <1>6, <4>1 DEF BytesInv, PacketsReceived, IsReceived
      <3>. QED
        BY <3>1, <3>2
    <2>2. ASSUME NEW u \in Threads \ {t}, NEW j \in 1 .. Len(packet'[u])
          PROVE  packet'[u][j] \in 1 .. taken /\ arrived[packet'[u][j]] >= j
      BY <1>3 DEF BytesInv, PacketsReceived, IsReceived
    <2>. QED
      BY <1>2, <2>1, <2>2 DEF PacketsReceived, IsReceived
  <1>9. FilledWritten'
    <2>1. ASSUME NEW u \in Threads, NEW j \in 1 .. MaxPacketSize, Filled(u, j)'
          PROVE  Filled(u, j)
      <3>1. CASE u = t
        BY <1>1, <1>2, <2>1, <3>1 DEF Filled, Length
      <3>2. CASE u # t
        BY <1>3, <1>4, <2>1, <3>2, FilledStays
      <3>. QED
        BY <3>1, <3>2
    <2>. QED
      BY <1>2, <2>1 DEF BytesInv, FilledWritten
  <1>10. BufferReceived' /\ SentReceived'
    BY <1>2 DEF BytesInv, BufferReceived, SentReceived, IsReceived
  <1>. QED
    BY <1>8, <1>9, <1>10 DEF BytesInv

LEMMA TransmitBytes ==
    ASSUME TypeInv, BytesInv, NEW t \in Threads, Transmit(t)
    PROVE  BytesInv'
  <1>. DEFINE s == sender[t]
  <1>1. /\ UNCHANGED <<arrived, taken, inHand, byte, count, buff>>
        /\ packet'[t] = <<>> /\ \A u \in Threads \ {t} : packet'[u] = packet[u]
    BY DEF Transmit, kernelVars, TypeInv, TypeOK
  <1>2. /\ pc[t] = "transmit" /\ pc'[t] = "reportSent"
        /\ \A u \in Threads \ {t} : pc'[u] = pc[u]
    BY Moves DEF TypeInv, Transmit
  <1>3. BufferReceived'
    BY <1>1 DEF BytesInv, BufferReceived, IsReceived
  <1>4. FilledWritten'
    BY <1>1, <1>2 DEF BytesInv, FilledWritten, Filled, Length
  <1>5. PacketsReceived'
    <2>1. Len(packet'[t]) = 0
      BY <1>1
    <2>. QED
      BY <1>1, <2>1 DEF BytesInv, PacketsReceived, IsReceived
  <1>6. SentReceived'
    <2>1. ASSUME NEW i \in 1 .. Len(sent'[s]), NEW j \in 1 .. Len(sent'[s][i])
          PROVE  sent'[s][i][j] \in 1 .. taken /\ arrived[sent'[s][i][j]] >= j
      <3>1. CASE i \in 1 .. Len(sent[s])
        <4>1. s \in Senders /\ sent'[s][i] = sent[s][i]
          BY <3>1, Transmitted
        <4>2. \A k \in 1 .. Len(sent[s][i]) : IsReceived(sent[s][i][k], k)
          BY <3>1, <4>1 DEF BytesInv, SentReceived
        <4>. QED
          BY <4>1, <4>2 DEF IsReceived
      <3>2. CASE i \notin 1 .. Len(sent[s])
        <4>1. i = Len(sent[s]) + 1
          BY <3>2, Transmitted
        <4>2. sent'[s][i] = packet[t]
          BY <4>1, Transmitted
        <4>. QED
          BY <4>2 DEF BytesInv, PacketsReceived, IsReceived
      <3>. QED
        BY <3>1, <3>2
    <2>2. \A r \in Senders \ {s} : sent'[r] = sent[r]
      BY Transmitted
    <2>. QED
      BY <1>1, <2>1, <2>2 DEF BytesInv, SentReceived, IsReceived
  <1>. QED
    BY <1>3, <1>4, <1>5, <1>6 DEF BytesInv

\* The steps of a thread that leave the buffer and the packets alone.
LEMMA OwnBytesStay ==
    ASSUME TypeInv, BytesInv, KernelGrows, UNCHANGED <<buff, packet, sent>>,
           NEW t \in Threads, \A u \in Threads \ {t} : Untouched(u),
           \A j \in 1 .. MaxPacketSize : Filled(t, j)' => Filled(t, j)
    PROVE  BytesInv'
  <1>1. \A u \in Threads : \A j \in 1 .. MaxPacketSize : Filled(u, j)' => Filled(u, j)
    BY FilledStays
  <1>. QED
    BY <1>1, BytesStay

LEMMA BytesStep == TypeInv /\ BytesInv /\ [Next]_vars => BytesInv'
  <1>. SUFFICES ASSUME TypeInv, BytesInv, [Next]_vars
                PROVE  BytesInv'
    OBVIOUS
  <1>1. CASE \E n \in Sizes : Arrive(n)
    <2>1. PICK n \in Sizes : Arrive(n)
      BY <1>1
    <2>2. KernelGrows
      <3>1. \A d \in 1 .. Len(arrived) : arrived'[d] = arrived[d]
        BY <2>1, Appended DEF TypeInv, TypeOK, Arrive
      <3>2. taken' = taken /\ taken \in 0 .. Len(arrived) /\ Len(arrived) \in Nat
        BY <2>1, LenProperties DEF TypeInv, TypeOK, Arrive
      <3>. QED
        BY <3>1, <3>2 DEF KernelGrows
    <2>3. \A u \in Threads : Untouched(u)
      BY <2>1 DEF Arrive, threadVars, Untouched
    <2>4. UNCHANGED <<buff, packet, sent>>
      BY <2>1 DEF Arrive, threadVars
    <2>. QED
      BY <2>2, <2>3, <2>4, FilledStays, BytesStay
  <1>2. CASE \E t \in Threads : Dispatch(t)
    <2>1. PICK t \in Threads : Dispatch(t)
      BY <1>2
    <2>2. UNCHANGED <<arrived, taken, count, inHand, byte, sender, buff, packet, sent>>
      BY <2>1 DEF Dispatch
    <2>3. pc[t] = "off" /\ pc'[t] = "recvfrom" /\ \A u \in Threads \ {t} : pc'[u] = pc[u]
      BY <2>1, Moves DEF TypeInv, Dispatch
    <2>4. KernelGrows
      BY <2>2, KernelStays DEF TypeInv
    <2>5. \A j \in 1 .. MaxPacketSize : Filled(t, j)' => Filled(t, j)
      BY <2>2, <2>3 DEF Filled, Length
    <2>. QED
      BY <2>2, <2>3, <2>4, <2>5, OwnBytesStay DEF Untouched
  <1>3. CASE \E t \in Threads : RecvFrom(t) \/ RecvLoses(t)
    <2>1. PICK t \in Threads : RecvFrom(t) \/ RecvLoses(t)
      BY <1>3
    <2>2. KernelGrows
      BY <2>1, TakeTyped DEF RecvFrom, RecvLoses
    <2>3. \A j \in 1 .. MaxPacketSize : Filled(t, j)' => Filled(t, j)
      BY <2>1, Taking DEF Filled
    <2>. QED
      BY <2>1, <2>2, <2>3, Taking, OwnBytesStay
  <1>4. CASE \E t \in Threads : RecvNothing(t)
    <2>1. PICK t \in Threads : RecvNothing(t)
      BY <1>4
    <2>2. pc[t] = "recvfrom" /\ pc'[t] = "report" /\ \A u \in Threads \ {t} : pc'[u] = pc[u]
      BY <2>1, Moves DEF TypeInv, RecvNothing
    <2>3. /\ UNCHANGED <<arrived, taken, inHand, byte, sender, buff, packet, sent>>
          /\ \A u \in Threads \ {t} : count'[u] = count[u]
      BY <2>1 DEF RecvNothing, kernelVars, TypeInv, TypeOK
    <2>4. KernelGrows
      BY <2>3, KernelStays DEF TypeInv
    <2>5. \A j \in 1 .. MaxPacketSize : Filled(t, j)' => Filled(t, j)
      BY <2>2, <2>3 DEF Filled, Length
    <2>. QED
      BY <2>2, <2>3, <2>4, <2>5, OwnBytesStay DEF Untouched
  <1>5. CASE \E t \in Threads : Report(t)
    <2>1. PICK t \in Threads : Report(t)
      BY <1>5
    <2>2. /\ pc[t] \in {"report", "reportSent"} /\ pc'[t] \in {"add", "addSent"}
          /\ \A u \in Threads \ {t} : pc'[u] = pc[u]
      BY <2>1, Moves DEF TypeInv, Report
    <2>3. UNCHANGED <<arrived, taken, count, inHand, byte, sender, buff, packet, sent>>
      BY <2>1 DEF Report, kernelVars
    <2>4. KernelGrows
      BY <2>3, KernelStays DEF TypeInv
    <2>5. \A j \in 1 .. MaxPacketSize : Filled(t, j)' => Filled(t, j)
      BY <2>2, <2>3 DEF Filled, Length
    <2>. QED
      BY <2>2, <2>3, <2>4, <2>5, OwnBytesStay DEF Untouched
  <1>6. CASE \E t \in Threads : Forward(t) \/ NextSender(t)
    <2>1. PICK t \in Threads : Forward(t) \/ NextSender(t)
      BY <1>6
    <2>2. UNCHANGED <<arrived, taken, buff, packet, sent>>
      BY <2>1, Forwarding DEF kernelVars
    <2>3. KernelGrows
      BY <2>2, KernelStays DEF TypeInv
    <2>4. \A j \in 1 .. MaxPacketSize : Filled(t, j)' => Filled(t, j)
      BY <2>1, <2>2, Forwarding DEF Filled, Length
    <2>. QED
      BY <2>1, <2>2, <2>3, <2>4, Forwarding, OwnBytesStay
  <1>7. CASE \E t \in Threads : EndDrain(t)
    <2>1. PICK t \in Threads : EndDrain(t)
      BY <1>7
    <2>2. UNCHANGED <<arrived, taken, buff, packet, sent>>
      BY <2>1, Ending DEF kernelVars
    <2>3. KernelGrows
      BY <2>2, KernelStays DEF TypeInv
    <2>4. \A j \in 1 .. MaxPacketSize : Filled(t, j)' => Filled(t, j)
      BY <2>1, Ending DEF Filled
    <2>. QED
      BY <2>1, <2>2, <2>3, <2>4, Ending, OwnBytesStay
  <1>8. CASE (\E t \in Threads : SendFails(t)) \/ DivideByZero \/ Statistics \/ UNCHANGED vars
    <2>1. UNCHANGED <<kernelVars, buff, threadVars, sent>>
      BY <1>8 DEF SendFails, DivideByZero, Statistics, vars
    <2>. QED
      BY <2>1 DEF kernelVars, threadVars, BytesInv, BufferReceived, FilledWritten,
                  PacketsReceived, SentReceived, IsReceived, Filled, Length
  <1>. QED
    BY <1>1, <1>2, <1>3, <1>4, <1>5, <1>6, <1>7, <1>8, CopyInBytes, CopyOutBytes, TransmitBytes
       DEF Next, ThreadStep

LEMMA SentInv == TypeInv /\ BytesInv => BytesAreReceived
  <1>. SUFFICES ASSUME TypeInv, BytesInv, NEW s \in Senders, NEW i \in DOMAIN sent[s],
                       NEW j \in DOMAIN sent[s][i]
                PROVE  sent[s][i][j] \in 1 .. taken /\ arrived[sent[s][i][j]] >= j
    BY DEF BytesAreReceived
  <1>1. sent[s] \in Seq(Seq(Bytes))
    BY DEF TypeInv, TypeOK
  <1>2. i \in 1 .. Len(sent[s])
    BY <1>1, LenProperties
  <1>3. sent[s][i] \in Seq(Bytes)
    BY <1>1, <1>2, ElementOfSeq
  <1>4. j \in 1 .. Len(sent[s][i])
    BY <1>3, LenProperties
  <1>. QED
    BY <1>2, <1>4 DEF BytesInv, SentReceived, IsReceived

\* No sender sends a byte that was not received at its place in some datagram, for any
\* threads, however they share the buffer.
THEOREM OnlyReceivedBytes == Spec => []BytesAreReceived
  <1>1. Init => BytesInv
    <2>. SUFFICES ASSUME Init
                  PROVE  BytesInv
      OBVIOUS
    <2>1. BufferReceived /\ FilledWritten
      BY DEF Init, BufferReceived, FilledWritten, Filled
    <2>2. (\A t \in Threads : Len(packet[t]) = 0) /\ \A s \in Senders : Len(sent[s]) = 0
      BY DEF Init
    <2>. QED
      BY <2>1, <2>2 DEF BytesInv, PacketsReceived, SentReceived
  <1>. QED
    BY <1>1, InitTyped, NextTyped, BytesStep, SentInv, PTL DEF Spec

-----------------------------------------------------------------------------
(* NoPacketLost.  A datagram that is received makes its thread the debtor of *)
(* every sender, and each sender's transmission takes it off one debt.       *)

Debtors(s) == {t \in Threads : Owes(t, s)}

LEMMA DebtorsFinite ==
    ASSUME NEW s
    PROVE  IsFiniteSet(Debtors(s)) /\ Cardinality(Debtors(s)) \in Nat
  <1>1. Debtors(s) \subseteq Threads
    BY DEF Debtors
  <1>. QED
    BY <1>1, ThreadsAssumption, FS_Subset, FS_CardinalityType

\* The books of a sender balance.
Balanced(s) == Len(sent[s]) + Cardinality(Debtors(s)) = Len(received)

\* A step of thread t that changes no debt.
LEMMA DebtStays ==
    ASSUME TypeInv, NEW t \in Threads, \A u \in Threads \ {t} : Untouched(u),
           \A s \in Senders : Owes(t, s)' <=> Owes(t, s),
           UNCHANGED <<sent, received>>, NoPacketLost
    PROVE  NoPacketLost'
  <1>1. ASSUME NEW s \in Senders
        PROVE  Debtors(s)' = Debtors(s)
    BY DEF Debtors, Owes, Untouched
  <1>. QED
    BY <1>1 DEF NoPacketLost, Debtors

LEMMA TakeDebt ==
    ASSUME TypeInv, NoPacketLost, NEW t \in Threads, RecvFrom(t) \/ RecvLoses(t)
    PROVE  NoPacketLost'
  <1>1. /\ taken \in Nat /\ taken + 1 \in Datagrams /\ Length(taken + 1) \in 0 .. MaxPacketSize
    BY TakeTyped DEF RecvFrom, RecvLoses
  <1>2. inHand[t] = 0 /\ sender'[t] = 0 /\ \A u \in Threads \ {t} : Untouched(u)
    BY Taking
  <1>3. CASE RecvFrom(t) /\ Length(taken + 1) > 0
    <2>1. inHand'[t] = taken + 1 /\ count'[t] = Length(taken + 1)
      BY <1>3, Taking
    <2>2. Len(received') = Len(received) + 1
      <3>1. received' = Append(received, Packet(taken + 1, Length(taken + 1)))
        BY <1>3 DEF RecvFrom
      <3>2. received \in Seq(Seq(Datagrams))
        BY DEF TypeInv, TypeOK
      <3>. QED
        BY <1>1, <3>1, <3>2, PacketTyped, Appended
    <2>3. ASSUME NEW s \in Senders
          PROVE  Balanced(s)'
      <3>1. t \notin Debtors(s)
        BY <1>2 DEF Debtors, Owes
      <3>2. Owes(t, s)'
        BY <1>1, <1>2, <2>1, Sizing DEF Owes, Senders
      <3>3. Debtors(s)' = Debtors(s) \cup {t}
        BY <1>2, <3>2 DEF Debtors, Owes, Untouched
      <3>4. Cardinality(Debtors(s)') = Cardinality(Debtors(s)) + 1
        BY <3>1, <3>3, DebtorsFinite, FS_AddElement
      <3>5. sent' = sent
        BY Taking
      <3>6. /\ Len(sent[s]) \in Nat /\ Len(received) \in Nat
            /\ Len(sent[s]) + Cardinality(Debtors(s)) = Len(received)
        BY LenProperties DEF NoPacketLost, Debtors, TypeInv, TypeOK
      <3>. QED
        BY <2>2, <3>4, <3>5, <3>6, DebtorsFinite DEF Balanced
    <2>. QED
      BY <2>3 DEF NoPacketLost, Balanced, Debtors
  <1>4. CASE ~(RecvFrom(t) /\ Length(taken + 1) > 0)
    <2>1. inHand'[t] = 0 \/ count'[t] = Nothing
      <3>1. CASE RecvFrom(t)
        <4>1. ~(Length(taken + 1) > 0)
          BY <1>4, <3>1
        <4>. QED
          BY <4>1, Taking
      <3>2. CASE RecvLoses(t)
        BY <3>2 DEF RecvLoses, TypeInv, TypeOK
      <3>. QED
        BY <3>1, <3>2
    <2>2. received' = received /\ sent' = sent
      <3>1. CASE RecvFrom(t)
        <4>1. ~(Length(taken + 1) > 0)
          BY <1>4, <3>1
        <4>. QED
          BY <3>1, <4>1, Taking DEF RecvFrom
      <3>2. CASE RecvLoses(t)
        BY <3>2, Taking DEF RecvLoses
      <3>. QED
        BY <3>1, <3>2
    <2>3. \A s \in Senders : Owes(t, s)' <=> Owes(t, s)
      BY <1>2, <2>1 DEF Owes, Nothing
    <2>. QED
      BY <1>2, <2>2, <2>3, DebtStays
  <1>. QED
    BY <1>3, <1>4

LEMMA TransmitDebt ==
    ASSUME TypeInv, NoPacketLost, NEW t \in Threads, Transmit(t)
    PROVE  NoPacketLost'
  <1>1. /\ UNCHANGED <<count, inHand, sender, received>>
        /\ \A u \in Threads \ {t} : packet'[u] = packet[u]
    BY DEF Transmit, history, TypeInv, TypeOK
  <1>2. /\ pc[t] = "transmit" /\ pc'[t] = "reportSent"
        /\ \A u \in Threads \ {t} : pc'[u] = pc[u]
    BY Moves DEF TypeInv, Transmit
  <1>3. inHand[t] # 0 /\ count[t] # Nothing /\ sender[t] \in Senders
    BY <1>2 DEF TypeInv, Control, Place, Sending
  <1>4. ASSUME NEW s \in Senders, s # sender[t]
        PROVE  Balanced(s)'
    <2>1. Debtors(s)' = Debtors(s)
      BY <1>1, <1>2, <1>4 DEF Debtors, Owes, Nothing
    <2>2. sent'[s] = sent[s]
      BY <1>4, Transmitted
    <2>. QED
      BY <1>1, <2>1, <2>2 DEF Balanced, NoPacketLost, Debtors
  <1>5. Balanced(sender[t])'
    <2>. DEFINE s == sender[t]
    <2>1. t \in Debtors(s)
      BY <1>2, <1>3 DEF Debtors, Owes
    <2>2. ~Owes(t, s)'
      BY <1>1, <1>2, <1>3, Sizing DEF Owes, Senders
    <2>3. {u \in Threads : Owes(u, s)'} = Debtors(s) \ {t}
      BY <1>1, <1>2, <2>2 DEF Debtors, Owes, Nothing
    <2>4. Cardinality(Debtors(s) \ {t}) = Cardinality(Debtors(s)) - 1
      BY <2>1, DebtorsFinite, FS_RemoveElement
    <2>5. Len(sent'[s]) = Len(sent[s]) + 1 /\ Len(sent[s]) \in Nat
      BY Transmitted
    <2>6. Len(sent[s]) + Cardinality(Debtors(s)) = Len(received) /\ Len(received) \in Nat
      BY <1>3, LenProperties DEF NoPacketLost, Debtors, TypeInv, TypeOK
    <2>7. Len(sent'[s]) + Cardinality(Debtors(s) \ {t}) = Len(received)
      BY <2>4, <2>5, <2>6, DebtorsFinite
    <2>8. s' = s
      BY <1>1
    <2>. QED
      BY <1>1, <2>3, <2>7, <2>8 DEF Balanced, Debtors
  <1>. QED
    BY <1>1, <1>4, <1>5 DEF NoPacketLost, Balanced, Debtors

LEMMA DebtStep == TypeInv /\ NoPacketLost /\ [Next]_vars => NoPacketLost'
  <1>. SUFFICES ASSUME TypeInv, NoPacketLost, [Next]_vars
                PROVE  NoPacketLost'
    OBVIOUS
  <1>1. CASE \E t \in Threads : RecvNothing(t)
    <2>1. PICK t \in Threads : RecvNothing(t)
      BY <1>1
    <2>2. pc[t] = "recvfrom" /\ \A u \in Threads \ {t} : pc'[u] = pc[u]
      BY <2>1, Moves DEF TypeInv, RecvNothing
    <2>3. /\ UNCHANGED <<inHand, byte, sender, packet, sent, received>>
          /\ \A u \in Threads \ {t} : count'[u] = count[u]
      BY <2>1 DEF RecvNothing, TypeInv, TypeOK
    <2>4. inHand[t] = 0
      BY <2>2 DEF TypeInv, Control, InHandIsTaken, Holding
    <2>5. \A s \in Senders : Owes(t, s)' <=> Owes(t, s)
      BY <2>3, <2>4 DEF Owes
    <2>. QED
      BY <2>2, <2>3, <2>5, DebtStays DEF Untouched
  <1>2. CASE \E t \in Threads : Dispatch(t) \/ CopyIn(t) \/ Report(t) \/ CopyOut(t)
    <2>1. PICK t \in Threads : Dispatch(t) \/ CopyIn(t) \/ Report(t) \/ CopyOut(t)
      BY <1>2
    <2>2. /\ UNCHANGED <<count, inHand, sender, sent, received>>
          /\ \A u \in Threads \ {t} : byte'[u] = byte[u] /\ packet'[u] = packet[u]
      BY <2>1 DEF Dispatch, CopyIn, Report, CopyOut, history, TypeInv, TypeOK
    <2>3. /\ pc[t] \in {"off", "copyIn", "report", "reportSent", "copyOut"}
          /\ pc[t] = "copyOut" => pc'[t] \in {"copyOut", "transmit"}
          /\ pc[t] # "copyOut" => pc'[t] \notin {"copyOut", "transmit"}
          /\ \A u \in Threads \ {t} : pc'[u] = pc[u]
      BY <2>1, Moves DEF Dispatch, CopyIn, Report, CopyOut, TypeInv
    <2>4. \A s \in Senders : Owes(t, s)' <=> Owes(t, s)
      BY <2>2, <2>3 DEF Owes, Nothing
    <2>. QED
      BY <2>2, <2>3, <2>4, DebtStays DEF Untouched
  <1>3. CASE \E t \in Threads : Forward(t) \/ NextSender(t)
    <2>1. PICK t \in Threads : Forward(t) \/ NextSender(t)
      BY <1>3
    <2>2. /\ pc[t] \in {"add", "addSent"} /\ inHand[t] # 0 /\ count[t] # Nothing
          /\ sender[t] \in Nat /\ count' = count
          /\ pc'[t] = (IF sender[t] + 1 \in Senders THEN "copyOut" ELSE "recvfrom")
          /\ sender'[t] = (IF sender[t] + 1 \in Senders THEN sender[t] + 1 ELSE 0)
          /\ inHand'[t] = (IF sender[t] + 1 \in Senders THEN inHand[t] ELSE 0)
      BY <2>1, Forwarding
    <2>3. ASSUME NEW s \in Senders
          PROVE  Owes(t, s)' <=> sender[t] < s
      <3>1. CASE sender[t] + 1 \in Senders
        BY <2>2, <3>1, Sizing DEF Owes, Senders, Nothing
      <3>2. CASE sender[t] + 1 \notin Senders
        BY <2>2, <3>2, Sizing DEF Owes, Senders
      <3>. QED
        BY <3>1, <3>2
    <2>4. \A s \in Senders : Owes(t, s) <=> sender[t] < s
      BY <2>2 DEF Owes
    <2>5. UNCHANGED <<sent, received>> /\ \A u \in Threads \ {t} : Untouched(u)
      BY <2>1, Forwarding DEF history
    <2>. QED
      BY <2>3, <2>4, <2>5, DebtStays
  <1>4. CASE \E t \in Threads : EndDrain(t)
    <2>1. PICK t \in Threads : EndDrain(t)
      BY <1>4
    <2>2. \A s \in Senders : ~Owes(t, s) /\ ~Owes(t, s)'
      BY <2>1, Ending DEF Owes
    <2>3. UNCHANGED <<sent, received>> /\ \A u \in Threads \ {t} : Untouched(u)
      BY <2>1, Ending DEF history
    <2>. QED
      BY <2>1, <2>2, <2>3, DebtStays
  <1>5. CASE \/ \E n \in Sizes : Arrive(n)
             \/ \E t \in Threads : SendFails(t)
             \/ DivideByZero \/ Statistics \/ UNCHANGED vars
    <2>1. UNCHANGED <<threadVars, sent, received>>
      BY <1>5 DEF Arrive, SendFails, DivideByZero, Statistics, vars, history
    <2>. QED
      BY <2>1 DEF threadVars, NoPacketLost, Owes, Nothing
  <1>. QED
    BY <1>1, <1>2, <1>3, <1>4, <1>5, TakeDebt, TransmitDebt DEF Next, ThreadStep

LEMMA NoDebtAtFirst == Init => NoPacketLost
  <1>. SUFFICES ASSUME Init, NEW s \in Senders
                PROVE  Len(sent[s]) + Cardinality(Debtors(s)) = Len(received)
    BY DEF NoPacketLost, Debtors
  <1>1. Debtors(s) = {}
    BY DEF Init, Debtors, Owes
  <1>2. Cardinality(Debtors(s)) = 0
    BY <1>1, FS_EmptySet
  <1>3. Len(sent[s]) = 0 /\ Len(received) = 0
    BY DEF Init
  <1>. QED
    BY <1>2, <1>3

\* Each sender sends as many packets as are received, but for those the threads still owe
\* it, for any threads, however they share the buffer.
THEOREM AllForwarded == Spec => []NoPacketLost
  BY NoDebtAtFirst, InitTyped, NextTyped, DebtStep, PTL DEF Spec

-----------------------------------------------------------------------------
(* ImplementsRelay.  While drains have not overlapped, one thread at most has *)
(* a datagram in hand, and what it has copied, either way, is of that one.    *)

Alone == \A t, u \in Threads : inHand[t] # 0 /\ inHand[u] # 0 => t = u

Clean(t) ==
    inHand[t] # 0 =>
        /\ \A j \in 1 .. MaxPacketSize : Filled(t, j) => buff[j] = inHand[t]
        /\ \A j \in 1 .. Len(packet[t]) : packet[t][j] = inHand[t]
        /\ count[t] # Nothing => received[Len(received)] = Packet(inHand[t], count[t])

Exclusive == ~overlapped => Alone /\ \A t \in Threads : Clean(t)

\* A step that leaves the buffer alone has thread u let go of its datagram, or keeps
\* all it has of it.
Keeps(u) ==
    \/ inHand'[u] = 0
    \/ /\ inHand'[u] = inHand[u] /\ count'[u] = count[u]
       /\ packet'[u] = packet[u] \/ Len(packet'[u]) = 0
       /\ \A j \in 1 .. MaxPacketSize : Filled(u, j)' => Filled(u, j)

LEMMA CleanStays ==
    ASSUME Exclusive, UNCHANGED <<buff, received, overlapped>>, \A u \in Threads : Keeps(u)
    PROVE  Exclusive'
  <1>. SUFFICES ASSUME ~overlapped
                PROVE  Alone' /\ \A u \in Threads : Clean(u)'
    BY DEF Exclusive
  <1>1. Alone /\ \A u \in Threads : Clean(u)
    BY DEF Exclusive
  <1>2. Alone'
    BY <1>1 DEF Alone, Keeps
  <1>3. ASSUME NEW u \in Threads, inHand'[u] # 0
        PROVE  /\ \A j \in 1 .. MaxPacketSize : Filled(u, j)' => buff'[j] = inHand'[u]
               /\ \A j \in 1 .. Len(packet'[u]) : packet'[u][j] = inHand'[u]
               /\ count'[u] # Nothing =>
                     received'[Len(received')] = Packet(inHand'[u], count'[u])
    <2>1. /\ inHand'[u] = inHand[u] /\ count'[u] = count[u]
          /\ packet'[u] = packet[u] \/ Len(packet'[u]) = 0
          /\ \A j \in 1 .. MaxPacketSize : Filled(u, j)' => Filled(u, j)
      BY <1>3 DEF Keeps
    <2>2. /\ \A j \in 1 .. MaxPacketSize : Filled(u, j) => buff[j] = inHand[u]
          /\ \A j \in 1 .. Len(packet[u]) : packet[u][j] = inHand[u]
          /\ count[u] # Nothing => received[Len(received)] = Packet(inHand[u], count[u])
      BY <1>1, <1>3, <2>1 DEF Clean
    <2>3. \A j \in 1 .. Len(packet'[u]) : packet'[u][j] = inHand'[u]
      BY <2>1, <2>2
    <2>. QED
      BY <2>1, <2>2, <2>3
  <1>. QED
    BY <1>2, <1>3 DEF Clean, Packet, Nothing

LEMMA UntouchedKeeps ==
    ASSUME TypeInv, KernelGrows, NEW u \in Threads, Untouched(u)
    PROVE  Keeps(u)
  <1>1. \A j \in 1 .. MaxPacketSize : Filled(u, j)' => Filled(u, j)
    BY FilledStays
  <1>. QED
    BY <1>1 DEF Keeps, Untouched

\* A step of thread t that leaves the buffer alone.
LEMMA OwnCleanStays ==
    ASSUME TypeInv, Exclusive, KernelGrows, UNCHANGED <<buff, received, overlapped>>,
           NEW t \in Threads, \A u \in Threads \ {t} : Untouched(u), Keeps(t)
    PROVE  Exclusive'
  <1>1. \A u \in Threads : Keeps(u)
    BY UntouchedKeeps
  <1>. QED
    BY <1>1, CleanStays

\* The first to take a datagram finds no other with one in hand, or the drains overlap.
LEMMA TakeClean ==
    ASSUME TypeInv, Exclusive, NEW t \in Threads, RecvFrom(t) \/ RecvLoses(t)
    PROVE  Exclusive'
  <1>1. /\ taken \in Nat /\ taken + 1 \in Datagrams /\ Length(taken + 1) \in 0 .. MaxPacketSize
        /\ KernelGrows
    BY TakeTyped DEF RecvFrom, RecvLoses
  <1>2. overlapped' = (overlapped \/ (Length(taken + 1) > 0 /\ \E u \in Threads : inHand[u] # 0))
    BY DEF RecvFrom, RecvLoses, Take
  <1>3. CASE Length(taken + 1) > 0
    <2>. SUFFICES ASSUME ~overlapped'
                  PROVE  Alone' /\ \A u \in Threads : Clean(u)'
      BY DEF Exclusive
    <2>1. \A u \in Threads \ {t} : inHand'[u] = 0
      BY <1>2, <1>3, Taking DEF Untouched
    <2>2. Alone'
      BY <2>1 DEF Alone
    <2>3. pc'[t] = "copyIn" /\ byte'[t] = 1 /\ inHand'[t] = taken + 1
      BY <1>3, Taking
    <2>4. \A j \in 1 .. MaxPacketSize : ~Filled(t, j)'
      BY <2>3, Sizing DEF Filled
    <2>5. Len(packet'[t]) = 0
      <3>1. packet[t] = <<>>
        BY Taking DEF TypeInv, Control, Place, Sending
      <3>. QED
        BY <3>1, Taking
    <2>6. count'[t] # Nothing =>
              received'[Len(received')] = Packet(taken + 1, Length(taken + 1))
      <3>1. CASE RecvFrom(t)
        <4>1. received' = Append(received, Packet(taken + 1, Length(taken + 1)))
          BY <1>3, <3>1 DEF RecvFrom
        <4>2. received \in Seq(Seq(Datagrams))
          BY DEF TypeInv, TypeOK
        <4>. QED
          BY <1>1, <4>1, <4>2, PacketTyped, Appended
      <3>2. CASE RecvLoses(t)
        BY <3>2 DEF RecvLoses, TypeInv, TypeOK
      <3>. QED
        BY <3>1, <3>2
    <2>7. count'[t] = Length(taken + 1) \/ count'[t] = Nothing
      BY Taking
    <2>8. count'[t] # Nothing => received'[Len(received')] = Packet(inHand'[t], count'[t])
      BY <2>3, <2>6, <2>7
    <2>9. Clean(t)'
      BY <2>4, <2>5, <2>8 DEF Clean, Packet, Nothing
    <2>10. \A u \in Threads \ {t} : Clean(u)'
      BY <2>1 DEF Clean
    <2>. QED
      BY <2>2, <2>9, <2>10
  <1>4. CASE ~(Length(taken + 1) > 0)
    <2>1. Keeps(t)
      BY <1>4, Taking DEF Keeps
    <2>2. received' = received
      BY <1>4 DEF RecvFrom, RecvLoses
    <2>3. overlapped' = overlapped
      BY <1>2, <1>4 DEF TypeInv, TypeOK
    <2>4. buff' = buff /\ \A u \in Threads \ {t} : Untouched(u)
      BY Taking
    <2>. QED
      BY <1>1, <2>1, <2>2, <2>3, <2>4, OwnCleanStays
  <1>. QED
    BY <1>3, <1>4

LEMMA CopyInClean ==
    ASSUME TypeInv, Exclusive, NEW t \in Threads, CopyIn(t)
    PROVE  Exclusive'
  <1>. SUFFICES ASSUME ~overlapped
                PROVE  Alone' /\ \A u \in Threads : Clean(u)'
    BY DEF Exclusive, CopyIn, history
  <1>1. Alone /\ \A u \in Threads : Clean(u)
    BY DEF Exclusive
  <1>2. /\ pc[t] = "copyIn"
        /\ pc'[t] = (IF byte[t] = Length(inHand[t]) THEN "report" ELSE "copyIn")
    BY Moves DEF TypeInv, CopyIn
  <1>3. /\ inHand[t] # 0 /\ Length(inHand[t]) \in 1 .. MaxPacketSize
        /\ byte[t] \in 1 .. Length(inHand[t]) /\ byte[t] \in 1 .. MaxPacketSize
    BY <1>2, Sizing DEF TypeInv, Control, InHandIsTaken, Place
  <1>4. /\ UNCHANGED <<arrived, inHand, packet, count, received>>
        /\ byte'[t] = byte[t] + 1 /\ buff'[byte[t]] = inHand[t]
        /\ \A j \in 1 .. MaxPacketSize : j # byte[t] => buff'[j] = buff[j]
    BY <1>3 DEF TypeInv, TypeOK, CopyIn, kernelVars, history
  <1>5. \A u \in Threads \ {t} : inHand'[u] = 0
    BY <1>1, <1>3, <1>4 DEF Alone
  <1>6. Alone'
    BY <1>1, <1>4 DEF Alone
  <1>7. ASSUME NEW j \in 1 .. MaxPacketSize, Filled(t, j)'
        PROVE  buff'[j] = inHand[t]
    <2>1. j <= byte[t]
      BY <1>2, <1>3, <1>4, <1>7 DEF Filled, Length
    <2>2. CASE j = byte[t]
      BY <1>4, <2>2
    <2>3. CASE j < byte[t]
      BY <1>1, <1>2, <1>3, <1>4, <2>3 DEF Clean, Filled
    <2>. QED
      BY <1>3, <2>1, <2>2, <2>3
  <1>8. Clean(t)'
    <2>1. /\ \A j \in 1 .. Len(packet[t]) : packet[t][j] = inHand[t]
          /\ count[t] # Nothing => received[Len(received)] = Packet(inHand[t], count[t])
      BY <1>1, <1>3 DEF Clean
    <2>. QED
      BY <1>4, <1>7, <2>1 DEF Clean, Packet, Nothing
  <1>9. \A u \in Threads \ {t} : Clean(u)'
    BY <1>5 DEF Clean
  <1>. QED
    BY <1>6, <1>8, <1>9

LEMMA CopyOutClean ==
    ASSUME TypeInv, Exclusive, NEW t \in Threads, CopyOut(t)
    PROVE  Exclusive'
  <1>. SUFFICES ASSUME ~overlapped
                PROVE  Alone' /\ \A u \in Threads : Clean(u)'
    BY DEF Exclusive, CopyOut, history
  <1>1. Alone /\ \A u \in Threads : Clean(u)
    BY DEF Exclusive
  <1>2. pc[t] = "copyOut" /\ pc'[t] # "copyIn"
    BY Moves DEF TypeInv, CopyOut
  <1>3. inHand[t] # 0 /\ count[t] = Length(inHand[t])
    BY <1>2 DEF TypeInv, Control, InHandIsTaken, Place, Sending
  <1>4. UNCHANGED <<arrived, inHand, count, received, buff>>
    BY DEF CopyOut, kernelVars, history
  <1>5. /\ byte[t] \in 1 .. MaxPacketSize /\ byte[t] \in 1 .. count[t]
        /\ Len(packet'[t]) = byte[t] /\ packet'[t][byte[t]] = buff[byte[t]]
        /\ \A j \in 1 .. byte[t] - 1 : packet'[t][j] = packet[t][j]
        /\ Len(packet[t]) = byte[t] - 1
    BY CopiedOut
  <1>6. /\ \A j \in 1 .. MaxPacketSize : Filled(t, j) => buff[j] = inHand[t]
        /\ \A j \in 1 .. Len(packet[t]) : packet[t][j] = inHand[t]
        /\ count[t] # Nothing => received[Len(received)] = Packet(inHand[t], count[t])
    BY <1>1, <1>3 DEF Clean
  <1>7. ASSUME NEW j \in 1 .. Len(packet'[t])
        PROVE  packet'[t][j] = inHand[t]
    <2>1. CASE j = byte[t]
      <3>1. Filled(t, byte[t])
        BY <1>2, <1>3, <1>5 DEF Filled
      <3>. QED
        BY <1>5, <1>6, <2>1, <3>1
    <2>2. CASE j # byte[t]
      <3>1. j \in 1 .. byte[t] - 1 /\ j \in 1 .. Len(packet[t])
        BY <1>5, <2>2, Sizing
      <3>. QED
        BY <1>5, <1>6, <3>1
    <2>. QED
      BY <2>1, <2>2
  <1>8. \A j \in 1 .. MaxPacketSize : Filled(t, j)' => Filled(t, j)
    BY <1>2, <1>4 DEF Filled, Length
  <1>9. Clean(t)'
    BY <1>4, <1>6, <1>7, <1>8 DEF Clean, Packet, Nothing
  <1>10. \A u \in Threads \ {t} : inHand'[u] = 0
    BY <1>1, <1>3, <1>4 DEF Alone
  <1>11. Alone' /\ \A u \in Threads \ {t} : Clean(u)'
    BY <1>1, <1>4, <1>10 DEF Alone, Clean
  <1>. QED
    BY <1>9, <1>11

LEMMA ExclusiveStep == TypeInv /\ Exclusive /\ [Next]_vars => Exclusive'
  <1>. SUFFICES ASSUME TypeInv, Exclusive, [Next]_vars
                PROVE  Exclusive'
    OBVIOUS
  <1>1. CASE \E n \in Sizes : Arrive(n)
    <2>1. PICK n \in Sizes : Arrive(n)
      BY <1>1
    <2>2. \A d \in 1 .. Len(arrived) : arrived'[d] = arrived[d]
      BY <2>1, Appended DEF TypeInv, TypeOK, Arrive
    <2>3. taken' = taken /\ taken \in 0 .. Len(arrived) /\ Len(arrived) \in Nat
      BY <2>1, LenProperties DEF TypeInv, TypeOK, Arrive
    <2>4. KernelGrows
      BY <2>2, <2>3 DEF KernelGrows
    <2>5. \A u \in Threads : Untouched(u)
      BY <2>1 DEF Arrive, threadVars, Untouched
    <2>. QED
      BY <2>1, <2>4, <2>5, UntouchedKeeps, CleanStays DEF Arrive, history
  <1>2. CASE \E t \in Threads : Dispatch(t) \/ RecvNothing(t)
    <2>1. PICK t \in Threads : Dispatch(t) \/ RecvNothing(t)
      BY <1>2
    <2>2. pc[t] \in {"off", "recvfrom"} /\ \A u \in Threads \ {t} : pc'[u] = pc[u]
      BY <2>1, Moves DEF TypeInv, Dispatch, RecvNothing
    <2>3. /\ UNCHANGED <<arrived, taken, inHand, byte, sender, buff, packet, received, overlapped>>
          /\ \A u \in Threads \ {t} : count'[u] = count[u]
      BY <2>1 DEF Dispatch, RecvNothing, kernelVars, history, TypeInv, TypeOK
    <2>4. inHand[t] = 0
      BY <2>2 DEF TypeInv, Control, InHandIsTaken, Holding
    <2>5. KernelGrows
      BY <2>3, KernelStays DEF TypeInv
    <2>. QED
      BY <2>2, <2>3, <2>4, <2>5, OwnCleanStays DEF Untouched, Keeps
  <1>3. CASE \E t \in Threads : Report(t) \/ Transmit(t)
    <2>1. PICK t \in Threads : Report(t) \/ Transmit(t)
      BY <1>3
    <2>2. /\ pc[t] # "copyIn" /\ pc'[t] # "copyIn" /\ \A u \in Threads \ {t} : pc'[u] = pc[u]
      BY <2>1, Moves DEF TypeInv, Report, Transmit
    <2>3. /\ UNCHANGED <<arrived, taken, count, inHand, byte, sender, buff, received, overlapped>>
          /\ \A u \in Threads \ {t} : packet'[u] = packet[u]
      BY <2>1 DEF Report, Transmit, kernelVars, history, TypeInv, TypeOK
    <2>4. packet'[t] = packet[t] \/ Len(packet'[t]) = 0
      BY <2>1 DEF Report, Transmit, TypeInv, TypeOK
    <2>5. KernelGrows
      BY <2>3, KernelStays DEF TypeInv
    <2>6. \A j \in 1 .. MaxPacketSize : Filled(t, j)' => Filled(t, j)
      BY <2>2, <2>3 DEF Filled, Length
    <2>. QED
      BY <2>2, <2>3, <2>4, <2>5, <2>6, OwnCleanStays DEF Untouched, Keeps
  <1>4. CASE \E t \in Threads : Forward(t) \/ NextSender(t)
    <2>1. PICK t \in Threads : Forward(t) \/ NextSender(t)
      BY <1>4
    <2>2. UNCHANGED <<arrived, taken, buff, packet, count, received, overlapped>>
      BY <2>1, Forwarding DEF kernelVars, history
    <2>3. KernelGrows
      BY <2>2, KernelStays DEF TypeInv
    <2>4. \A j \in 1 .. MaxPacketSize : Filled(t, j)' => Filled(t, j)
      BY <2>1, <2>2, Forwarding DEF Filled, Length
    <2>5. inHand'[t] = 0 \/ inHand'[t] = inHand[t]
      BY <2>1, Forwarding
    <2>6. Keeps(t)
      BY <2>2, <2>4, <2>5 DEF Keeps
    <2>. QED
      BY <2>1, <2>2, <2>3, <2>6, Forwarding, OwnCleanStays
  <1>5. CASE \E t \in Threads : EndDrain(t)
    <2>1. PICK t \in Threads : EndDrain(t)
      BY <1>5
    <2>2. UNCHANGED <<arrived, taken, buff, received, overlapped>>
      BY <2>1, Ending DEF kernelVars, history
    <2>3. KernelGrows
      BY <2>2, KernelStays DEF TypeInv
    <2>. QED
      BY <2>1, <2>2, <2>3, Ending, OwnCleanStays DEF Keeps
  <1>6. CASE (\E t \in Threads : SendFails(t)) \/ DivideByZero \/ Statistics \/ UNCHANGED vars
    <2>1. UNCHANGED <<kernelVars, buff, threadVars, history>>
      BY <1>6 DEF SendFails, DivideByZero, Statistics, vars
    <2>. QED
      BY <2>1 DEF kernelVars, threadVars, history, Exclusive, Alone, Clean, Filled, Length, Packet,
                  Nothing
  <1>. QED
    BY <1>1, <1>2, <1>3, <1>4, <1>5, <1>6, TakeClean, CopyInClean, CopyOutClean
       DEF Next, ThreadStep

\* Two packets of the same length and elements are the same.
LEMMA SamePacket ==
    ASSUME NEW d, NEW n \in Nat, NEW p \in Seq(Bytes), Len(p) = n, \A j \in 1 .. n : p[j] = d
    PROVE  p = Packet(d, n)
  <1>1. p \in [1 .. n -> Bytes]
    BY LenProperties
  <1>. QED
    BY <1>1 DEF Packet

\* A datagram is received by a thread that is alone, and so when no sender is behind.
LEMMA ReceiveStep ==
    ASSUME TypeInv, NoPacketLost, NEW t \in Threads, RecvFrom(t), ~overlapped',
           received' # received
    PROVE  \E p \in Relayed : R!Receive(p)
  <1>. DEFINE p == Packet(taken + 1, Length(taken + 1))
  <1>1. /\ taken + 1 \in Datagrams /\ Length(taken + 1) \in 0 .. MaxPacketSize
    BY TakeTyped DEF RecvFrom
  <1>2. Length(taken + 1) > 0 /\ received' = Append(received, p)
    BY DEF RecvFrom
  <1>3. p \in Relayed
    <2>1. Length(taken + 1) \in 1 .. MaxPacketSize
      BY <1>1, <1>2, Sizing
    <2>. QED
      BY <1>1, <2>1 DEF Relayed
  <1>4. \A u \in Threads : inHand[u] = 0
    BY <1>2 DEF RecvFrom, Take
  <1>5. ASSUME NEW s \in Senders
        PROVE  Len(sent[s]) = Len(received)
    <2>1. Debtors(s) = {}
      BY <1>4 DEF Debtors, Owes
    <2>2. Cardinality(Debtors(s)) = 0
      BY <2>1, FS_EmptySet
    <2>3. Len(sent[s]) \in Nat /\ Len(received) \in Nat
      BY LenProperties DEF TypeInv, TypeOK
    <2>. QED
      BY <2>2, <2>3 DEF NoPacketLost, Debtors
  <1>6. sent' = sent
    BY Taking
  <1>7. R!Receive(p)
    BY <1>2, <1>5, <1>6 DEF R!Receive, R!Senders, R!CaughtUp, Senders
  <1>. QED
    BY <1>3, <1>7

\* The packet a thread that is alone transmits is the last received, and its sender is the
\* first that is behind.
LEMMA SendStep ==
    ASSUME TypeInv, NoPacketLost, Exclusive, NEW t \in Threads, Transmit(t), ~overlapped'
    PROVE  \E s \in Senders : R!Send(s)
  <1>. DEFINE s == sender[t]
  <1>1. ~overlapped /\ received' = received
    BY DEF Transmit, history
  <1>2. pc[t] = "transmit"
    BY DEF Transmit, Trans
  <1>3. /\ inHand[t] # 0 /\ count[t] # Nothing /\ s \in Senders /\ Len(packet[t]) = count[t]
        /\ count[t] = Length(inHand[t]) /\ Length(inHand[t]) \in 1 .. MaxPacketSize
    BY <1>2 DEF TypeInv, Control, InHandIsTaken, Place, Sending
  <1>4. \A u \in Threads \ {t} : inHand[u] = 0
    BY <1>1, <1>3 DEF Exclusive, Alone
  <1>5. /\ \A j \in 1 .. Len(packet[t]) : packet[t][j] = inHand[t]
        /\ received[Len(received)] = Packet(inHand[t], count[t])
    BY <1>1, <1>3 DEF Exclusive, Clean
  <1>6. packet[t] = received[Len(received)]
    <2>1. packet[t] \in Seq(Bytes) /\ count[t] \in Nat
      BY <1>3, Sizing DEF TypeInv, TypeOK
    <2>. QED
      BY <1>3, <1>5, <2>1, SamePacket
  <1>7. ASSUME NEW r \in Senders
        PROVE  Len(sent[r]) \in Nat /\ Len(received) \in Nat
    BY LenProperties DEF TypeInv, TypeOK
  <1>8. Len(sent[s]) + 1 = Len(received)
    <2>1. Debtors(s) = {t}
      BY <1>2, <1>3, <1>4 DEF Debtors, Owes
    <2>2. Cardinality(Debtors(s)) = 1
      BY <2>1, FS_Singleton
    <2>. QED
      BY <1>3, <2>2 DEF NoPacketLost, Debtors
  <1>9. ASSUME NEW r \in 1 .. s - 1
        PROVE  Len(sent[r]) = Len(received)
    <2>1. r \in Senders /\ r < s
      BY <1>3, Sizing DEF Senders
    <2>2. Debtors(r) = {}
      BY <1>3, <1>4, <2>1, Sizing DEF Debtors, Owes, Senders
    <2>3. Cardinality(Debtors(r)) = 0
      BY <2>2, FS_EmptySet
    <2>. QED
      BY <1>7, <2>1, <2>3 DEF NoPacketLost, Debtors
  <1>10. sent' = [sent EXCEPT ![s] = Append(@, received[Len(@) + 1])]
    BY <1>6, <1>8 DEF Transmit
  <1>11. R!Send(s)
    BY <1>1, <1>3, <1>7, <1>8, <1>9, <1>10 DEF R!Send, R!CaughtUp
  <1>. QED
    BY <1>3, <1>11

LEMMA RelayStep ==
    TypeInv /\ NoPacketLost /\ Exclusive /\ [Next]_vars
        => [R!Next \/ overlapped']_<<received, sent>>
  <1>. SUFFICES ASSUME TypeInv, NoPacketLost, Exclusive, [Next]_vars, ~overlapped',
                       ~UNCHANGED <<received, sent>>
                PROVE  R!Next
    OBVIOUS
  <1>1. CASE \E t \in Threads : RecvFrom(t)
    <2>1. PICK t \in Threads : RecvFrom(t)
      BY <1>1
    <2>2. received' # received
      BY <2>1, Taking
    <2>. QED
      BY <2>1, <2>2, ReceiveStep DEF R!Next
  <1>2. CASE \E t \in Threads : Transmit(t)
    BY <1>2, SendStep DEF R!Next, R!Senders, Senders
  <1>3. CASE \/ \E n \in Sizes : Arrive(n)
             \/ \E t \in Threads :
                   \/ Dispatch(t) \/ RecvNothing(t) \/ CopyIn(t) \/ Report(t) \/ CopyOut(t)
                   \/ SendFails(t)
             \/ DivideByZero \/ Statistics \/ UNCHANGED vars
    BY <1>3 DEF Arrive, Dispatch, RecvNothing, CopyIn, Report, CopyOut, SendFails, DivideByZero,
                Statistics, vars, history
  <1>4. CASE \E t \in Threads : RecvLoses(t) \/ Forward(t) \/ NextSender(t) \/ EndDrain(t)
    <2>1. PICK t \in Threads : RecvLoses(t) \/ Forward(t) \/ NextSender(t) \/ EndDrain(t)
      BY <1>4
    <2>. QED
      BY <2>1, Taking, Forwarding, Ending DEF RecvLoses, history
  <1>. QED
    BY <1>1, <1>2, <1>3, <1>4 DEF Next, ThreadStep

\* As long as no two threads have a datagram in hand at once, the receiver and its senders
\* are the relay of Relay.tla, for any threads, senders, buffer and datagrams.
THEOREM Refinement == Spec => ImplementsRelay
  <1>1. Init => R!Init
    BY DEF Init, R!Init, R!Senders, Senders
  <1>2. Init => Exclusive
    BY DEF Init, Exclusive, Alone, Clean
  <1>. QED
    BY <1>1, <1>2, NoDebtAtFirst, InitTyped, NextTyped, DebtStep, ExclusiveStep, RelayStep, PTL
       DEF Spec, ImplementsRelay

-----------------------------------------------------------------------------
(* CountsFollowTraffic.  An account is kept for each collector: a report has *)
(* to find what it loaded when it stores, and the writer what it has added   *)
(* when it clears.  First the sums it is made of.                            *)

\* The units of one value.
LEMMA Slice ==
    ASSUME NEW t, NEW n \in Nat
    PROVE  IsFiniteSet({t} \X (1 .. n)) /\ Cardinality({t} \X (1 .. n)) = n
  <1>1. IsFiniteSet({t}) /\ Cardinality({t}) = 1
    BY FS_Singleton
  <1>2. IsFiniteSet(1 .. n) /\ Cardinality(1 .. n) = n
    BY FS_Interval
  <1>3. /\ IsFiniteSet({t} \X (1 .. n))
        /\ Cardinality({t} \X (1 .. n)) = Cardinality({t}) * Cardinality(1 .. n)
    BY <1>1, <1>2, FS_Product
  <1>. QED
    BY <1>1, <1>2, <1>3

\* A sum without one of its terms.
LEMMA SumSplits ==
    ASSUME NEW f, NEW t \in DOMAIN f, f[t] \in Nat,
           NEW g, DOMAIN g = DOMAIN f \ {t}, \A i \in DOMAIN g : g[i] = f[i],
           IsFiniteSet(Units(g))
    PROVE  /\ IsFiniteSet(Units(f))
           /\ SumOf(f) = SumOf(g) + f[t] /\ SumOf(f) \in Nat /\ SumOf(g) \in Nat
  <1>. DEFINE S == {t} \X (1 .. f[t])
  <1>1. Units(f) = Units(g) \cup S
    BY DEF Units
  <1>2. Units(g) \cap S = {}
    BY DEF Units
  <1>3. IsFiniteSet(S) /\ Cardinality(S) = f[t]
    BY Slice
  <1>4. /\ IsFiniteSet(Units(g) \cup S)
        /\ Cardinality(Units(g) \cup S) = Cardinality(Units(g)) + Cardinality(S)
                                           - Cardinality(Units(g) \cap S)
    BY <1>3, FS_Union
  <1>5. Cardinality(Units(g) \cap S) = 0
    BY <1>2, FS_EmptySet
  <1>6. Cardinality(Units(g)) \in Nat
    BY FS_CardinalityType
  <1>. QED
    BY <1>1, <1>3, <1>4, <1>5, <1>6 DEF SumOf

\* A sum of which one term changes.
LEMMA SumChanges ==
    ASSUME NEW I, NEW t \in I, NEW f, DOMAIN f = I, NEW g, DOMAIN g = I,
           \A i \in I \ {t} : g[i] = f[i], f[t] \in Nat, g[t] \in Nat, IsFiniteSet(Units(f))
    PROVE  SumOf(g) + f[t] = SumOf(f) + g[t] /\ SumOf(f) \in Nat /\ SumOf(g) \in Nat
  <1>. DEFINE h == [i \in I \ {t} |-> f[i]]
  <1>1. IsFiniteSet(Units(h))
    <2>1. Units(h) \subseteq Units(f)
      BY DEF Units
    <2>. QED
      BY <2>1, FS_Subset
  <1>2. SumOf(f) = SumOf(h) + f[t] /\ SumOf(f) \in Nat /\ SumOf(h) \in Nat
    BY <1>1, SumSplits
  <1>3. SumOf(g) = SumOf(h) + g[t] /\ SumOf(g) \in Nat
    BY <1>1, SumSplits
  <1>. QED
    BY <1>2, <1>3

\* A packet adds its bytes to those of the packets before it.
LEMMA VolumeGrows ==
    ASSUME NEW S, NEW p \in Seq(Seq(S)), NEW e \in Seq(S),
           IsFiniteSet(Units([i \in DOMAIN p |-> Len(p[i])]))
    PROVE  /\ IsFiniteSet(Units([i \in DOMAIN Append(p, e) |-> Len(Append(p, e)[i])]))
           /\ Volume(Append(p, e)) = Volume(p) + Len(e)
           /\ Volume(p) \in Nat /\ Volume(Append(p, e)) \in Nat
  <1>. DEFINE q == Append(p, e)
              f == [i \in DOMAIN q |-> Len(q[i])]
              J == DOMAIN p
              g == [i \in J |-> Len(p[i])]
              n == Len(p) + 1
  <1>1. /\ q \in Seq(Seq(S)) /\ Len(p) \in Nat /\ J = 1 .. Len(p) /\ DOMAIN q = 1 .. n
        /\ q[n] = e /\ \A i \in J : q[i] = p[i]
    BY Appended
  <1>2. n \in DOMAIN f /\ DOMAIN g = DOMAIN f \ {n}
    BY <1>1
  <1>3. f[n] = Len(e) /\ f[n] \in Nat
    BY <1>1, LenProperties
  <1>4. \A i \in DOMAIN g : g[i] = f[i]
    BY <1>1
  <1>5. IsFiniteSet(Units(g))
    OBVIOUS
  <1>6. /\ IsFiniteSet(Units(f)) /\ SumOf(f) = SumOf(g) + f[n]
        /\ SumOf(f) \in Nat /\ SumOf(g) \in Nat
    <2>. HIDE DEF f, g, n, q, J
    <2>. QED
      BY <1>2, <1>3, <1>4, <1>5, SumSplits
  <1>. QED
    BY <1>3, <1>6 DEF Volume

\* What the sums are of.
Lengths(packets) == [i \in DOMAIN packets |-> Len(packets[i])]
Due(c) == SumOf([t \in Threads |-> Unreported(t, c)])

\* The writer is between the two steps of its access of collector c.
Writing(c) == writer = "clear" /\ at = c
Counted(c) == totalBytesTrns[c] + (IF Writing(c) THEN 0 ELSE intvlBytesTrns[c])

\* The account of a collector: what it has counted and what is due make up the traffic, but
\* for the times its counter ran over.
InAccord(counted, due, traffic) == \E k \in Int : counted + due + k * CounterSize = traffic
Even(c) == InAccord(Counted(c), Due(c), Traffic(c))

\* An open access of collector c has no other beside it, and holds what the counter holds.
Sole(c) ==
    \A t \in Threads : \A a \in loaded[t] :
        a.collector = c =>
            /\ a.value = intvlBytesTrns[c]
            /\ ~Writing(c)
            /\ \A u \in Threads \ {t} : \A b \in loaded[u] : b.collector # c

\* A thread accesses the collector of the socket it is at, between its two steps.
Accessing(t) == \A a \in loaded[t] : pc[t] \in {"add", "addSent"} /\ a.collector = sender[t]

\* There is an end to what was received and sent, so that it can be counted.
FiniteTraffic ==
    /\ IsFiniteSet(Units(Lengths(received)))
    /\ \A s \in Senders : IsFiniteSet(Units(Lengths(sent[s])))

\* The account is kept for every collector that no two accesses have met at.
CountInv ==
    /\ \A t \in Threads : Accessing(t)
    /\ FiniteTraffic
    /\ \A c \in Stats!Collectors : ~raced[c] => Sole(c) /\ Even(c)

\* The multiplication of the traffic.
LEMMA Times ==
    ASSUME NEW a \in Nat, NEW b \in Nat
    PROVE  a * b \in Nat /\ (a + 1) * b = a * b + b
  OBVIOUS

\* What a thread has to report, and what all of them have, are numbers.
LEMMA UnreportedTyped ==
    ASSUME TypeInv, NEW t \in Threads, NEW c
    PROVE  Unreported(t, c) \in 0 .. Nothing
  BY Sizing DEF TypeInv, TypeOK, Counts, Unreported

LEMMA UnreportedMoves ==
    ASSUME TypeInv, TypeInv', NEW t \in Threads, NEW c
    PROVE  Unreported(t, c) \in Nat /\ Unreported(t, c)' \in Nat
  <1>1. Unreported(t, c) \in Nat
    BY UnreportedTyped, Sizing
  <1>2. count' \in [Threads -> Counts]
    BY DEF TypeInv, TypeOK, Counts, Nothing
  <1>3. count'[t] \in Nat
    BY <1>2, Sizing DEF Counts
  <1>. QED
    BY <1>1, <1>3 DEF Unreported

LEMMA DueFinite ==
    ASSUME TypeInv, NEW c
    PROVE  IsFiniteSet(Units([t \in Threads |-> Unreported(t, c)])) /\ Due(c) \in Nat
  <1>. DEFINE f == [t \in Threads |-> Unreported(t, c)]
  <1>1. Units(f) \subseteq Threads \X (1 .. Nothing)
    BY UnreportedTyped, Sizing DEF Units
  <1>2. IsFiniteSet(Threads \X (1 .. Nothing))
    <2>1. IsFiniteSet(1 .. Nothing)
      BY Sizing, FS_Interval
    <2>. QED
      BY <2>1, ThreadsAssumption, FS_Product
  <1>3. IsFiniteSet(Units(f))
    BY <1>1, <1>2, FS_Subset
  <1>. QED
    BY <1>3, FS_CardinalityType DEF Due, SumOf

\* When one thread moves, what is due changes by what the thread has to report.
LEMMA DueMoves ==
    ASSUME TypeInv, TypeInv', NEW t \in Threads, \A u \in Threads \ {t} : Untouched(u), NEW c
    PROVE  Due(c)' + Unreported(t, c) = Due(c) + Unreported(t, c)' /\ Due(c)' \in Nat
  <1>. DEFINE f == [u \in Threads |-> Unreported(u, c)]
              g == [u \in Threads |-> Unreported(u, c)']
  <1>1. f[t] \in Nat /\ f[t] = Unreported(t, c)
    BY UnreportedMoves
  <1>2. g[t] \in Nat /\ g[t] = Unreported(t, c)'
    BY UnreportedMoves
  <1>3. \A u \in Threads \ {t} : g[u] = f[u]
    BY DEF Untouched, Unreported
  <1>4. IsFiniteSet(Units(f))
    BY DueFinite
  <1>5. DOMAIN f = Threads /\ DOMAIN g = Threads
    OBVIOUS
  <1>6. SumOf(g) + f[t] = SumOf(f) + g[t] /\ SumOf(f) \in Nat /\ SumOf(g) \in Nat
    <2>. HIDE DEF f, g
    <2>. QED
      BY <1>1, <1>2, <1>3, <1>4, <1>5, SumChanges
  <1>. QED
    BY <1>1, <1>2, <1>6 DEF Due

\* So is the traffic, and what is counted, before a step and after it.
LEMMA TrafficTyped ==
    ASSUME TypeInv, FiniteTraffic, NEW c \in Stats!Collectors
    PROVE  Traffic(c) \in Nat
  <1>1. CASE c = 0
    <2>1. Volume(received) \in Nat
      BY FS_CardinalityType DEF FiniteTraffic, Volume, SumOf, Lengths
    <2>2. failures \in Nat /\ Nothing \in Nat
      BY Sizing DEF TypeInv, TypeOK
    <2>3. failures * Nothing \in Nat
      BY <2>2, Times
    <2>. QED
      BY <1>1, <2>1, <2>3 DEF Traffic
  <1>2. CASE c # 0
    <2>1. c \in Senders
      BY <1>2, Sizing DEF Stats!Collectors, Senders
    <2>. QED
      BY <1>2, <2>1, FS_CardinalityType DEF FiniteTraffic, Volume, SumOf, Lengths, Traffic
  <1>. QED
    BY <1>1, <1>2

LEMMA TrafficTypedNext ==
    ASSUME TypeInv', FiniteTraffic', NEW c \in Stats!Collectors
    PROVE  Traffic(c)' \in Nat
  <1>1. CASE c = 0
    <2>1. Volume(received)' \in Nat
      BY FS_CardinalityType DEF FiniteTraffic, Volume, SumOf, Lengths
    <2>2. failures' \in Nat /\ Nothing \in Nat
      BY Sizing DEF TypeInv, TypeOK
    <2>3. failures' * Nothing \in Nat
      BY <2>2, Times
    <2>. QED
      BY <1>1, <2>1, <2>3 DEF Traffic, Nothing
  <1>2. CASE c # 0
    <2>1. c \in Senders
      BY <1>2, Sizing DEF Stats!Collectors, Senders
    <2>. QED
      BY <1>2, <2>1, FS_CardinalityType DEF FiniteTraffic, Volume, SumOf, Lengths, Traffic, Senders
  <1>. QED
    BY <1>1, <1>2

LEMMA CountedTyped ==
    ASSUME TypeInv, NEW c \in Stats!Collectors
    PROVE  Counted(c) \in Nat /\ intvlBytesTrns[c] \in Nat /\ totalBytesTrns[c] \in Nat
  BY Sizing DEF TypeInv, TypeOK, Stats!StatsTypeOK, Stats!Values, Counted

LEMMA CountedTypedNext ==
    ASSUME TypeInv', NEW c \in Stats!Collectors
    PROVE  Counted(c)' \in Nat
  <1>1. /\ totalBytesTrns' \in [Stats!Collectors -> Nat]
        /\ intvlBytesTrns' \in [Stats!Collectors -> Stats!Values]
    BY DEF TypeInv, TypeOK, Stats!StatsTypeOK, Stats!Collectors, Stats!Values
  <1>. QED
    BY <1>1, Sizing DEF Stats!Values, Counted

\* What is cut off by the width of a counter is a multiple of it.
LEMMA Quotient ==
    ASSUME NEW n \in Nat
    PROVE  \E q \in Int, r \in 0 .. CounterSize - 1 : n % CounterSize = r /\ n = q * CounterSize + r
  <1>1. CounterSize \in Nat /\ CounterSize > 0
    BY Sizing
  <1>2. n = CounterSize * (n \div CounterSize) + (n % CounterSize)
    BY <1>1
  <1>3. n \div CounterSize \in Int /\ n % CounterSize \in 0 .. CounterSize - 1
    BY <1>1
  <1>. QED
    BY <1>1, <1>2, <1>3

\* A multiple smaller than what it is a multiple of is 0.
LEMMA SmallMultiple ==
    ASSUME NEW n \in Nat, n > 0, NEW d \in Int, d * n < n, d * n > 0 - n
    PROVE  d = 0
  <1>1. CASE d >= 1
    <2>1. d * n = n + (d - 1) * n /\ (d - 1) * n >= 0
      BY <1>1
    <2>. QED
      BY <2>1
  <1>2. CASE d <= -1
    <2>1. d * n = (0 - n) + (d + 1) * n /\ (d + 1) * n <= 0
      BY <1>2
    <2>. QED
      BY <2>1
  <1>. QED
    BY <1>1, <1>2

\* Numbers that differ by a multiple of the width have the same remainder.
LEMMA SameRemainder ==
    ASSUME NEW a \in Nat, NEW b \in Nat, NEW k \in Int, a + k * CounterSize = b
    PROVE  a % CounterSize = b % CounterSize
  <1>1. CounterSize \in Nat /\ CounterSize > 0
    BY Sizing
  <1>2. PICK q \in Int, r \in 0 .. CounterSize - 1 :
           a % CounterSize = r /\ a = q * CounterSize + r
    BY Quotient
  <1>3. PICK p \in Int, s \in 0 .. CounterSize - 1 :
           b % CounterSize = s /\ b = p * CounterSize + s
    BY Quotient
  <1>. DEFINE d == (q + k) - p
  <1>4. d * CounterSize = (q * CounterSize + k * CounterSize) - p * CounterSize
    BY <1>1
  <1>5. d * CounterSize = s - r
    BY <1>1, <1>2, <1>3, <1>4
  <1>6. d * CounterSize < CounterSize /\ d * CounterSize > 0 - CounterSize
    BY <1>1, <1>5
  <1>7. d = 0
    BY <1>1, <1>6, SmallMultiple
  <1>. QED
    BY <1>1, <1>2, <1>3, <1>5, <1>7

\* The balance is kept when what is counted, due and wanted changes by as much, but
\* for a multiple of the counter's size.
LEMMA BalanceMoves ==
    ASSUME NEW a \in Nat, NEW b \in Nat, NEW x \in Nat, NEW a1 \in Nat, NEW b1 \in Nat, NEW x1 \in Nat,
           \E j \in Int : a1 + b1 + j * CounterSize + x = a + b + x1,
           InAccord(a, b, x)
    PROVE  InAccord(a1, b1, x1)
  <1>1. PICK k \in Int : a + b + k * CounterSize = x
    BY DEF InAccord
  <1>2. PICK j \in Int : a1 + b1 + j * CounterSize + x = a + b + x1
    OBVIOUS
  <1>3. (k + j) * CounterSize = k * CounterSize + j * CounterSize
    BY Sizing
  <1>4. /\ k * CounterSize \in Int /\ j * CounterSize \in Int
        /\ (k + j) * CounterSize \in Int /\ k + j \in Int
    BY Sizing
  <1>5. a1 + b1 + (k + j) * CounterSize = x1
    BY <1>1, <1>2, <1>3, <1>4
  <1>. QED
    BY <1>4, <1>5 DEF InAccord

\* The same for a collector, when one thread moves.
LEMMA EvenStays ==
    ASSUME TypeInv, TypeInv', FiniteTraffic, FiniteTraffic', NEW t \in Threads,
           \A u \in Threads \ {t} : Untouched(u), NEW c \in Stats!Collectors, Even(c),
           \E j \in Int :
              Counted(c)' + j * CounterSize + Unreported(t, c)' + Traffic(c)
                  = Counted(c) + Unreported(t, c) + Traffic(c)'
    PROVE  Even(c)'
  <1>1. PICK j \in Int :
           Counted(c)' + j * CounterSize + Unreported(t, c)' + Traffic(c)
               = Counted(c) + Unreported(t, c) + Traffic(c)'
    OBVIOUS
  <1>2. /\ Counted(c) \in Nat /\ Due(c) \in Nat /\ Traffic(c) \in Nat
        /\ Counted(c)' \in Nat /\ Due(c)' \in Nat /\ Traffic(c)' \in Nat
    BY CountedTyped, CountedTypedNext, DueFinite, DueMoves, TrafficTyped, TrafficTypedNext
  <1>3. Unreported(t, c) \in Nat /\ Unreported(t, c)' \in Nat
    BY UnreportedMoves
  <1>4. Due(c)' + Unreported(t, c) = Due(c) + Unreported(t, c)'
    BY DueMoves
  <1>5. j * CounterSize \in Int
    BY Sizing
  <1>6. Counted(c)' + Due(c)' + j * CounterSize + Traffic(c) = Counted(c) + Due(c) + Traffic(c)'
    BY <1>1, <1>2, <1>3, <1>4, <1>5
  <1>7. \E i \in Int :
           Counted(c)' + Due(c)' + i * CounterSize + Traffic(c) = Counted(c) + Due(c) + Traffic(c)'
    BY <1>6
  <1>. QED
    BY <1>2, <1>7, BalanceMoves DEF Even

LEMMA CollectorsStay == Stats!Collectors' = Stats!Collectors
  BY DEF Stats!Collectors

\* A thread moves, and the statistics do not.
LEMMA MoveCounts ==
    ASSUME TypeInv, TypeInv', CountInv, NEW t \in Threads, \A u \in Threads \ {t} : Untouched(u),
           UNCHANGED statsVars, Accessing(t)', FiniteTraffic',
           \A c \in Stats!Collectors :
              Unreported(t, c)' + Traffic(c) = Unreported(t, c) + Traffic(c)'
    PROVE  CountInv'
  <1>1. \A u \in Threads : Accessing(u)'
    BY DEF CountInv, Accessing, Untouched, statsVars
  <1>2. ASSUME NEW c \in Stats!Collectors, ~raced'[c]
        PROVE  Sole(c)' /\ Even(c)'
    <2>1. ~raced[c] /\ Sole(c) /\ Even(c)
      BY <1>2 DEF CountInv, statsVars
    <2>2. Sole(c)'
      BY <2>1 DEF Sole, Writing, statsVars
    <2>3. Counted(c)' = Counted(c)
      BY DEF Counted, Writing, statsVars
    <2>4. 0 * CounterSize = 0
      BY Sizing
    <2>5. Counted(c) \in Nat /\ Traffic(c) \in Nat /\ Traffic(c)' \in Nat
      BY CountedTyped, TrafficTyped, TrafficTypedNext DEF CountInv
    <2>6. Unreported(t, c) \in Nat /\ Unreported(t, c)' \in Nat
      BY UnreportedMoves
    <2>7. Counted(c)' + 0 * CounterSize + Unreported(t, c)' + Traffic(c)
              = Counted(c) + Unreported(t, c) + Traffic(c)'
      BY <2>3, <2>4, <2>5, <2>6
    <2>8. \E j \in Int :
             Counted(c)' + j * CounterSize + Unreported(t, c)' + Traffic(c)
                 = Counted(c) + Unreported(t, c) + Traffic(c)'
      BY <2>7
    <2>9. Even(c)'
      BY <2>1, <2>8, EvenStays DEF CountInv
    <2>. QED
      BY <2>2, <2>9
  <1>. QED
    BY <1>1, <1>2, CollectorsStay DEF CountInv

\* What a reporter finds and leaves in the counter of its collector.
LEMMA LoadCounts ==
    ASSUME TypeInv, TypeInv', CountInv, NEW t \in Threads, Report(t)
    PROVE  CountInv'
  <1>. DEFINE s == sender[t]
  <1>1. /\ (pc[t] = "report" /\ pc'[t] = "add") \/ (pc[t] = "reportSent" /\ pc'[t] = "addSent")
        /\ \A u \in Threads \ {t} : pc'[u] = pc[u]
    BY Moves DEF TypeInv, Report
  <1>2. /\ UNCHANGED <<count, inHand, byte, sender, packet, sent, received, failures>>
        /\ UNCHANGED <<intvlBytesTrns, totalBytesTrns, writer, at>>
    BY DEF Report, history, Stats!Load
  <1>3. /\ loaded'[t] = {[collector |-> s, value |-> intvlBytesTrns[s]]}
        /\ \A u \in Threads \ {t} : loaded'[u] = loaded[u]
    BY DEF Report, Stats!Load, TypeInv, TypeOK, Stats!StatsTypeOK
  <1>4. s \in Stats!Collectors
    BY Sizing DEF TypeInv, TypeOK, Stats!Collectors
  <1>5. \A u \in Threads : Accessing(u)'
    BY <1>1, <1>2, <1>3 DEF CountInv, Accessing
  <1>6. FiniteTraffic'
    BY <1>2 DEF CountInv, FiniteTraffic, Lengths, Units, Senders
  <1>7. ASSUME NEW c \in Stats!Collectors, ~raced'[c]
        PROVE  Sole(c)' /\ Even(c)'
    <2>1. ~raced[c] /\ (c = s => ~Stats!Touched(s))
      BY <1>4, <1>7 DEF Report, Stats!Load, Stats!Open, TypeInv, TypeOK, Stats!StatsTypeOK
    <2>2. Sole(c) /\ Even(c)
      BY <2>1 DEF CountInv
    <2>3. Sole(c)'
      <3>1. CASE c = s
        BY <1>2, <1>3, <2>1, <3>1 DEF Sole, Writing, Stats!Touched
      <3>2. CASE c # s
        BY <1>2, <1>3, <2>2, <3>2 DEF Sole, Writing
      <3>. QED
        BY <3>1, <3>2
    <2>4. \A u \in Threads : Unreported(u, c)' = Unreported(u, c)
      BY <1>1, <1>2 DEF Unreported
    <2>5. Due(c)' = Due(c)
      BY <2>4 DEF Due
    <2>6. Traffic(c)' = Traffic(c) /\ Counted(c)' = Counted(c)
      BY <1>2 DEF Traffic, Counted, Writing, Nothing
    <2>. QED
      BY <2>2, <2>3, <2>5, <2>6 DEF Even, InAccord
  <1>. QED
    BY <1>5, <1>6, <1>7, CollectorsStay DEF CountInv

\* A reporter stores: what it had to report is counted, if nobody came in between.
LEMMA StoreCounts ==
    ASSUME TypeInv, TypeInv', CountInv, NEW t \in Threads, \A u \in Threads \ {t} : Untouched(u),
           pc[t] \in {"add", "addSent"}, pc'[t] \in {"off", "recvfrom", "copyOut"},
           Stats!Store(t, count[t]), UNCHANGED <<sent, received, failures>>
    PROVE  CountInv'
  <1>. DEFINE s == sender[t]
              n == count[t]
  <1>1. PICK a \in loaded[t] :
           intvlBytesTrns' = [intvlBytesTrns EXCEPT ![a.collector] = (a.value + n) % CounterSize]
    BY DEF Stats!Store
  <1>2. a.collector = s
    BY DEF CountInv, Accessing
  <1>3. s \in Stats!Collectors
    BY Sizing DEF TypeInv, TypeOK, Stats!Collectors
  <1>4. /\ intvlBytesTrns'[s] = (a.value + n) % CounterSize
        /\ \A c \in Stats!Collectors \ {s} : intvlBytesTrns'[c] = intvlBytesTrns[c]
    BY <1>1, <1>2, <1>3 DEF TypeInv, TypeOK, Stats!StatsTypeOK
  <1>5. /\ loaded'[t] = {} /\ \A u \in Threads \ {t} : loaded'[u] = loaded[u]
        /\ UNCHANGED <<totalBytesTrns, writer, at, raced>>
    BY DEF Stats!Store, TypeInv, TypeOK, Stats!StatsTypeOK
  <1>6. \A u \in Threads : Accessing(u)'
    BY <1>5 DEF CountInv, Accessing, Untouched
  <1>7. FiniteTraffic'
    BY DEF CountInv, FiniteTraffic, Lengths, Units, Senders
  <1>8. ASSUME NEW c \in Stats!Collectors, ~raced'[c]
        PROVE  Sole(c)' /\ Even(c)'
    <2>1. Sole(c) /\ Even(c)
      BY <1>5, <1>8 DEF CountInv
    <2>2. Traffic(c)' = Traffic(c) /\ Traffic(c) \in Nat
      BY TrafficTyped DEF Traffic, Nothing, CountInv
    <2>3. Unreported(t, c)' = 0 /\ Unreported(t, c) = (IF c = s THEN n ELSE 0)
      BY DEF Unreported
    <2>4. Counted(c) \in Nat /\ totalBytesTrns[c] \in Nat /\ intvlBytesTrns[c] \in Nat
      BY CountedTyped
    <2>5. n \in Nat
      BY SMTT(30), Sizing DEF TypeInv, TypeOK, Counts
    <2>6. CASE c = s
      <3>1. /\ a.value = intvlBytesTrns[s] /\ ~Writing(s)
            /\ \A u \in Threads \ {t} : \A b \in loaded[u] : b.collector # s
        BY <1>2, <2>1, <2>6 DEF Sole
      <3>2. Sole(c)'
        BY <1>5, <2>6, <3>1 DEF Sole
      <3>3. PICK q \in Int, r \in 0 .. CounterSize - 1 :
               /\ (intvlBytesTrns[s] + n) % CounterSize = r
               /\ intvlBytesTrns[s] + n = q * CounterSize + r
        BY <2>4, <2>5, <2>6, Quotient
      <3>4. /\ Counted(c) = totalBytesTrns[c] + intvlBytesTrns[c]
            /\ Counted(c)' = totalBytesTrns[c] + r
        BY <1>4, <1>5, <2>6, <3>1, <3>3 DEF Counted, Writing
      <3>5. q * CounterSize \in Int /\ r \in Nat
        BY <3>3, Sizing
      <3>6. Counted(c)' + q * CounterSize + Unreported(t, c)' + Traffic(c)
                = Counted(c) + Unreported(t, c) + Traffic(c)'
        BY <2>2, <2>3, <2>4, <2>5, <2>6, <3>3, <3>4, <3>5
      <3>7. \E j \in Int :
               Counted(c)' + j * CounterSize + Unreported(t, c)' + Traffic(c)
                   = Counted(c) + Unreported(t, c) + Traffic(c)'
        BY <3>6
      <3>8. Even(c)'
        BY <1>7, <2>1, <3>7, EvenStays DEF CountInv
      <3>. QED
        BY <3>2, <3>8
    <2>7. CASE c # s
      <3>1. Counted(c)' = Counted(c)
        BY <1>4, <1>5, <2>7 DEF Counted, Writing
      <3>2. 0 * CounterSize = 0
        BY Sizing
      <3>3. Counted(c)' + 0 * CounterSize + Unreported(t, c)' + Traffic(c)
                = Counted(c) + Unreported(t, c) + Traffic(c)'
        BY <2>2, <2>3, <2>4, <2>7, <3>1, <3>2
      <3>4. \E j \in Int :
               Counted(c)' + j * CounterSize + Unreported(t, c)' + Traffic(c)
                   = Counted(c) + Unreported(t, c) + Traffic(c)'
        BY <3>3
      <3>5. Even(c)'
        BY <1>7, <2>1, <3>4, EvenStays DEF CountInv
      <3>6. Sole(c)'
        BY <1>4, <1>5, <2>1, <2>7 DEF Sole, Writing
      <3>. QED
        BY <3>5, <3>6
    <2>. QED
      BY <2>6, <2>7
  <1>. QED
    BY <1>6, <1>7, <1>8, CollectorsStay DEF CountInv

\* The writer moves the counter to the total, and clears it, if nobody came in between.
LEMMA WriterCounts ==
    ASSUME TypeInv, CountInv, Statistics
    PROVE  CountInv'
  <1>1. UNCHANGED <<threadVars, sent, history>>
    BY DEF Statistics
  <1>2. loaded' = loaded
    BY DEF Statistics, Stats!StartStats, Stats!StopStats, Stats!WriterStep, Stats!WakeUp,
           Stats!AddToTotal, Stats!Clear
  <1>3. \A t \in Threads : Accessing(t)'
    BY <1>1, <1>2 DEF CountInv, Accessing, threadVars
  <1>4. FiniteTraffic'
    BY <1>1 DEF CountInv, FiniteTraffic, Lengths, Units, Senders, history
  <1>5. \A c \in Stats!Collectors : Due(c)' = Due(c) /\ Traffic(c)' = Traffic(c)
    BY <1>1 DEF Due, Unreported, Traffic, Nothing, threadVars, history
  <1>6. ASSUME NEW c \in Stats!Collectors, ~raced'[c]
        PROVE  Sole(c)' /\ Counted(c)' = Counted(c) /\ ~raced[c]
    <2>1. CASE Stats!AddToTotal
      <3>1. at \in Stats!Collectors /\ totalBytesTrns[at] \in Nat /\ intvlBytesTrns[at] \in Nat
        BY CountedTyped DEF TypeInv, TypeOK, Stats!StatsTypeOK
      <3>2. /\ totalBytesTrns'[at] = totalBytesTrns[at] + intvlBytesTrns[at]
            /\ \A d \in Stats!Collectors \ {at} : totalBytesTrns'[d] = totalBytesTrns[d]
            /\ UNCHANGED <<intvlBytesTrns, at>> /\ writer = "read" /\ writer' = "clear"
        BY <2>1, <3>1 DEF Stats!AddToTotal, TypeInv, TypeOK, Stats!StatsTypeOK
      <3>3. ~raced[c] /\ (c = at => ~Stats!Touched(at))
        BY <1>6, <2>1, <3>1 DEF Stats!AddToTotal, Stats!Open, TypeInv, TypeOK, Stats!StatsTypeOK
      <3>4. Sole(c)
        BY <3>3 DEF CountInv
      <3>5. Sole(c)'
        <4>1. CASE c = at
          BY <1>2, <3>3, <4>1 DEF Sole, Stats!Touched
        <4>2. CASE c # at
          BY <1>2, <3>2, <3>4, <4>2 DEF Sole, Writing
        <4>. QED
          BY <4>1, <4>2
      <3>6. Counted(c)' = Counted(c)
        <4>1. CASE c = at
          BY <3>1, <3>2, <4>1 DEF Counted, Writing
        <4>2. CASE c # at
          BY <3>2, <4>2 DEF Counted, Writing
        <4>. QED
          BY <4>1, <4>2
      <3>. QED
        BY <3>3, <3>5, <3>6
    <2>2. CASE Stats!Clear
      <3>1. /\ writer = "clear" /\ writer' # "clear" /\ UNCHANGED <<totalBytesTrns, raced>>
            /\ at \in Stats!Collectors
            /\ intvlBytesTrns'[at] = 0
            /\ \A d \in Stats!Collectors \ {at} : intvlBytesTrns'[d] = intvlBytesTrns[d]
        BY <2>2 DEF Stats!Clear, Stats!NextCollector, TypeInv, TypeOK, Stats!StatsTypeOK
      <3>2. ~raced[c] /\ Sole(c)
        BY <1>6, <3>1 DEF CountInv
      <3>3. totalBytesTrns[c] \in Nat
        BY CountedTyped
      <3>4. Sole(c)'
        BY <1>2, <3>1, <3>2 DEF Sole, Writing
      <3>5. Counted(c)' = Counted(c)
        <4>1. CASE c = at
          BY <3>1, <3>3, <4>1 DEF Counted, Writing
        <4>2. CASE c # at
          BY <3>1, <4>2 DEF Counted, Writing
        <4>. QED
          BY <4>1, <4>2
      <3>. QED
        BY <3>2, <3>4, <3>5
    <2>3. CASE Stats!StartStats \/ Stats!StopStats \/ Stats!WakeUp
      <3>1. /\ UNCHANGED <<intvlBytesTrns, totalBytesTrns, raced>>
            /\ (writer' = writer /\ at' = at) \/ (writer # "clear" /\ writer' # "clear")
        BY <2>3 DEF Stats!StartStats, Stats!StopStats, Stats!WakeUp
      <3>2. ~raced[c] /\ Sole(c)
        BY <1>6, <3>1 DEF CountInv
      <3>. QED
        BY <1>2, <3>1, <3>2 DEF Sole, Counted, Writing
    <2>. QED
      BY <2>1, <2>2, <2>3 DEF Statistics, Stats!WriterStep
  <1>7. ASSUME NEW c \in Stats!Collectors, ~raced'[c]
        PROVE  Sole(c)' /\ Even(c)'
    BY <1>5, <1>6, <1>7 DEF CountInv, Even, InAccord
  <1>. QED
    BY <1>3, <1>4, <1>7, CollectorsStay DEF CountInv

\* recvfrom() has returned: there is a packet, or a failure, to report.
LEMMA ReceiveCounts ==
    ASSUME TypeInv, TypeInv', CountInv, NEW t \in Threads,
           RecvFrom(t) \/ RecvLoses(t) \/ RecvNothing(t)
    PROVE  CountInv'
  <1>1. /\ pc[t] = "recvfrom" /\ pc'[t] \in {"copyIn", "report"}
        /\ sender[t] = 0 /\ sender'[t] = 0 /\ sent' = sent
        /\ \A u \in Threads \ {t} : Untouched(u)
    <2>1. CASE RecvFrom(t) \/ RecvLoses(t)
      BY <2>1, Taking
    <2>2. CASE RecvNothing(t)
      <3>1. pc[t] = "recvfrom" /\ pc'[t] = "report" /\ \A u \in Threads \ {t} : pc'[u] = pc[u]
        BY <2>2, Moves DEF TypeInv, RecvNothing
      <3>2. sender[t] = 0
        BY <3>1 DEF TypeInv, Control, Place, Sending
      <3>. QED
        BY <2>2, <3>1, <3>2 DEF RecvNothing, Untouched, TypeInv, TypeOK
    <2>. QED
      BY <2>1, <2>2
  <1>2. UNCHANGED statsVars
    BY DEF RecvFrom, RecvLoses, RecvNothing, Take
  <1>3. Accessing(t)'
    BY <1>1, <1>2 DEF CountInv, Accessing, statsVars
  <1>4. \A c \in Stats!Collectors :
           Unreported(t, c) = 0 /\ Unreported(t, c)' = (IF c = 0 THEN count'[t] ELSE 0)
    BY <1>1 DEF Unreported
  <1>5. \A c \in Stats!Collectors : c # 0 => Traffic(c)' = Traffic(c)
    BY <1>1 DEF Traffic
  <1>6. Volume(received) \in Nat /\ failures \in Nat /\ Nothing \in Nat
    BY Sizing, FS_CardinalityType
       DEF CountInv, FiniteTraffic, Volume, SumOf, Lengths, TypeInv, TypeOK
  <1>7. failures * Nothing \in Nat /\ (failures + 1) * Nothing = failures * Nothing + Nothing
    BY <1>6, Times
  <1>8. FiniteTraffic' /\ Traffic(0)' = Traffic(0) + count'[t]
    <2>1. CASE RecvFrom(t)
      <3>. DEFINE d == taken + 1
      <3>1. d \in Datagrams /\ Length(d) \in 0 .. MaxPacketSize /\ count'[t] = Length(d)
        BY <2>1, TakeTyped, Taking DEF RecvFrom
      <3>2. failures' = failures
        BY <2>1 DEF RecvFrom
      <3>3. CASE Length(d) > 0
        <4>1. received' = Append(received, Packet(d, Length(d)))
          BY <2>1, <3>3 DEF RecvFrom
        <4>2. Packet(d, Length(d)) \in Seq(Datagrams) /\ Len(Packet(d, Length(d))) = Length(d)
          BY <3>1, PacketTyped
        <4>3. received \in Seq(Seq(Datagrams))
          BY DEF TypeInv, TypeOK
        <4>4. /\ IsFiniteSet(Units(Lengths(received')))
              /\ Volume(received') = Volume(received) + Length(d)
          BY <4>1, <4>2, <4>3, VolumeGrows DEF CountInv, FiniteTraffic, Lengths
        <4>5. FiniteTraffic'
          BY <1>1, <4>4 DEF CountInv, FiniteTraffic, Senders, Lengths, Units
        <4>6. Volume(received)' = Volume(received')
          BY DEF Volume, SumOf, Units
        <4>7. Traffic(0)' = Volume(received') + failures * Nothing
          BY <3>2, <4>6 DEF Traffic, Nothing
        <4>8. Traffic(0) = Volume(received) + failures * Nothing
          BY DEF Traffic
        <4>. QED
          BY <1>6, <1>7, <3>1, <4>4, <4>5, <4>7, <4>8
      <3>4. CASE ~(Length(d) > 0)
        <4>1. received' = received
          BY <2>1, <3>4 DEF RecvFrom
        <4>2. FiniteTraffic'
          BY <1>1, <4>1 DEF CountInv, FiniteTraffic, Senders, Lengths, Units
        <4>3. Traffic(0)' = Traffic(0) /\ Traffic(0) \in Nat
          BY <1>6, <1>7, <3>2, <4>1 DEF Traffic, Volume, SumOf, Units, Nothing
        <4>. QED
          BY <3>1, <3>4, <4>2, <4>3
      <3>. QED
        BY <3>3, <3>4
    <2>2. CASE RecvLoses(t) \/ RecvNothing(t)
      <3>1. received' = received /\ failures' = failures + 1 /\ count'[t] = Nothing
        BY <2>2 DEF RecvLoses, RecvNothing, TypeInv, TypeOK
      <3>2. FiniteTraffic'
        BY SMTT(30), <1>1, <3>1 DEF CountInv, FiniteTraffic, Senders, Lengths, Units
      <3>3. Volume(received)' = Volume(received)
        BY <3>1 DEF Volume, SumOf, Units
      <3>4. Traffic(0)' = Volume(received) + (failures + 1) * Nothing
        BY <3>1, <3>3 DEF Traffic, Nothing
      <3>5. Traffic(0) = Volume(received) + failures * Nothing
        BY DEF Traffic
      <3>. QED
        BY <1>6, <1>7, <3>1, <3>2, <3>4, <3>5
    <2>. QED
      BY <2>1, <2>2
  <1>9. \A c \in Stats!Collectors :
           Unreported(t, c)' + Traffic(c) = Unreported(t, c) + Traffic(c)'
    <2>1. \A c \in Stats!Collectors :
             Traffic(c) \in Nat /\ Traffic(c)' \in Nat /\ Unreported(t, c)' \in Nat
      BY <1>8, TrafficTyped, TrafficTypedNext, UnreportedMoves DEF CountInv
    <2>. QED
      BY <1>4, <1>5, <1>8, <2>1
  <1>. QED
    BY <1>1, <1>2, <1>3, <1>8, <1>9, MoveCounts

\* sendto() has returned: there is a packet to report.
LEMMA TransmitCounts ==
    ASSUME TypeInv, TypeInv', CountInv, NEW t \in Threads, Transmit(t)
    PROVE  CountInv'
  <1>0. PICK s \in Senders : s = sender[t]
    BY Transmitted
  <1>1. /\ pc[t] = "transmit" /\ pc'[t] = "reportSent" /\ \A u \in Threads \ {t} : pc'[u] = pc[u]
    BY Moves DEF TypeInv, Transmit
  <1>2. /\ UNCHANGED <<count, inHand, byte, sender>> /\ UNCHANGED statsVars
        /\ received' = received /\ failures' = failures
        /\ \A u \in Threads \ {t} : packet'[u] = packet[u]
    BY DEF Transmit, history, TypeInv, TypeOK
  <1>3. Accessing(t)'
    BY <1>1, <1>2 DEF CountInv, Accessing, statsVars
  <1>4. /\ s # 0 /\ s \in Stats!Collectors
        /\ packet[t] \in Seq(Bytes) /\ Len(packet[t]) = count[t] /\ count[t] \in Nat
        /\ sent[s] \in Seq(Seq(Bytes)) /\ sent'[s] = Append(sent[s], packet[t])
        /\ \A r \in Senders \ {s} : sent'[r] = sent[r]
    <2>1. s # 0 /\ s \in Stats!Collectors
      BY Sizing DEF Senders, Stats!Collectors
    <2>2. count[t] \in Nat
      BY Transmitted, LenProperties
    <2>. QED
      BY <1>0, <2>1, <2>2, Transmitted
  <1>5. /\ IsFiniteSet(Units(Lengths(sent'[s])))
        /\ Volume(sent'[s]) = Volume(sent[s]) + count[t]
    <2>1. IsFiniteSet(Units([i \in DOMAIN sent[s] |-> Len(sent[s][i])]))
      BY DEF CountInv, FiniteTraffic, Lengths
    <2>. DEFINE p == sent[s]
                e == packet[t]
    <2>2. p \in Seq(Seq(Bytes)) /\ e \in Seq(Bytes) /\ IsFiniteSet(Units([i \in DOMAIN p |-> Len(p[i])]))
      BY <1>4, <2>1
    <2>. HIDE DEF p, e
    <2>3. /\ IsFiniteSet(Units([i \in DOMAIN Append(p, e) |-> Len(Append(p, e)[i])]))
          /\ Volume(Append(p, e)) = Volume(p) + Len(e)
      BY <2>2, VolumeGrows
    <2>. QED
      BY <1>4, <2>3 DEF Lengths, p, e
  <1>6. FiniteTraffic'
    <2>1. ASSUME NEW r \in Senders
          PROVE  IsFiniteSet(Units(Lengths(sent'[r])))
      BY <1>4, <1>5 DEF CountInv, FiniteTraffic
    <2>2. IsFiniteSet(Units(Lengths(received')))
      BY <1>2 DEF CountInv, FiniteTraffic
    <2>. QED
      BY <2>1, <2>2 DEF FiniteTraffic, Senders, Lengths, Units
  <1>7. \A c \in Stats!Collectors : c # s => Traffic(c)' = Traffic(c)
    <2>1. \A c \in Stats!Collectors : c # 0 => c \in Senders
      BY Sizing DEF Stats!Collectors, Senders
    <2>2. Traffic(0)' = Traffic(0)
      BY <1>2 DEF Traffic, Volume, SumOf, Units, Nothing
    <2>3. \A r \in Senders : Traffic(r)' = Volume(sent'[r]) /\ Traffic(r) = Volume(sent[r])
      BY Sizing DEF Traffic, Volume, SumOf, Units, Senders
    <2>. QED
      BY <1>4, <2>1, <2>2, <2>3
  <1>8. Traffic(s)' = Traffic(s) + count[t]
    BY <1>2, <1>4, <1>5 DEF Traffic, Volume, SumOf, Units
  <1>9. \A c \in Stats!Collectors :
           Unreported(t, c) = 0 /\ Unreported(t, c)' = (IF c = s THEN count[t] ELSE 0)
    BY <1>0, <1>1, <1>2 DEF Unreported
  <1>10. \A c \in Stats!Collectors :
            Unreported(t, c)' + Traffic(c) = Unreported(t, c) + Traffic(c)'
    <2>1. \A c \in Stats!Collectors :
             Traffic(c) \in Nat /\ Traffic(c)' \in Nat /\ Unreported(t, c)' \in Nat
      BY <1>6, TrafficTyped, TrafficTypedNext, UnreportedMoves DEF CountInv
    <2>. QED
      BY SMTT(30), <1>4, <1>7, <1>8, <1>9, <2>1
  <1>. QED
    BY <1>1, <1>2, <1>3, <1>6, <1>10, MoveCounts DEF Untouched

\* Steps of a thread between its reports.
LEMMA CopyCounts ==
    ASSUME TypeInv, TypeInv', CountInv, NEW t \in Threads, Dispatch(t) \/ CopyIn(t) \/ CopyOut(t)
    PROVE  CountInv'
  <1>1. /\ \/ pc[t] \in {"off", "copyOut"} /\ pc'[t] \in {"recvfrom", "copyOut", "transmit"}
           \/ pc[t] = "copyIn" /\ pc'[t] \in {"copyIn", "report"}
        /\ \A u \in Threads \ {t} : pc'[u] = pc[u]
    BY Moves DEF TypeInv, Dispatch, CopyIn, CopyOut
  <1>2. /\ UNCHANGED <<count, inHand, sender, sent, received, failures>> /\ UNCHANGED statsVars
        /\ \A u \in Threads \ {t} : packet'[u] = packet[u] /\ byte'[u] = byte[u]
    BY DEF Dispatch, CopyIn, CopyOut, history, TypeInv, TypeOK
  <1>3. \A u \in Threads \ {t} : Untouched(u)
    BY <1>1, <1>2 DEF Untouched
  <1>4. Accessing(t)'
    BY <1>1, <1>2 DEF CountInv, Accessing, statsVars
  <1>5. FiniteTraffic'
    BY <1>2 DEF CountInv, FiniteTraffic, Senders, Lengths, Units
  <1>6. \A c \in Stats!Collectors :
           Unreported(t, c)' = Unreported(t, c) /\ Traffic(c)' = Traffic(c)
    BY <1>1, <1>2 DEF Unreported, Traffic, Volume, SumOf, Units, Nothing
  <1>7. \A c \in Stats!Collectors :
           Unreported(t, c)' + Traffic(c) = Unreported(t, c) + Traffic(c)'
    BY <1>6
  <1>. QED
    BY <1>2, <1>3, <1>4, <1>5, <1>7, MoveCounts

\* Steps of nobody.
LEMMA AsideCounts ==
    ASSUME CountInv, UNCHANGED <<threadVars, sent, statsVars, history>>
    PROVE  CountInv'
  <1>1. \A t \in Threads : Accessing(t)'
    BY DEF CountInv, Accessing, threadVars, statsVars
  <1>2. FiniteTraffic'
    BY DEF CountInv, FiniteTraffic, Senders, Lengths, Units, history
  <1>3. \A c \in Stats!Collectors :
           Due(c)' = Due(c) /\ Traffic(c)' = Traffic(c) /\ Counted(c)' = Counted(c)
    BY DEF Due, Unreported, Traffic, Counted, Writing, Nothing, threadVars, statsVars, history
  <1>4. \A c \in Stats!Collectors : ~raced'[c] => Sole(c)' /\ Even(c)'
    BY <1>3 DEF CountInv, Sole, Even, InAccord, Writing, statsVars
  <1>. QED
    BY <1>1, <1>2, <1>4, CollectorsStay DEF CountInv

\* Every step keeps the account.
LEMMA CountStep == TypeInv /\ TypeInv' /\ CountInv /\ [Next]_vars => CountInv'
  <1>. SUFFICES ASSUME TypeInv, TypeInv', CountInv, [Next]_vars
                PROVE  CountInv'
    OBVIOUS
  <1>1. CASE \E t \in Threads : Dispatch(t) \/ CopyIn(t) \/ CopyOut(t)
    BY <1>1, CopyCounts
  <1>2. CASE \E t \in Threads : RecvFrom(t) \/ RecvLoses(t) \/ RecvNothing(t)
    BY <1>2, ReceiveCounts
  <1>3. CASE \E t \in Threads : Report(t)
    BY <1>3, LoadCounts
  <1>4. CASE \E t \in Threads : Transmit(t)
    BY <1>4, TransmitCounts
  <1>5. CASE \E t \in Threads : Forward(t) \/ NextSender(t)
    <2>1. PICK t \in Threads : Forward(t) \/ NextSender(t)
      BY <1>5
    <2>2. /\ pc[t] \in {"add", "addSent"} /\ pc'[t] \in {"copyOut", "recvfrom"}
          /\ \A u \in Threads \ {t} : Untouched(u)
          /\ UNCHANGED <<sent, received, failures>>
      BY <2>1, Forwarding DEF history
    <2>3. Stats!Store(t, count[t])
      BY <2>1 DEF Forward, NextSender
    <2>. QED
      BY <2>2, <2>3, StoreCounts
  <1>6. CASE \E t \in Threads : EndDrain(t)
    <2>1. PICK t \in Threads : EndDrain(t)
      BY <1>6
    <2>2. /\ pc[t] = "add" /\ pc'[t] = "off" /\ \A u \in Threads \ {t} : Untouched(u)
          /\ UNCHANGED <<sent, received, failures>>
      BY <2>1, Ending DEF history
    <2>3. Stats!Store(t, count[t])
      BY <2>1 DEF EndDrain
    <2>. QED
      BY <2>2, <2>3, StoreCounts
  <1>7. CASE Statistics
    BY <1>7, WriterCounts
  <1>8. CASE \/ \E n \in Sizes : Arrive(n)
             \/ \E t \in Threads : SendFails(t)
             \/ DivideByZero \/ UNCHANGED vars
    BY <1>8, AsideCounts DEF Arrive, SendFails, DivideByZero, vars
  <1>. QED
    BY <1>1, <1>2, <1>3, <1>4, <1>5, <1>6, <1>7, <1>8 DEF Next, ThreadStep

\* There is nothing to count at first.
LEMMA NoSum ==
    ASSUME NEW f, \A i \in DOMAIN f : f[i] = 0
    PROVE  IsFiniteSet(Units(f)) /\ SumOf(f) = 0
  <1>1. Units(f) = {}
    BY DEF Units
  <1>. QED
    BY <1>1, FS_EmptySet DEF SumOf

LEMMA CountsAtFirst == Init => CountInv
  <1>. SUFFICES ASSUME Init
                PROVE  CountInv
    OBVIOUS
  <1>1. \A t \in Threads : loaded[t] = {} /\ pc[t] = "off"
    BY DEF Init, Stats!StatsInit
  <1>2. received = <<>> /\ failures = 0 /\ writer = "off" /\ \A s \in Senders : sent[s] = <<>>
    BY DEF Init, Stats!StatsInit
  <1>3. /\ IsFiniteSet(Units(Lengths(<<>>))) /\ Volume(<<>>) = 0
    <2>1. DOMAIN Lengths(<<>>) = {}
      BY DEF Lengths
    <2>. QED
      BY <2>1, NoSum DEF Lengths, Volume
  <1>4. \A c \in Stats!Collectors : Traffic(c) = 0
    <2>1. \A c \in Stats!Collectors : c # 0 => c \in Senders
      BY Sizing DEF Stats!Collectors, Senders
    <2>2. 0 * Nothing = 0
      BY Sizing
    <2>. QED
      BY <1>2, <1>3, <2>1, <2>2 DEF Traffic
  <1>5. \A c \in Stats!Collectors : Counted(c) = 0
    BY <1>2, 0 + 0 = 0 DEF Init, Stats!StatsInit, Counted, Writing
  <1>6. \A c \in Stats!Collectors : Due(c) = 0
    <2>1. \A t \in Threads, c \in Stats!Collectors : Unreported(t, c) = 0
      BY <1>1 DEF Unreported
    <2>2. ASSUME NEW c \in Stats!Collectors
          PROVE  SumOf([t \in Threads |-> Unreported(t, c)]) = 0
      <3>. DEFINE f == [t \in Threads |-> Unreported(t, c)]
      <3>1. \A t \in DOMAIN f : f[t] = 0
        BY <2>1
      <3>. HIDE DEF f
      <3>2. SumOf(f) = 0
        BY <3>1, NoSum
      <3>. QED
        BY <3>2 DEF f
    <2>. QED
      BY <2>2 DEF Due
  <1>7. \A c \in Stats!Collectors : Even(c)
    <2>1. 0 + 0 + 0 * CounterSize = 0
      BY Sizing
    <2>. QED
      BY <1>4, <1>5, <1>6, <2>1 DEF Even, InAccord
  <1>. QED
    BY <1>1, <1>2, <1>3, <1>7 DEF CountInv, FiniteTraffic, Sole, Accessing

\* For any threads, senders, datagrams and width of the counters, a collector that no two
\* threads had open at once has counted the traffic, to the modulus of its counter: the
\* unlocked clearing of a counter loses nothing unless it meets a report.
THEOREM StatisticsFollow == Spec => []CountsFollowTraffic
  <1>1. TypeInv /\ CountInv => CountsFollowTraffic
    <2>. SUFFICES ASSUME TypeInv, CountInv, NEW c \in Stats!Collectors, ~raced[c], ~Stats!Touched(c)
                  PROVE  (totalBytesTrns[c] + intvlBytesTrns[c] + Due(c)) % CounterSize
                             = Traffic(c) % CounterSize
      BY DEF CountsFollowTraffic, Due
    <2>1. Counted(c) = totalBytesTrns[c] + intvlBytesTrns[c]
      BY DEF Stats!Touched, Counted, Writing
    <2>2. PICK k \in Int : Counted(c) + Due(c) + k * CounterSize = Traffic(c)
      BY DEF CountInv, Even, InAccord
    <2>3. Counted(c) \in Nat /\ Due(c) \in Nat /\ Traffic(c) \in Nat
      BY CountedTyped, DueFinite, TrafficTyped DEF CountInv
    <2>4. (Counted(c) + Due(c)) % CounterSize = Traffic(c) % CounterSize
      BY <2>2, <2>3, SameRemainder
    <2>. QED
      BY <2>1, <2>4
  <1>. QED
    BY <1>1, InitTyped, NextTyped, CountsAtFirst, CountStep, PTL DEF Spec

=============================================================================
