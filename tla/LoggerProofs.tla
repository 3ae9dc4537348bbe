---------------------------- MODULE LoggerProofs ----------------------------
(***************************************************************************)
(* What holds of the log file for any frames and any number of calls: lines *)
(* are whole, texts are their own call's unless two calls have used the     *)
(* buffer at once, and a call that has returned has its line in the file.   *)
(***************************************************************************)
EXTENDS Logger, SequenceTheorems, TLAPS

\* A frame in a call knows the call's number.
InCallHasNumber == \A f \in Frames : pc[f] # "off" => call[f] \in Calls

TypeInv == TypeOK /\ InCallHasNumber

\* What is appended is the last element, and the others keep their places.
LEMMA Appended ==
    ASSUME NEW S, NEW s \in Seq(S), NEW e \in S
    PROVE  /\ Append(s, e) \in Seq(S)
           /\ Len(Append(s, e)) = Len(s) + 1
           /\ \A i \in 1 .. Len(s) : Append(s, e)[i] = s[i]
           /\ Append(s, e)[Len(s) + 1] = e
           /\ Len(s) \in Nat
           /\ DOMAIN s = 1 .. Len(s) /\ DOMAIN Append(s, e) = 1 .. Len(s) + 1
  BY AppendProperties, LenProperties

\* The step of a frame moves that frame alone.
LEMMA Moves ==
    ASSUME TypeOK, NEW f \in Frames, NEW from, NEW to, Trans(f, from, to)
    PROVE  pc[f] = from /\ pc'[f] = to /\ \A g \in Frames \ {f} : pc'[g] = pc[g]
  BY DEF TypeOK, Trans

-----------------------------------------------------------------------------

\* What a call writes is a piece.
LEMMA PieceTyped ==
    ASSUME TypeInv, NEW f \in Frames, pc[f] # "off", NEW p \in Parts, NEW text \in Texts,
           Write(f, p, text)
    PROVE  /\ stream' \in Seq(Pieces)
           /\ stream' = Append(stream, [call |-> call[f], part |-> p, text |-> text])
           /\ Len(stream') = Len(stream) + 1
           /\ Len(stream) \in Nat
           /\ \A i \in 1 .. Len(stream) : stream'[i] = stream[i]
           /\ stream'[Len(stream) + 1] = [call |-> call[f], part |-> p, text |-> text]
  <1>1. [call |-> call[f], part |-> p, text |-> text] \in Pieces
    BY DEF TypeInv, InCallHasNumber, Pieces
  <1>2. stream \in Seq(Pieces)
    BY DEF TypeInv, TypeOK
  <1>. QED
    BY <1>1, <1>2, Appended DEF Write

\* What is formatted is a text.
LEMMA TextTyped ==
    ASSUME NEW c \in 0 .. MaxCalls, NEW p \in Parts \cup {"mixed"}
    PROVE  Text(c, p) \in Texts
  BY DEF Text, Texts

LEMMA FormatTyped ==
    ASSUME TypeInv, NEW f \in Frames, NEW p \in Parts, Format(f, p)
    PROVE  logString' \in Texts
  <1>1. call[f] \in 0 .. MaxCalls /\ 0 \in 0 .. MaxCalls
    BY CallsAssumption DEF TypeInv, TypeOK
  <1>. QED
    BY <1>1, TextTyped DEF Format

\* Each step of a frame keeps the types.
LEMMA ProgressTyped ==
    ASSUME TypeInv, NEW f \in Frames, Progress(f)
    PROVE  TypeInv'
  <1>. USE DEF TypeInv
  <1>1. CASE FormatFirst(f)
    <2>1. logString' \in Texts
      BY <1>1, FormatTyped DEF FormatFirst, Parts
    <2>. QED
      BY <1>1, <2>1, Moves DEF FormatFirst, Trans, TypeOK, InCallHasNumber, Labels
  <1>2. CASE GetLogger(f)
    BY <1>2, Moves DEF GetLogger, Trans, TypeOK, InCallHasNumber, Labels
  <1>3. CASE WriteHeader(f)
    <2>1. stream' \in Seq(Pieces) /\ Len(stream') = Len(stream) + 1 /\ Len(stream) \in Nat
      BY <1>3, PieceTyped DEF WriteHeader, Trans, TypeOK, Parts
    <2>. QED
      BY <1>3, <2>1, Moves DEF WriteHeader, Write, Trans, TypeOK, InCallHasNumber, Labels
  <1>4. CASE FormatMessage(f)
    <2>1. logString' \in Texts
      BY <1>4, FormatTyped DEF FormatMessage, Parts
    <2>. QED
      BY <1>4, <2>1, Moves DEF FormatMessage, Trans, TypeOK, InCallHasNumber, Labels
  <1>5. CASE WriteBody(f)
    <2>1. stream' \in Seq(Pieces) /\ Len(stream') = Len(stream) + 1 /\ Len(stream) \in Nat
      BY <1>5, PieceTyped DEF WriteBody, Trans, TypeOK, Parts
    <2>. QED
      BY <1>5, <2>1, Moves DEF WriteBody, Write, Trans, TypeOK, InCallHasNumber, Labels
  <1>6. CASE WriteNewline(f)
    <2>1. Text(call[f], "newline") \in Texts
      BY TextTyped DEF Parts, TypeOK
    <2>2. stream' \in Seq(Pieces) /\ Len(stream') = Len(stream) + 1 /\ Len(stream) \in Nat
      BY <1>6, <2>1, PieceTyped DEF WriteNewline, Trans, TypeOK, Parts
    <2>. QED
      BY <1>6, <2>2, Moves DEF WriteNewline, Write, Trans, TypeOK, InCallHasNumber, Labels
  <1>7. CASE Leave(f)
    BY <1>7, Moves DEF Leave, Trans, TypeOK, InCallHasNumber, Labels
  <1>8. CASE Flush(f)
    BY <1>8, Moves DEF Flush, Trans, TypeOK, InCallHasNumber, Labels
  <1>9. CASE Return(f)
    <2>1. Len(stream) \in Nat
      BY LenProperties DEF TypeOK
    <2>2. call[f] \in Calls
      BY <1>9 DEF Return, Trans, InCallHasNumber
    <2>. QED
      BY <1>9, <2>1, <2>2, Moves, CallsAssumption DEF Return, Trans, TypeOK, InCallHasNumber, Labels
  <1>. QED
    BY <1>1, <1>2, <1>3, <1>4, <1>5, <1>6, <1>7, <1>8, <1>9 DEF Progress

LEMMA StartTyped ==
    ASSUME TypeInv, NEW f \in Frames, NEW kind, Start(f, kind)
    PROVE  TypeInv'
  <1>1. calls + 1 \in Calls /\ calls + 1 \in 0 .. MaxCalls
    BY CallsAssumption DEF TypeInv, TypeOK, Start, Calls
  <1>. QED
    BY <1>1, Moves DEF TypeInv, TypeOK, InCallHasNumber, Start, Trans, Labels

LEMMA NextTyped == TypeInv /\ [Next]_vars => TypeInv'
  <1>. SUFFICES ASSUME TypeInv, [Next]_vars
                PROVE  TypeInv'
    OBVIOUS
  <1>1. CASE \E level \in {"INFORMATIONAL", "DEBUG"} : SetLogLevel(level)
    BY <1>1 DEF TypeInv, TypeOK, InCallHasNumber, SetLogLevel
  <1>2. CASE UNCHANGED vars
    BY <1>2 DEF TypeInv, TypeOK, InCallHasNumber, vars
  <1>. QED
    BY <1>1, <1>2, ProgressTyped, StartTyped DEF Next

LEMMA InitTyped == Init => TypeInv
  <1>. SUFFICES ASSUME Init
                PROVE  TypeInv
    OBVIOUS
  <1>1. 0 \in 0 .. MaxCalls
    BY CallsAssumption
  <1>2. logString \in Texts
    BY <1>1, TextTyped DEF Init, Parts
  <1>3. stream \in Seq(Pieces)
    BY DEF Init
  <1>4. flushed \in 0 .. Len(stream)
    BY DEF Init
  <1>5. TypeOK
    BY <1>1, <1>2, <1>3, <1>4 DEF Init, TypeOK, Labels
  <1>. QED
    BY <1>5 DEF Init, TypeInv, InCallHasNumber

\* The logger's state is well formed, for any frames and number of calls: what is
\* in the stream are pieces of calls that have begun, what is in the file a prefix.
THEOREM TypeCorrect == Safety => []TypeOK
  <1>1. TypeInv => TypeOK
    BY DEF TypeInv
  <1>. QED
    BY <1>1, InitTyped, NextTyped, PTL DEF Safety

-----------------------------------------------------------------------------
(* LinesAreWhole.  A frame that writes holds the mutex, and if the last piece *)
(* is not a newline, the frame that holds it is the one that wrote the piece, *)
(* in the call it is still in, and is not about to leave.                     *)

Writing == {"header", "message", "body", "newline", "leave"}
WriterHoldsLock == \A f \in Frames : pc[f] \in Writing => lock = f

LastPiece == stream[Len(stream)]
LineIsHeld ==
    Len(stream) > 0 /\ LastPiece.part # "newline" =>
        \E f \in Frames :
            lock = f /\ pc[f] \in {"message", "body", "newline"} /\ call[f] = LastPiece.call

LineInv == WriterHoldsLock /\ LineIsHeld /\ LinesAreWhole

\* getLogger() and leave() keep the writers apart.
LEMMA LockStep == TypeInv /\ WriterHoldsLock /\ [Next]_vars => WriterHoldsLock'
  <1>. SUFFICES ASSUME TypeInv, WriterHoldsLock, [Next]_vars
                PROVE  WriterHoldsLock'
    OBVIOUS
  <1>. USE DEF TypeInv, WriterHoldsLock, Writing
  <1>1. CASE \E f \in Frames : Progress(f)
    <2>1. PICK f \in Frames : Progress(f)
      BY <1>1
    <2>2. CASE FormatFirst(f)
      BY <2>2, Moves DEF FormatFirst
    <2>3. CASE GetLogger(f)
      BY <2>3, Moves, FramesAssumption DEF GetLogger, Frames
    <2>4. CASE WriteHeader(f)
      BY <2>4, Moves DEF WriteHeader, Write
    <2>5. CASE FormatMessage(f)
      BY <2>5, Moves DEF FormatMessage
    <2>6. CASE WriteBody(f)
      BY <2>6, Moves DEF WriteBody, Write
    <2>7. CASE WriteNewline(f)
      BY <2>7, Moves DEF WriteNewline, Write
    <2>8. CASE Leave(f)
      BY <2>8, Moves DEF Leave
    <2>9. CASE Flush(f)
      BY <2>9, Moves DEF Flush
    <2>10. CASE Return(f)
      BY <2>10, Moves DEF Return
    <2>. QED
      BY <2>1, <2>2, <2>3, <2>4, <2>5, <2>6, <2>7, <2>8, <2>9, <2>10 DEF Progress
  <1>2. CASE \E f \in Frames : \E kind \in {"log", "debug", "exception"} : Start(f, kind)
    BY <1>2, Moves DEF Start
  <1>3. CASE \E level \in {"INFORMATIONAL", "DEBUG"} : SetLogLevel(level)
    BY <1>3 DEF SetLogLevel
  <1>4. CASE UNCHANGED vars
    BY <1>4 DEF vars
  <1>. QED
    BY <1>1, <1>2, <1>3, <1>4 DEF Next

\* A piece written under the mutex continues the line of its own call, or begins one.
LEMMA PieceKeepsLine ==
    ASSUME TypeInv, LineInv, NEW f \in Frames, pc[f] \in Writing, NEW p \in Parts,
           NEW text \in Texts, Write(f, p, text), pc' [f] \in {"message", "newline"} \/ p = "newline"
    PROVE  LineIsHeld' /\ LinesAreWhole'
  <1>. DEFINE n == Len(stream)
  <1>1. /\ n \in Nat /\ Len(stream') = n + 1
        /\ \A i \in 1 .. n : stream'[i] = stream[i]
        /\ stream'[n + 1].call = call[f] /\ stream'[n + 1].part = p
    <2>1. pc[f] # "off"
      BY DEF Writing
    <2>2. stream'[n + 1] = [call |-> call[f], part |-> p, text |-> text]
      BY <2>1, PieceTyped
    <2>. QED
      BY <2>1, <2>2, PieceTyped
  <1>2. lock = f /\ lock' = f /\ call' = call
    BY DEF LineInv, WriterHoldsLock, Write
  <1>3. LineIsHeld'
    BY <1>1, <1>2 DEF LineIsHeld, LastPiece
  <1>4. n > 0 => stream[n].part = "newline" \/ stream[n].call = call[f]
    BY <1>1, <1>2 DEF LineInv, LineIsHeld, LastPiece
  <1>5. ASSUME NEW i \in 2 .. n + 1
        PROVE  stream'[i - 1].part = "newline" \/ stream'[i - 1].call = stream'[i].call
    <2>1. CASE i = n + 1
      BY <1>1, <1>4, <2>1
    <2>2. CASE i # n + 1
      <3>1. i \in 2 .. n /\ i \in 1 .. n /\ i - 1 \in 1 .. n
        BY <1>1, <2>2
      <3>. QED
        BY <1>1, <3>1 DEF LineInv, LinesAreWhole
    <2>. QED
      BY <2>1, <2>2
  <1>. QED
    BY <1>1, <1>3, <1>5 DEF LinesAreWhole

LEMMA LineStep == TypeInv /\ LineInv /\ [Next]_vars => LineInv'
  <1>. SUFFICES ASSUME TypeInv, LineInv, [Next]_vars
                PROVE  LineIsHeld' /\ LinesAreWhole'
    BY LockStep DEF LineInv
  <1>. USE DEF LineInv
  <1>1. CASE \E f \in Frames : Progress(f)
    <2>1. PICK f \in Frames : Progress(f)
      BY <1>1
    <2>2. CASE FormatFirst(f)
      BY <2>2, Moves DEF FormatFirst, LineIsHeld, LastPiece, LinesAreWhole, TypeInv
    <2>3. CASE GetLogger(f)
      BY <2>3, Moves, FramesAssumption
         DEF GetLogger, LineIsHeld, LastPiece, LinesAreWhole, TypeInv, Frames
    <2>4. CASE WriteHeader(f)
      BY <2>4, Moves, PieceKeepsLine DEF WriteHeader, Writing, TypeInv, TypeOK, Parts
    <2>5. CASE FormatMessage(f)
      BY <2>5, Moves DEF FormatMessage, LineIsHeld, LastPiece, LinesAreWhole, TypeInv
    <2>6. CASE WriteBody(f)
      BY <2>6, Moves, PieceKeepsLine DEF WriteBody, Writing, TypeInv, TypeOK, Parts
    <2>7. CASE WriteNewline(f)
      <3>1. Text(call[f], "newline") \in Texts
        BY TextTyped DEF Parts, TypeInv, TypeOK
      <3>. QED
        BY <2>7, <3>1, Moves, PieceKeepsLine DEF WriteNewline, Writing, TypeInv, TypeOK, Parts
    <2>8. CASE Leave(f)
      <3>1. lock = f /\ pc[f] = "leave"
        BY <2>8 DEF Leave, Trans, WriterHoldsLock, Writing
      <3>2. ~(Len(stream) > 0 /\ LastPiece.part # "newline")
        BY <3>1 DEF LineIsHeld
      <3>. QED
        BY <2>8, <3>2 DEF Leave, LineIsHeld, LastPiece, LinesAreWhole
    <2>9. CASE Flush(f)
      BY <2>9, Moves DEF Flush, LineIsHeld, LastPiece, LinesAreWhole, TypeInv
    <2>10. CASE Return(f)
      BY <2>10, Moves DEF Return, LineIsHeld, LastPiece, LinesAreWhole, TypeInv, TypeOK
    <2>. QED
      BY <2>1, <2>2, <2>3, <2>4, <2>5, <2>6, <2>7, <2>8, <2>9, <2>10 DEF Progress
  <1>2. CASE \E f \in Frames : \E kind \in {"log", "debug", "exception"} : Start(f, kind)
    BY <1>2, Moves DEF Start, LineIsHeld, LastPiece, LinesAreWhole, TypeInv, TypeOK
  <1>3. CASE \E level \in {"INFORMATIONAL", "DEBUG"} : SetLogLevel(level)
    BY <1>3 DEF SetLogLevel, LineIsHeld, LastPiece, LinesAreWhole
  <1>4. CASE UNCHANGED vars
    BY <1>4 DEF vars, LineIsHeld, LastPiece, LinesAreWhole
  <1>. QED
    BY <1>1, <1>2, <1>3, <1>4 DEF Next

\* A line in the log file is written by one call of Log() or LogException(), from
\* its first piece to its newline, for any threads, signals and number of calls.
THEOREM WholeLines == Safety => []LinesAreWhole
  <1>1. Init => LineInv
    BY DEF Init, LineInv, WriterHoldsLock, Writing, LineIsHeld, LinesAreWhole
  <1>2. LineInv => LinesAreWhole
    BY DEF LineInv
  <1>. QED
    BY <1>1, <1>2, InitTyped, NextTyped, LineStep, PTL DEF Safety

-----------------------------------------------------------------------------
(* TextsAreOwn.  As long as no two frames have used the buffer at once, at    *)
(* most one is between formatting a text and writing it, and what the buffer  *)
(* holds is that frame's text for its next write.                             *)

Expected(f) ==
    Text(call[f], IF exception[f] THEN "exception"
                  ELSE IF pc[f] = "body" THEN "message" ELSE "header")

OneInBuffer == \A f, g \in Frames : InBuffer(f) /\ InBuffer(g) => f = g
BufferIsExpected == \A f \in Frames : InBuffer(f) => logString = Expected(f)
HeadersAreOfLogs == \A f \in Frames : pc[f] \in {"header", "message"} => ~exception[f]
OwnTexts == \A i \in 1 .. Len(stream) : stream[i].text = Text(stream[i].call, stream[i].part)

BufferInv ==
    /\ HeadersAreOfLogs
    /\ ~overlapped => OneInBuffer /\ BufferIsExpected /\ OwnTexts

\* A piece whose text is its own call's keeps all texts own.
LEMMA OwnPiece ==
    ASSUME TypeInv, OwnTexts, NEW f \in Frames, pc[f] # "off", NEW p \in Parts,
           NEW text \in Texts, text = Text(call[f], p), Write(f, p, text)
    PROVE  OwnTexts'
  <1>. DEFINE n == Len(stream)
  <1>1. /\ n \in Nat /\ Len(stream') = n + 1
        /\ \A i \in 1 .. n : stream'[i] = stream[i]
        /\ stream'[n + 1] = [call |-> call[f], part |-> p, text |-> text]
    BY PieceTyped
  <1>2. ASSUME NEW i \in 1 .. n + 1
        PROVE  stream'[i].text = Text(stream'[i].call, stream'[i].part)
    <2>1. CASE i = n + 1
      BY <1>1, <2>1
    <2>2. CASE i # n + 1
      <3>1. i \in 1 .. n
        BY <1>1, <2>2
      <3>. QED
        BY <1>1, <3>1 DEF OwnTexts
    <2>. QED
      BY <2>1, <2>2
  <1>. QED
    BY <1>1, <1>2 DEF OwnTexts, Text

\* A frame that leaves the buffer, or was never in it, takes nothing from another.
LEMMA BufferLeft ==
    ASSUME TypeOK, BufferInv, NEW f \in Frames,
           \A g \in Frames \ {f} : pc'[g] = pc[g] /\ call'[g] = call[g] /\ exception'[g] = exception[g],
           pc'[f] \in {"off", "format", "newline", "leave", "flush", "flushing"},
           logString' = logString, overlapped' = overlapped
    PROVE  HeadersAreOfLogs' /\ (~overlapped' => OneInBuffer' /\ BufferIsExpected')
  BY DEF BufferInv, HeadersAreOfLogs, OneInBuffer, BufferIsExpected, InBuffer, Expected

LEMMA BufferStep == TypeInv /\ BufferInv /\ [Next]_vars => BufferInv'
  <1>. SUFFICES ASSUME TypeInv, BufferInv, [Next]_vars
                PROVE  BufferInv'
    OBVIOUS
  <1>. USE DEF TypeInv
  <1>1. CASE \E f \in Frames : Progress(f)
    <2>1. PICK f \in Frames : Progress(f)
      BY <1>1
    <2>2. CASE FormatFirst(f)
      <3>1. HeadersAreOfLogs'
        BY <2>2, Moves DEF FormatFirst, BufferInv, HeadersAreOfLogs
      <3>2. ASSUME ~overlapped'
            PROVE  OneInBuffer' /\ BufferIsExpected' /\ OwnTexts'
        <4>1. ~overlapped /\ ~OthersInBuffer(f)
          BY <2>2, <3>2 DEF FormatFirst, TypeOK
        <4>2. logString' = Text(call[f], IF exception[f] THEN "exception" ELSE "header")
          BY <2>2, <4>1 DEF FormatFirst, Format
        <4>3. pc'[f] = "lock" /\ \A g \in Frames \ {f} : pc'[g] = pc[g] /\ ~InBuffer(g)
          BY <2>2, <4>1, Moves DEF FormatFirst, OthersInBuffer
        <4>4. OneInBuffer'
          BY <4>3 DEF OneInBuffer, InBuffer
        <4>5. BufferIsExpected'
          BY <2>2, <4>2, <4>3 DEF FormatFirst, BufferIsExpected, InBuffer, Expected
        <4>. QED
          BY <2>2, <4>1, <4>4, <4>5 DEF FormatFirst, BufferInv, OwnTexts
      <3>. QED
        BY <3>1, <3>2 DEF BufferInv
    <2>3. CASE GetLogger(f)
      <3>1. pc[f] = "lock" /\ pc'[f] = (IF exception[f] THEN "body" ELSE "header")
            /\ \A g \in Frames \ {f} : pc'[g] = pc[g]
        BY <2>3, Moves DEF GetLogger
      <3>2. UNCHANGED <<call, exception, logString, stream, overlapped>>
        BY <2>3 DEF GetLogger
      <3>3. HeadersAreOfLogs'
        BY <3>1, <3>2 DEF BufferInv, HeadersAreOfLogs
      <3>4. OneInBuffer => OneInBuffer'
        BY <3>1 DEF OneInBuffer, InBuffer
      <3>5. BufferIsExpected => BufferIsExpected'
        BY <3>1, <3>2 DEF BufferIsExpected, InBuffer, Expected
      <3>. QED
        BY <3>2, <3>3, <3>4, <3>5 DEF BufferInv, OwnTexts
    <2>4. CASE WriteHeader(f)
      <3>1. pc[f] = "header" /\ pc'[f] = "message" /\ \A g \in Frames \ {f} : pc'[g] = pc[g]
        BY <2>4, Moves DEF WriteHeader
      <3>2. UNCHANGED <<call, exception, logString, overlapped>>
        BY <2>4 DEF WriteHeader, Write
      <3>3. HeadersAreOfLogs'
        BY <3>1, <3>2 DEF BufferInv, HeadersAreOfLogs
      <3>4. OneInBuffer => OneInBuffer'
        BY <3>1 DEF OneInBuffer, InBuffer
      <3>5. BufferIsExpected => BufferIsExpected'
        BY <3>1, <3>2 DEF BufferIsExpected, InBuffer, Expected
      <3>6. ~overlapped => logString = Text(call[f], "header")
        BY <3>1 DEF BufferInv, HeadersAreOfLogs, BufferIsExpected, InBuffer, Expected
      <3>7. ~overlapped => OwnTexts'
        BY <2>4, <3>1, <3>6, OwnPiece DEF WriteHeader, BufferInv, TypeOK, Parts
      <3>. QED
        BY <3>2, <3>3, <3>4, <3>5, <3>7 DEF BufferInv
    <2>5. CASE FormatMessage(f)
      <3>1. pc[f] = "message" /\ pc'[f] = "body" /\ \A g \in Frames \ {f} : pc'[g] = pc[g]
        BY <2>5, Moves DEF FormatMessage
      <3>2. UNCHANGED <<call, exception, stream, overlapped>>
        BY <2>5 DEF FormatMessage
      <3>3. HeadersAreOfLogs'
        BY <3>1, <3>2 DEF BufferInv, HeadersAreOfLogs
      <3>4. OneInBuffer => OneInBuffer'
        BY <3>1 DEF OneInBuffer, InBuffer
      <3>5. OneInBuffer => ~OthersInBuffer(f)
        BY <3>1 DEF OneInBuffer, InBuffer, OthersInBuffer
      <3>6. OneInBuffer => logString' = Text(call[f], "message")
        BY <2>5, <3>5 DEF FormatMessage, Format
      <3>7. OneInBuffer => BufferIsExpected'
        BY <3>1, <3>2, <3>4, <3>6 DEF BufferInv, HeadersAreOfLogs, OneInBuffer, BufferIsExpected,
           InBuffer, Expected
      <3>. QED
        BY <3>2, <3>3, <3>4, <3>7 DEF BufferInv, OwnTexts
    <2>6. CASE WriteBody(f)
      <3>. DEFINE p == IF exception[f] THEN "exception" ELSE "message"
      <3>1. pc[f] = "body" /\ pc'[f] = "newline" /\ \A g \in Frames \ {f} : pc'[g] = pc[g]
        BY <2>6, Moves DEF WriteBody
      <3>2. UNCHANGED <<call, exception, logString, overlapped>> /\ Write(f, p, logString)
        BY <2>6 DEF WriteBody, Write
      <3>3. ~overlapped => logString = Text(call[f], p)
        BY <3>1 DEF BufferInv, BufferIsExpected, InBuffer, Expected
      <3>4. ~overlapped => OwnTexts'
        BY <3>1, <3>2, <3>3, OwnPiece DEF BufferInv, TypeOK, Parts
      <3>. QED
        BY <3>1, <3>2, <3>4, BufferLeft DEF BufferInv
    <2>7. CASE WriteNewline(f)
      <3>1. pc[f] # "off" /\ pc'[f] = "leave" /\ \A g \in Frames \ {f} : pc'[g] = pc[g]
        BY <2>7, Moves DEF WriteNewline
      <3>2. UNCHANGED <<call, exception, logString, overlapped>>
            /\ Write(f, "newline", Text(call[f], "newline"))
        BY <2>7 DEF WriteNewline, Write
      <3>3. Text(call[f], "newline") \in Texts
        BY TextTyped DEF Parts, TypeOK
      <3>4. ~overlapped => OwnTexts'
        BY <3>1, <3>2, <3>3, OwnPiece DEF BufferInv, Parts
      <3>. QED
        BY <3>1, <3>2, <3>4, BufferLeft DEF BufferInv
    <2>8. CASE Leave(f) \/ Flush(f)
      BY <2>8, Moves, BufferLeft DEF Leave, Flush, BufferInv, OwnTexts
    <2>9. CASE Return(f)
      BY <2>9, Moves, BufferLeft DEF Return, BufferInv, OwnTexts, TypeOK
    <2>. QED
      BY <2>1, <2>2, <2>3, <2>4, <2>5, <2>6, <2>7, <2>8, <2>9 DEF Progress
  <1>2. CASE \E f \in Frames : \E kind \in {"log", "debug", "exception"} : Start(f, kind)
    BY <1>2, Moves, BufferLeft DEF Start, BufferInv, OwnTexts, TypeOK
  <1>3. CASE \E level \in {"INFORMATIONAL", "DEBUG"} : SetLogLevel(level)
    BY <1>3 DEF SetLogLevel, BufferInv, HeadersAreOfLogs, OneInBuffer, BufferIsExpected, InBuffer,
       Expected, OwnTexts
  <1>4. CASE UNCHANGED vars
    BY <1>4 DEF vars, BufferInv, HeadersAreOfLogs, OneInBuffer, BufferIsExpected, InBuffer,
       Expected, OwnTexts
  <1>. QED
    BY <1>1, <1>2, <1>3, <1>4 DEF Next

\* Each piece in the log file is the text its own call formatted, unless two calls
\* have used the buffer at once, for any threads, signals and number of calls.
THEOREM OwnTextsOnly == Safety => []TextsAreOwn
  <1>1. Init => BufferInv
    BY DEF Init, BufferInv, HeadersAreOfLogs, OneInBuffer, BufferIsExpected, InBuffer, OwnTexts
  <1>2. TypeInv /\ BufferInv => TextsAreOwn
    <2>1. TypeInv => DOMAIN stream = 1 .. Len(stream)
      BY LenProperties DEF TypeInv, TypeOK
    <2>. QED
      BY <2>1 DEF BufferInv, OwnTexts, TextsAreOwn
  <1>. QED
    BY <1>1, <1>2, InitTyped, NextTyped, BufferStep, PTL DEF Safety

-----------------------------------------------------------------------------
(* ReturnedIsInFile.  A frame past its last write has its newline in the     *)
(* stream, and what is flushed stays flushed.                                *)

EndsLine(i, c) == stream[i].call = c /\ stream[i].part = "newline"
Written(c, n) == \E i \in 1 .. n : EndsLine(i, c)

FileInv ==
    /\ \A f \in Frames : pc[f] \in {"leave", "flush", "flushing"} => Written(call[f], Len(stream))
    /\ \A c \in returned : Written(c, flushed)

\* What is written and flushed stays so while the stream only grows.
LEMMA FileStays ==
    ASSUME TypeOK, FileInv, Len(stream') \in Nat, Len(stream) <= Len(stream'),
           \A i \in 1 .. Len(stream) : stream'[i] = stream[i]
    PROVE  /\ \A c : Written(c, Len(stream)) => Written(c, Len(stream))'
           /\ flushed' = flushed => \A c \in returned : Written(c, flushed)'
           /\ flushed' = Len(stream') => \A c \in returned : Written(c, flushed)'
  <1>. /\ Len(stream) \in Nat /\ flushed \in Nat /\ flushed <= Len(stream)
       /\ 1 .. Len(stream) \subseteq 1 .. Len(stream')
       /\ 1 .. flushed \subseteq 1 .. Len(stream)
    BY LenProperties DEF TypeOK
  <1>. QED
    BY DEF FileInv, Written, EndsLine

\* A write by a frame that is not past its last one keeps the invariant.
LEMMA FileGrows ==
    ASSUME TypeInv, FileInv, NEW f \in Frames, pc[f] # "off", NEW p \in Parts, NEW text \in Texts,
           Write(f, p, text), \A g \in Frames \ {f} : pc'[g] = pc[g],
           pc'[f] \notin {"leave", "flush", "flushing"} \/ p = "newline"
    PROVE  FileInv'
  <1>. DEFINE n == Len(stream)
  <1>1. /\ n \in Nat /\ Len(stream') = n + 1
        /\ \A i \in 1 .. n : stream'[i] = stream[i]
        /\ stream'[n + 1] = [call |-> call[f], part |-> p, text |-> text]
    BY PieceTyped
  <1>2. UNCHANGED <<call, flushed, returned>>
    BY DEF Write
  <1>3. /\ \A c : Written(c, n) => Written(c, n)'
        /\ \A c \in returned : Written(c, flushed)'
    BY <1>1, <1>2, FileStays DEF TypeInv
  <1>4. p = "newline" => Written(call[f], n)'
    <2>1. n + 1 \in 1 .. Len(stream')
      BY <1>1
    <2>2. stream'[n + 1].call = call'[f] /\ stream'[n + 1].part = p
      BY <1>1, <1>2
    <2>. QED
      BY <2>1, <2>2 DEF Written, EndsLine
  <1>. QED
    BY <1>2, <1>3, <1>4 DEF FileInv

LEMMA FileStep == TypeInv /\ FileInv /\ [Next]_vars => FileInv'
  <1>. SUFFICES ASSUME TypeInv, FileInv, [Next]_vars
                PROVE  FileInv'
    OBVIOUS
  <1>1. CASE \E f \in Frames : Progress(f)
    <2>1. PICK f \in Frames : Progress(f)
      BY <1>1
    <2>2. CASE FormatFirst(f)
      BY <2>2, Moves DEF FormatFirst, TypeInv, FileInv, Written, EndsLine
    <2>3. CASE GetLogger(f)
      BY <2>3, Moves DEF GetLogger, TypeInv, FileInv, Written, EndsLine
    <2>4. CASE WriteHeader(f)
      BY <2>4, Moves, FileGrows DEF WriteHeader, TypeInv, TypeOK, Parts
    <2>5. CASE FormatMessage(f)
      BY <2>5, Moves DEF FormatMessage, TypeInv, FileInv, Written, EndsLine
    <2>6. CASE WriteBody(f)
      BY SMTT(30), <2>6, Moves, FileGrows DEF WriteBody, TypeInv, TypeOK, Parts
    <2>7. CASE WriteNewline(f)
      <3>1. Text(call[f], "newline") \in Texts
        BY TextTyped DEF Parts, TypeInv, TypeOK
      <3>. QED
        BY <2>7, <3>1, Moves, FileGrows DEF WriteNewline, TypeInv, Parts
    <2>8. CASE Leave(f)
      BY <2>8, Moves DEF Leave, TypeInv, FileInv, Written, EndsLine
    <2>9. CASE Flush(f)
      BY <2>9, Moves DEF Flush, TypeInv, FileInv, Written, EndsLine
    <2>10. CASE Return(f)
      <3>1. /\ pc[f] = "flushing" /\ pc'[f] = "off" /\ \A g \in Frames \ {f} : pc'[g] = pc[g]
            /\ \A g \in Frames \ {f} : call'[g] = call[g]
        BY <2>10, Moves DEF Return, TypeInv, TypeOK
      <3>2. stream' = stream /\ flushed' = Len(stream) /\ returned' = returned \cup {call[f]}
        BY <2>10 DEF Return
      <3>3. \A c \in returned : Written(c, flushed)'
        BY <3>2, FileStays, LenProperties DEF TypeInv, TypeOK
      <3>4. Written(call[f], Len(stream))
        BY <3>1 DEF FileInv
      <3>. QED
        BY <3>1, <3>2, <3>3, <3>4 DEF FileInv, Written, EndsLine
    <2>. QED
      BY <2>1, <2>2, <2>3, <2>4, <2>5, <2>6, <2>7, <2>8, <2>9, <2>10 DEF Progress
  <1>2. CASE \E f \in Frames : \E kind \in {"log", "debug", "exception"} : Start(f, kind)
    BY <1>2, Moves DEF Start, TypeInv, TypeOK, FileInv, Written, EndsLine
  <1>3. CASE \E level \in {"INFORMATIONAL", "DEBUG"} : SetLogLevel(level)
    BY <1>3 DEF SetLogLevel, FileInv, Written, EndsLine
  <1>4. CASE UNCHANGED vars
    BY <1>4 DEF vars, FileInv, Written, EndsLine
  <1>. QED
    BY <1>1, <1>2, <1>3, <1>4 DEF Next

\* When a call has returned, its line is in the file up to its newline, for any
\* threads, signals and number of calls, unless two threads used the stream at once.
THEOREM ReturnedCallsAreInFile == Safety => []ReturnedIsInFile
  <1>1. Init => FileInv
    BY DEF Init, FileInv
  <1>2. FileInv => ReturnedIsInFile
    BY DEF FileInv, Written, EndsLine, ReturnedIsInFile
  <1>. QED
    BY <1>1, <1>2, InitTyped, NextTyped, FileStep, PTL DEF Safety

=============================================================================
