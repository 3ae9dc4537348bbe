------------------------------- MODULE Logger -------------------------------
(***************************************************************************)
(* The Logger and its LogFile (MddProxyRunLogger.cxx, LogFile.cxx), shared *)
(* by all threads, by the exceptions (MddProxyException.cxx) and by the    *)
(* signal handler.                                                         *)
(*                                                                         *)
(* A frame is a piece of stack that calls the logger: a worker's, the      *)
(* owner's, or the signal handler's on top of the owner's, which stands    *)
(* still in the meantime.  Each call has a number.                         *)
(*                                                                         *)
(* A text is the call that formatted it and what it is: the header or the  *)
(* message of Log(), or the one text of LogException().  All are formatted *)
(* into the one buffer logString, the header and the exception before the  *)
(* mutex is taken.  The stream is flushed after the mutex is released; an  *)
(* ofstream does not bear two uses at once, and what comes of that is not  *)
(* modelled beyond the flag `corrupted'.                                   *)
(***************************************************************************)
EXTENDS Naturals, Sequences

CONSTANTS
    Owner,      \* the owner's frame
    Handler,    \* the signal handler's, on top of it
    Workers,    \* the worker threads' frames
    MaxCalls    \* bound: calls of Log() and LogException()

ASSUME FramesAssumption ==
    /\ Owner # Handler
    /\ {Owner, Handler} \cap Workers = {}
    /\ "free" \notin Workers \cup {Owner, Handler}
ASSUME CallsAssumption == MaxCalls \in Nat

VARIABLES
    pc,         \* pc[f]: where frame f is in Log() or LogException()
    call,       \* call[f]: the number of its call
    exception,  \* exception[f]: whether it is LogException()
    calls,      \* how many calls there have been
    logLevel,   \* Logger::logLevel
    logString,  \* the text in the buffer
    lock,       \* who holds LogFile::lock
    stream,     \* what has been written to the stream, piece after piece
    flushed,    \* how many of its pieces are in the file
    \* history
    returned,   \* the calls that have returned
    overlapped, \* two calls had a text in logString at once
    corrupted   \* two threads used the stream at once

vars == <<pc, call, exception, calls, logLevel, logString, lock, stream, flushed, returned,
          overlapped, corrupted>>

Frames == Workers \cup {Owner, Handler}
Calls == 1 .. MaxCalls
Parts == {"header", "message", "exception", "newline"}
Labels == {"off", "format", "lock", "header", "message", "body", "newline", "leave", "flush",
           "flushing"}

\* Call 0 is that of a buffer never written, or of a text that two calls have mixed.
Texts == [call : 0 .. MaxCalls, part : Parts \cup {"mixed"}]
Pieces == [call : Calls, part : Parts, text : Texts]

TypeOK ==
    /\ pc \in [Frames -> Labels]
    /\ call \in [Frames -> 0 .. MaxCalls]
    /\ exception \in [Frames -> BOOLEAN]
    /\ calls \in 0 .. MaxCalls
    /\ logLevel \in {"INFORMATIONAL", "DEBUG"}
    /\ logString \in Texts
    /\ lock \in Frames \cup {"free"}
    /\ stream \in Seq(Pieces)
    /\ flushed \in 0 .. Len(stream)
    /\ returned \subseteq Calls
    /\ overlapped \in BOOLEAN
    /\ corrupted \in BOOLEAN

Text(c, p) == [call |-> c, part |-> p]

Init ==
    /\ pc = [f \in Frames |-> "off"]
    /\ call = [f \in Frames |-> 0]
    /\ exception = [f \in Frames |-> FALSE]
    /\ calls = 0
    /\ logLevel = "INFORMATIONAL"
    /\ logString = Text(0, "header")
    /\ lock = "free"
    /\ stream = <<>>
    /\ flushed = 0
    /\ returned = {}
    /\ overlapped = FALSE
    /\ corrupted = FALSE

-----------------------------------------------------------------------------

\* While the handler runs, the owner does not.
Runs(f) == f = Owner => pc[Handler] = "off"

Trans(f, from, to) ==
    /\ Runs(f)
    /\ pc[f] = from
    /\ pc' = [pc EXCEPT ![f] = to]

\* LOGINF, LOGERR, an exception, or, if the level is DEBUG, LOGDEB.
Start(f, kind) ==
    /\ kind = "debug" => logLevel = "DEBUG"
    /\ calls < MaxCalls
    /\ Trans(f, "off", "format")
    /\ calls' = calls + 1
    /\ call' = [call EXCEPT ![f] = calls + 1]
    /\ exception' = [exception EXCEPT ![f] = (kind = "exception")]
    /\ UNCHANGED <<logLevel, logString, lock, stream, flushed, returned, overlapped, corrupted>>

\* Mutant of SetLogLevel: the level of the messages that are always written.
SetErrorLevel(level) ==
    /\ Runs(Owner) /\ pc[Owner] = "off"
    /\ logLevel' = "ERROR"
    /\ UNCHANGED <<pc, call, exception, calls, logString, lock, stream, flushed, returned,
                   overlapped, corrupted>>

\* MddProxy::SetLogLevel(), after it has logged what it does.
SetLogLevel(level) ==
    /\ Runs(Owner) /\ pc[Owner] = "off"
    /\ logLevel' = level
    /\ UNCHANGED <<pc, call, exception, calls, logString, lock, stream, flushed, returned,
                   overlapped, corrupted>>

\* Frame f has formatted a text and is not through with it.
InBuffer(f) == pc[f] \in {"lock", "header", "message", "body"}

OthersInBuffer(f) == \E g \in Frames \ {f} : InBuffer(g)

\* A text formatted while another call uses the buffer may come out mixed.
Format(f, p) ==
    \/ logString' = Text(call[f], p)
    \/ OthersInBuffer(f) /\ logString' = Text(0, "mixed")

\* sprintf() of the header, or of all an exception logs.
FormatFirst(f) ==
    /\ Trans(f, "format", "lock")
    /\ Format(f, IF exception[f] THEN "exception" ELSE "header")
    /\ overlapped' = (overlapped \/ OthersInBuffer(f))
    /\ UNCHANGED <<call, exception, calls, logLevel, lock, stream, flushed, returned, corrupted>>

\* Mutant of GetLogger: the mutex is not waited for.
GetLoggerUnlocked(f) ==
    /\ Trans(f, "lock", IF exception[f] THEN "body" ELSE "header")
    /\ lock' = f
    /\ UNCHANGED <<call, exception, calls, logLevel, logString, stream, flushed, returned,
                   overlapped, corrupted>>

\* LogFile::getLogger().
GetLogger(f) ==
    /\ lock = "free"
    /\ Trans(f, "lock", IF exception[f] THEN "body" ELSE "header")
    /\ lock' = f
    /\ UNCHANGED <<call, exception, calls, logLevel, logString, stream, flushed, returned,
                   overlapped, corrupted>>

Write(f, p, text) ==
    /\ stream' = Append(stream, [call |-> call[f], part |-> p, text |-> text])
    /\ corrupted' = (corrupted \/ \E g \in Frames : pc[g] = "flushing")
    /\ UNCHANGED <<call, exception, calls, logLevel, logString, lock, flushed, returned, overlapped>>

WriteHeader(f) == Trans(f, "header", "message") /\ Write(f, "header", logString)

\* Mutant of FormatMessage: the header is left in the buffer.
NoMessage(f) ==
    /\ Trans(f, "message", "body")
    /\ UNCHANGED <<call, exception, calls, logLevel, logString, lock, stream, flushed, returned,
                   overlapped, corrupted>>

\* vsnprintf() of the message, under the mutex.
FormatMessage(f) ==
    /\ Trans(f, "message", "body")
    /\ Format(f, "message")
    /\ UNCHANGED <<call, exception, calls, logLevel, lock, stream, flushed, returned, overlapped,
                   corrupted>>

WriteBody(f) ==
    /\ Trans(f, "body", "newline")
    /\ Write(f, IF exception[f] THEN "exception" ELSE "message", logString)

WriteNewline(f) ==
    /\ Trans(f, "newline", "leave")
    /\ Write(f, "newline", Text(call[f], "newline"))

\* Mutant of Leave: LogException() leaves without unlocking.
LeaveLocked(f) ==
    /\ Trans(f, "leave", "flush")
    /\ lock' = IF exception[f] THEN f ELSE "free"
    /\ UNCHANGED <<call, exception, calls, logLevel, logString, stream, flushed, returned,
                   overlapped, corrupted>>

\* LogFile::leave().
Leave(f) ==
    /\ Trans(f, "leave", "flush")
    /\ lock' = "free"
    /\ UNCHANGED <<call, exception, calls, logLevel, logString, stream, flushed, returned,
                   overlapped, corrupted>>

\* flush(), from where it begins to where it ends, and the return.
Flush(f) ==
    /\ Trans(f, "flush", "flushing")
    /\ corrupted' = (corrupted \/ \E g \in Frames \ {f} : pc[g] = "flushing")
    /\ UNCHANGED <<call, exception, calls, logLevel, logString, lock, stream, flushed, returned,
                   overlapped>>

\* Mutant of Return: nothing is flushed.
ReturnUnflushed(f) ==
    /\ Trans(f, "flushing", "off")
    /\ call' = [call EXCEPT ![f] = 0]
    /\ returned' = returned \cup {call[f]}
    /\ UNCHANGED <<exception, calls, logLevel, logString, lock, stream, flushed, overlapped,
                   corrupted>>

Return(f) ==
    /\ Trans(f, "flushing", "off")
    /\ call' = [call EXCEPT ![f] = 0]
    /\ flushed' = Len(stream)
    /\ returned' = returned \cup {call[f]}
    /\ UNCHANGED <<exception, calls, logLevel, logString, lock, stream, overlapped, corrupted>>

-----------------------------------------------------------------------------

\* What the scheduler owes a frame whose call has begun.
Progress(f) ==
    \/ FormatFirst(f) \/ GetLogger(f) \/ WriteHeader(f) \/ FormatMessage(f) \/ WriteBody(f)
    \/ WriteNewline(f) \/ Leave(f) \/ Flush(f) \/ Return(f)

Next ==
    \/ \E f \in Frames :
          Progress(f) \/ \E kind \in {"log", "debug", "exception"} : Start(f, kind)
    \/ \E level \in {"INFORMATIONAL", "DEBUG"} : SetLogLevel(level)

Safety == Init /\ [][Next]_vars

\* Every frame is scheduled, and a mutex that is released again and again is got
\* in the end.
Spec == Safety /\ \A f \in Frames : WF_vars(Progress(f)) /\ SF_vars(GetLogger(f))

-----------------------------------------------------------------------------

\* A line is written by one call from its first piece to its newline, whatever
\* becomes of the texts: getLogger() and leave() enclose all the writing.
LinesAreWhole ==
    \A i \in 2 .. Len(stream) :
        stream[i - 1].part = "newline" \/ stream[i - 1].call = stream[i].call

\* Each piece of a line is the text its own call formatted, unless two calls have
\* used the buffer at once: the header and the exception are formatted outside the
\* mutex.
TextsAreOwn ==
    overlapped \/ \A i \in DOMAIN stream : stream[i].text = Text(stream[i].call, stream[i].part)

\* When Log() or LogException() has returned, its line is in the file, to its
\* newline, even if the process ends at once, as it does after most exceptions:
\* unless a flush and another use of the stream have met.
ReturnedIsInFile ==
    corrupted \/
        \A c \in returned :
            \E i \in 1 .. flushed : stream[i].call = c /\ stream[i].part = "newline"

\* The handler waits for the mutex of the frame it has interrupted.
SelfBlocked == pc[Handler] = "lock" /\ lock = Owner

\* Every call returns, unless a signal has interrupted the owner while it was
\* writing a line: then no call gets the mutex again.
CallsReturn == \A f \in Frames : pc[f] # "off" ~> pc[f] = "off" \/ SelfBlocked

=============================================================================
