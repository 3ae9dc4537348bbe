---------------------------- MODULE MddProxyMain ----------------------------
(***************************************************************************)
(* main() and the CommandLineInterface (MddProxyMain.cxx,                  *)
(* CommandLineInterface.cxx) over the proxy of MddProxy.tla.  main() makes *)
(* the proxy, serves command clients in Listen(), one at a time, and only  *)
(* then calls WaitForExit().  All of it is the proxy's owner thread.       *)
(*                                                                         *)
(* ProcessCommand does not parse what it received: it parses a literal     *)
(* that names command 1, stopproc.  So whatever a client sends, Stop() is  *)
(* called, and the branches of the other commands are dead code.           *)
(*                                                                         *)
(* Signals come at any time; a handler set with signal() restarts the      *)
(* accept() or recv() it interrupts.                                       *)
(***************************************************************************)
EXTENDS Naturals, Sequences, FiniteSets

CONSTANTS
    Sockets, Garbage, InitialWorkers, MaxWorkerThreads, MaxWorkers,
    MaxPending, MaxFree, MaxOverPops, MaxStops,     \* see WorkDispatcher.tla
    MaxArrivals,                                    \* see MddProxy.tla
    Commands,       \* the ids clients send, out of 1 .. 7
    MaxClients      \* bound: clients that connect

ASSUME SocketsAssumption == Garbage \notin Sockets /\ IsFiniteSet(Sockets)
ASSUME WorkerCountAssumption ==
    /\ {InitialWorkers, MaxWorkerThreads, MaxWorkers} \subseteq Nat \ {0}
    /\ InitialWorkers <= MaxWorkers
    /\ MaxWorkerThreads <= MaxWorkers
ASSUME BoundAssumption == {MaxPending, MaxFree, MaxOverPops, MaxStops, MaxArrivals} \subseteq Nat
ASSUME MainAssumption == Commands \subseteq 1 .. 7 /\ MaxClients \in Nat

VARIABLES
    state, receiverSocket, syncLock, pc, held, process,
    pendingItems, freeWorkers, busyWorkers, totalWorkerCount, dispatchLock,
    main, evList, chosen, toAdd, joined, handler, below, hNext, stops,
    continueProcessing, ready, unread, arrivals,
                    \* see Worker.tla, WorkDispatcher.tla and MddProxy.tla
    cli,            \* where the owner is while the dispatcher has it at "cli"
    clientOpen,     \* whether clientSocket is an open descriptor
    client,         \* the client: none, connected, or gone one way or the other
    inbox,          \* the command it has sent and recv() has not returned, or 0
    command,        \* the last command recv() has returned, or 0
    clients         \* how many clients have connected

P == INSTANCE MddProxy

dispatcherVars ==
    <<pendingItems, freeWorkers, busyWorkers, totalWorkerCount, dispatchLock, main, evList, chosen,
      toAdd, joined, handler, below, hNext, stops>>
loopVars == <<continueProcessing, ready, unread, arrivals>>
proxyVars ==
    <<state, receiverSocket, syncLock, pc, held, process, dispatcherVars, loopVars>>
cliVars == <<cli, clientOpen, client, inbox, command, clients>>
vars == <<proxyVars, cliVars>>

TypeOK ==
    /\ P!TypeOK
    /\ cli \in {"create", "accept", "recv", "process", "respond", "left"}
    /\ clientOpen \in BOOLEAN
    /\ client \in {"none", "connected", "closed", "reset"}
    /\ inbox \in Commands \cup {0}
    /\ command \in Commands \cup {0}
    /\ clients \in 0 .. MaxClients

Init ==
    /\ P!Init
    /\ cli = "create"
    /\ clientOpen = FALSE
    /\ client = "none"
    /\ inbox = 0
    /\ command = 0
    /\ clients = 0

-----------------------------------------------------------------------------
(* The owner, in main() and in the command line interface. *)

\* No signal handler stands on the owner's stack.
CliAt(label) == P!D!OwnerAt("cli") /\ cli = label

\* Create(), then listen().
CreateInterface ==
    /\ CliAt("create")
    /\ cli' = "accept"
    /\ UNCHANGED <<proxyVars, clientOpen, client, inbox, command, clients>>

Abort == P!OwnerThrows /\ UNCHANGED cliVars

\* Create(), listen() or accept() throws, and main() does not catch.
InterfaceFails == (CliAt("create") \/ CliAt("accept")) /\ Abort

Accept ==
    /\ CliAt("accept")
    /\ client # "none"
    /\ clientOpen' = TRUE
    /\ cli' = "recv"
    /\ UNCHANGED <<proxyVars, client, inbox, command, clients>>

\* recv() returns a command.
Receive ==
    /\ CliAt("recv")
    /\ clientOpen /\ inbox # 0
    /\ command' = inbox
    /\ inbox' = 0
    /\ cli' = "process"
    /\ UNCHANGED <<proxyVars, clientOpen, client, clients>>

\* Mutant of ReceiveNothing: the socket is not closed.
ReceiveNothingOpen ==
    /\ CliAt("recv")
    /\ clientOpen /\ inbox = 0 /\ client = "closed"
    /\ UNCHANGED <<proxyVars, cliVars>>

\* recv() returns 0: the socket is closed, and the loop goes on reading from it.
ReceiveNothing ==
    /\ CliAt("recv")
    /\ clientOpen /\ inbox = 0 /\ client = "closed"
    /\ clientOpen' = FALSE
    /\ UNCHANGED <<proxyVars, cli, client, inbox, command, clients>>

\* Mutant of ReceiveFails: Listen() gives up as well.
ReceiveFailsForGood ==
    /\ CliAt("recv")
    /\ ~clientOpen \/ client = "reset"
    /\ P!CallWaitForExit
    /\ cli' = "left"
    /\ UNCHANGED <<clientOpen, client, inbox, command, clients>>

\* recv() fails, on a closed descriptor or a reset connection: the exception ends
\* ReceiveData(), and Listen() accepts the next client.
ReceiveFails ==
    /\ CliAt("recv")
    /\ ~clientOpen \/ client = "reset"
    /\ cli' = "accept"
    /\ clientOpen' = FALSE
    /\ client' = "none"
    /\ inbox' = 0
    /\ UNCHANGED <<proxyVars, command, clients>>

\* ProcessCommand calls Stop(), whose WakeUpAllThreads then runs as the handler.
ProcessCommand ==
    /\ CliAt("process")
    /\ P!Stop
    /\ cli' = "respond"
    /\ UNCHANGED <<clientOpen, client, inbox, command, clients>>

\* The response is sent; stopCommandIntf is up, so ReceiveData() and Listen()
\* return and main() calls WaitForExit().
Respond ==
    /\ CliAt("respond")
    /\ P!CallWaitForExit
    /\ cli' = "left"
    /\ UNCHANGED <<clientOpen, client, inbox, command, clients>>

\* main() leaves SIGPIPE as it is, and the response goes to a client that is gone.
RespondBreaks == CliAt("respond") /\ client \in {"closed", "reset"} /\ Abort

\* Mutant of CheckForSignals: the handler clears the flag and wakes up nobody.
OnlyClearFlag ==
    /\ stops + 1 < MaxStops \/ cli \in {"respond", "left"}
    /\ process = "up" /\ main # "construct"
    /\ continueProcessing' = FALSE
    /\ UNCHANGED <<state, receiverSocket, syncLock, pc, held, process, dispatcherVars>>
    /\ UNCHANGED <<ready, unread, arrivals, cliVars>>

\* CheckForSignals: mddPrxy is set once the constructor has returned.  The owner does
\* not log while it waits for a client.  A bound: one of the MaxStops calls is left
\* for ProcessCommand.
CheckForSignals ==
    /\ stops + 1 < MaxStops \/ cli \in {"respond", "left"}
    /\ \/ P!Stop
       \/ P!StopOnTop /\ (CliAt("accept") => client # "none")
    /\ UNCHANGED cliVars

-----------------------------------------------------------------------------
(* The clients. *)

Connect ==
    /\ process = "up"
    /\ client = "none"
    /\ cli # "left"
    /\ clients < MaxClients
    /\ client' = "connected"
    /\ clients' = clients + 1
    /\ UNCHANGED <<proxyVars, cli, clientOpen, inbox, command>>

SendCommand(c) ==
    /\ process = "up"
    /\ client = "connected"
    /\ inbox = 0
    /\ cli \notin {"respond", "left"}
    /\ inbox' = c
    /\ UNCHANGED <<proxyVars, cli, clientOpen, client, command, clients>>

Disconnect(how) ==
    /\ process = "up"
    /\ client = "connected"
    /\ client' = how
    /\ UNCHANGED <<proxyVars, cli, clientOpen, inbox, command, clients>>

-----------------------------------------------------------------------------

CliStep ==
    \/ CreateInterface \/ Accept \/ Receive \/ ReceiveNothing \/ ReceiveFails
    \/ ProcessCommand \/ Respond

\* WaitForExit() is Respond's to call, and no command reaches AddNewWorkers.
OwnerStep ==
    \/ CliStep
    \/ (P!WaitForData \/ P!LeaveLoop) /\ UNCHANGED cliVars
    \/ P!D!OwnerStep /\ UNCHANGED <<loopVars, cliVars>>

HandlerStep == P!HandlerStep /\ UNCHANGED cliVars

ThreadStep(t) == P!ThreadStep(t) /\ UNCHANGED cliVars

Client ==
    \/ Connect
    \/ \E c \in Commands : SendCommand(c)
    \/ \E how \in {"closed", "reset"} : Disconnect(how)

Failure ==
    \/ InterfaceFails \/ RespondBreaks
    \/ P!D!Failure /\ UNCHANGED <<loopVars, cliVars>>

Next ==
    \/ OwnerStep \/ HandlerStep \/ CheckForSignals \/ Client \/ Failure
    \/ \E s \in Sockets : P!Arrive(s) /\ UNCHANGED cliVars
    \/ \E t \in P!D!Threads : ThreadStep(t)

Safety == Init /\ [][Next]_vars

\* As for MddProxy.  Nothing makes a client connect, send or go away.
Spec ==
    /\ Safety
    /\ SF_vars(OwnerStep)
    /\ WF_vars(HandlerStep)
    /\ \A t \in P!D!Threads : WF_vars(ThreadStep(t))

-----------------------------------------------------------------------------

\* main() leaves Listen() for WaitForExit() only after a command has stopped the
\* proxy: a client that goes away, a recv() that fails and a signal never get it
\* there.  (So the event loop is entered with the flag already down, and the
\* program dispatches no socket at all.)
ListenEndsByCommand ==
    main \notin {"construct", "cli"} =>
        ~continueProcessing /\ stops > 0 /\ command # 0

\* A client that goes away, at whatever point of its exchange, leaves the place to
\* the next one, unless Listen() is left, the process ends or a signal handler blocks
\* the owner for ever.  It takes the failing recv() on the socket that was just closed.
ClientsAreReplaced ==
    client \in {"closed", "reset"} ~>
        client = "none" \/ cli = "left" \/ process # "up" \/ handler = "stuck"


\* The proxy is used as MddProxy.tla allows, whatever clients and signals do: what
\* holds of it there holds in the program, for one that no deleted worker is used
\* (DeletedIsUnused).
ProxySpec == P!Safety

\* The program dispatches no socket, at any time: no worker is ever resumed.  All
\* that would is in the event loop, and main() enters the loop with the flag down.
NothingIsDispatched ==
    /\ evList = <<>> /\ pendingItems.items = <<>>
    /\ \A w \in P!D!Workers : state[w] # "RESUME"
    /\ \A t \in P!D!Threads : pc[t] \notin P!D!Working

=============================================================================
