----------------------------- MODULE FeedConfig -----------------------------
(***************************************************************************)
(* What the MddProxy constructor makes of the feed configuration:          *)
(* MddFeedConfig::Load (MarketDataFeedConfigReader.cxx) reads the          *)
(* receivers, the senders and the mapping between them, in this order, and *)
(* MddProxy::AddReceiversFromConfig (MddProxy.cxx) opens the sockets of    *)
(* one mapped receiver after the other.  Nothing catches what these throw, *)
(* so a failure ends the process, whatever is open by then.                *)
(*                                                                         *)
(* An address stands for the ip, port, protocol and type of an entry.  Ids *)
(* may be declared twice and referred to without being declared.           *)
(***************************************************************************)
EXTENDS Naturals, Sequences

CONSTANTS
    Ids,            \* of the receivers and of the senders
    Addresses,
    MaxDeclared,    \* bound: entries of <Receivers>, and of <Senders>
    MaxMapped       \* bound: MappedReceivers, and MappedSenders of each

ASSUME FeedBoundsAssumption == MaxDeclared \in Nat /\ MaxMapped \in Nat

VARIABLES
    tree,           \* the property tree of the file
    phase,          \* what the constructor is at
    position,       \* the entries dealt with in this phase
    receivers,      \* MddFeedConfig::receivers: the address of an id
    senders,        \* MddFeedConfig::senders
    mappedFeeds,    \* the ReceiverSendersT's, in order
    passed,         \* the MappedSenders dealt with of the MappedReceiver at hand
    outputs,        \* outputAddresses of the ReceiverSendersT at hand
    senderList,     \* the senders opened for the receiver at hand
    routes          \* the ReceiverSockets made: address and senderSocketList

feedVars == <<mappedFeeds, passed, outputs>>
socketVars == <<senderList, routes>>
vars == <<tree, phase, position, receivers, senders, feedVars, socketVars>>

BoundedSeq(S, n) == UNION {[1 .. m -> S] : m \in 0 .. n}

Entries == [id : Ids, address : Addresses]
MappedReceivers == [id : Ids, senders : BoundedSeq(Ids, MaxMapped)]
Trees == [receivers : BoundedSeq(Entries, MaxDeclared),
          senders : BoundedSeq(Entries, MaxDeclared),
          mapping : BoundedSeq(MappedReceivers, MaxMapped)]

\* Of an inputAddress never written.
Unset == "unset"
ASSUME UnsetAssumption == Unset \notin Addresses
InputAddresses == Addresses \cup {Unset}
Feeds == [input : InputAddresses, outputs : Seq(Addresses)]
AddressMaps == UNION {[declared -> Addresses] : declared \in SUBSET Ids}

TypeOK ==
    /\ tree \in Trees
    /\ phase \in {"receivers", "senders", "mapping", "sockets", "constructed", "aborted"}
    /\ position \in 0 .. MaxDeclared + MaxMapped
    /\ receivers \in AddressMaps
    /\ senders \in AddressMaps
    /\ mappedFeeds \in Seq(Feeds)
    /\ passed \in 0 .. MaxMapped
    /\ outputs \in Seq(Addresses)
    /\ senderList \in Seq(Addresses)
    /\ routes \in Seq([input : Addresses, outputs : Seq(Addresses)])

Init ==
    /\ tree \in Trees
    /\ phase = "receivers"
    /\ position = 0
    /\ receivers = <<>>
    /\ senders = <<>>
    /\ mappedFeeds = <<>>
    /\ passed = 0
    /\ outputs = <<>>
    /\ senderList = <<>>
    /\ routes = <<>>

-----------------------------------------------------------------------------

\* Mutant of Insert: the last declaration wins.
Overwrite(map, entry) ==
    [i \in DOMAIN map \cup {entry.id} |-> IF i = entry.id THEN entry.address ELSE map[i]]

\* unordered_map::insert: an id already there keeps the address it has.
Insert(map, entry) ==
    [i \in DOMAIN map \cup {entry.id} |-> IF i \in DOMAIN map THEN map[i] ELSE entry.address]

\* The next entry of this phase, or the next phase.
NextOf(list) == position < Len(list) /\ position' = position + 1 /\ UNCHANGED phase
Leave(list, next) == position = Len(list) /\ position' = 0 /\ phase' = next

LoadReceivers ==
    /\ phase = "receivers"
    /\ \/ /\ NextOf(tree.receivers)
          /\ receivers' = Insert(receivers, tree.receivers[position + 1])
       \/ Leave(tree.receivers, "senders") /\ UNCHANGED receivers
    /\ UNCHANGED <<tree, senders, feedVars, socketVars>>

LoadSenders ==
    /\ phase = "senders"
    /\ \/ /\ NextOf(tree.senders)
          /\ senders' = Insert(senders, tree.senders[position + 1])
       \/ Leave(tree.senders, "mapping") /\ UNCHANGED senders
    /\ UNCHANGED <<tree, receivers, feedVars, socketVars>>

\* The inner loop: a sender id never declared is passed over.
MappedReceiver == tree.mapping[position + 1]
LoadMappedSender ==
    /\ phase = "mapping" /\ position < Len(tree.mapping)
    /\ passed < Len(MappedReceiver.senders)
    /\ passed' = passed + 1
    /\ LET id == MappedReceiver.senders[passed + 1]
       IN  outputs' = IF id \in DOMAIN senders THEN Append(outputs, senders[id]) ELSE outputs
    /\ UNCHANGED <<tree, phase, position, receivers, senders, mappedFeeds, socketVars>>

\* A receiver id never declared leaves inputAddress as it is, unwritten.
Input(id) == IF id \in DOMAIN receivers THEN receivers[id] ELSE Unset

\* The outer loop: the ReceiverSendersT is complete.
LoadMappedReceiver ==
    /\ phase = "mapping"
    /\ NextOf(tree.mapping)
    /\ passed = Len(MappedReceiver.senders)
    /\ mappedFeeds' = Append(mappedFeeds, [input |-> Input(MappedReceiver.id), outputs |-> outputs])
    /\ passed' = 0
    /\ outputs' = <<>>
    /\ UNCHANGED <<tree, receivers, senders, socketVars>>

LoadMappedFeeds ==
    \/ LoadMappedSender \/ LoadMappedReceiver
    \/ /\ phase = "mapping"
       /\ Leave(tree.mapping, "sockets")
       /\ UNCHANGED <<tree, receivers, senders, feedVars, socketVars>>

\* AddReceiversFromConfig: the receiver at hand, and what it is still to get.
AtHand == mappedFeeds[position + 1]
SenderIsNext ==
    phase = "sockets" /\ position < Len(mappedFeeds) /\ Len(senderList) < Len(AtHand.outputs)
ReceiverIsNext ==
    phase = "sockets" /\ position < Len(mappedFeeds) /\ Len(senderList) = Len(AtHand.outputs)

\* The inner loop: one SenderSocket.
OpenSender ==
    /\ SenderIsNext
    /\ senderList' = Append(senderList, AtHand.outputs[Len(senderList) + 1])
    /\ UNCHANGED <<tree, phase, position, receivers, senders, feedVars, routes>>

\* Mutant of OpenReceiver: what is written stands for what is read.
OpenUnset(address) ==
    /\ ReceiverIsNext
    /\ NextOf(mappedFeeds)
    /\ routes' = Append(routes, [input |-> AtHand.input, outputs |-> senderList])
    /\ senderList' = <<>>
    /\ UNCHANGED <<tree, receivers, senders, feedVars>>

\* The outer loop: the ReceiverSocket, put on the map and registered.  What an
\* unwritten inputAddress points to is anything, or the process dies (ReceiverFails).
OpenReceiver(address) ==
    /\ ReceiverIsNext
    /\ AtHand.input \in {address, Unset}
    /\ NextOf(mappedFeeds)
    /\ routes' = Append(routes, [input |-> address, outputs |-> senderList])
    /\ senderList' = <<>>
    /\ UNCHANGED <<tree, receivers, senders, feedVars>>

Construct ==
    /\ phase = "sockets"
    /\ Leave(mappedFeeds, "constructed")
    /\ UNCHANGED <<tree, receivers, senders, feedVars, socketVars>>

Throw ==
    /\ phase' = "aborted"
    /\ UNCHANGED <<tree, position, receivers, senders, feedVars, socketVars>>

\* The file is not XML, or lacks an attribute or a section.
LoadFails == phase \in {"receivers", "senders", "mapping"} /\ Throw

\* Create() of a socket finds its interface down, or a call fails.
SenderFails == SenderIsNext /\ Throw
ReceiverFails == ReceiverIsNext /\ Throw

Next ==
    \/ LoadReceivers \/ LoadSenders \/ LoadMappedFeeds
    \/ OpenSender \/ Construct
    \/ LoadFails \/ SenderFails \/ ReceiverFails
    \/ \E address \in Addresses : OpenReceiver(address)

Spec == Init /\ [][Next]_vars

-----------------------------------------------------------------------------

\* The address the file gives an id: that of its first declaration.
Declared(list, id) == \E i \in DOMAIN list : list[i].id = id
FirstAddress(list, id) ==
    list[CHOOSE i \in DOMAIN list :
            list[i].id = id /\ \A j \in 1 .. i - 1 : list[j].id # id].address

\* The addresses `to' are those of the first n of `ids', each where the list first
\* declares it and in this order; those not declared are passed over.  place[k] is
\* where the id of the k-th address stands.
Follow(list, to, ids, n) ==
    \E place \in [DOMAIN to -> 1 .. n] :
        /\ \A k \in DOMAIN to : \A m \in 1 .. k - 1 : place[m] < place[k]
        /\ \A i \in 1 .. n : Declared(list, ids[i]) <=> \E k \in DOMAIN to : place[k] = i
        /\ \A k \in DOMAIN to : to[k] = FirstAddress(list, ids[place[k]])

\* A route carries out an entry of the file's mapping: it listens where the entry's
\* receiver was first declared, and sends to the entry's declared senders, where
\* each was first declared, in the order of the entry.
CarriesOut(file, route, mapped) ==
    /\ Declared(file.receivers, mapped.id) =>
          route.input = FirstAddress(file.receivers, mapped.id)
    /\ Follow(file.senders, route.outputs, mapped.senders, Len(mapped.senders))

\* The sockets opened so far carry out the mapping of the file, entry by entry, and
\* all of it once the constructor has returned: no entry is lost, doubled, moved or
\* given another's senders, whatever is declared twice.  An entry whose senders are
\* all undeclared has its route too (see ReceiversHaveOutput), and one whose receiver
\* is undeclared may listen anywhere.
RoutesFollowFile ==
    /\ Len(routes) <= Len(tree.mapping)
    /\ \A i \in DOMAIN routes : CarriesOut(tree, routes[i], tree.mapping[i])
    /\ phase = "constructed" => Len(routes) = Len(tree.mapping)


=============================================================================
