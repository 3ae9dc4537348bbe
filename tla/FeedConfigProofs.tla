-------------------------- MODULE FeedConfigProofs --------------------------
(***************************************************************************)
(* For any ids, addresses and number of entries, the sockets opened carry  *)
(* out the mapping of the file.  The argument goes phase by phase: what is *)
(* read so far is what the entries so far declare, a mapped receiver's     *)
(* addresses are those of the senders passed so far, and the sockets are   *)
(* those of the entries dealt with.                                        *)
(***************************************************************************)
EXTENDS FeedConfig, SequenceTheorems, TLAPS

\* A bounded sequence is a sequence, and no longer than its bound.
LEMMA Bounded ==
    ASSUME NEW S, NEW n \in Nat, NEW s \in BoundedSeq(S, n)
    PROVE  /\ s \in Seq(S) /\ Len(s) \in 0 .. n /\ DOMAIN s = 1 .. Len(s)
           /\ \A i \in 1 .. Len(s) : s[i] \in S
  <1>1. PICK m \in 0 .. n : s \in [1 .. m -> S]
    BY DEF BoundedSeq
  <1>2. s \in Seq(S) /\ Len(s) = m
    BY <1>1, IsASeq
  <1>. QED
    BY <1>1, <1>2

\* What is appended is the last element, and the others keep their places.
LEMMA Appended ==
    ASSUME NEW S, NEW s \in Seq(S), NEW e \in S
    PROVE  /\ Append(s, e) \in Seq(S)
           /\ Len(Append(s, e)) = Len(s) + 1
           /\ \A i \in 1 .. Len(s) : Append(s, e)[i] = s[i]
           /\ Append(s, e)[Len(s) + 1] = e
           /\ Len(s) \in Nat
           /\ DOMAIN s = 1 .. Len(s) /\ DOMAIN Append(s, e) = 1 .. Len(s) + 1
  BY AppendProperties, LenProperties

\* The empty sequence.
LEMMA EmptyTyped ==
    ASSUME NEW S
    PROVE  <<>> \in Seq(S) /\ Len(<<>>) = 0 /\ DOMAIN <<>> = {}
  OBVIOUS

-----------------------------------------------------------------------------
(* The invariant.                                                            *)

\* Entry i of the list is the first with its id.
First(list, i) == \A j \in 1 .. i - 1 : list[j].id # list[i].id

\* The map holds what the first n entries of the list declare.
Reads(map, list, n) ==
    /\ n \in 0 .. Len(list)
    /\ \A i \in 1 .. n : list[i].id \in DOMAIN map
    /\ \A id \in DOMAIN map :
          \E i \in 1 .. n : list[i].id = id /\ First(list, i) /\ map[id] = list[i].address

ReceiversAreRead == Reads(receivers, tree.receivers, Len(tree.receivers))
SendersAreRead == Reads(senders, tree.senders, Len(tree.senders))
AllRead == ReceiversAreRead /\ SendersAreRead

NoSockets == senderList = <<>> /\ routes = <<>>
NoFeeds == mappedFeeds = <<>> /\ passed = 0 /\ outputs = <<>>

FeedsCarryOut ==
    /\ Len(mappedFeeds) <= Len(tree.mapping)
    /\ \A i \in 1 .. Len(mappedFeeds) : CarriesOut(tree, mappedFeeds[i], tree.mapping[i])

\* A ReceiverSocket is made of the entry: what is unwritten there is any address.
MadeOf(route, feed) == route.outputs = feed.outputs /\ feed.input \in {route.input, Unset}

Reading ==
    \/ /\ phase = "receivers"
       /\ Reads(receivers, tree.receivers, position) /\ senders = <<>>
       /\ NoFeeds /\ NoSockets
    \/ /\ phase = "senders"
       /\ ReceiversAreRead /\ Reads(senders, tree.senders, position)
       /\ NoFeeds /\ NoSockets

Mapping ==
    /\ phase = "mapping"
    /\ AllRead /\ FeedsCarryOut
    /\ position = Len(mappedFeeds)
    /\ IF position < Len(tree.mapping)
       THEN /\ passed <= Len(MappedReceiver.senders)
            /\ Follow(tree.senders, outputs, MappedReceiver.senders, passed)
       ELSE passed = 0 /\ outputs = <<>>
    /\ NoSockets

Opening ==
    /\ phase = "sockets"
    /\ AllRead /\ FeedsCarryOut
    /\ Len(mappedFeeds) = Len(tree.mapping)
    /\ position = Len(routes) /\ position <= Len(mappedFeeds)
    /\ \A i \in 1 .. position : MadeOf(routes[i], mappedFeeds[i])
    /\ IF position < Len(mappedFeeds)
       THEN /\ Len(senderList) <= Len(AtHand.outputs)
            /\ \A k \in 1 .. Len(senderList) : senderList[k] = AtHand.outputs[k]
       ELSE senderList = <<>>

FeedInv ==
    /\ TypeOK
    /\ RoutesFollowFile
    /\ Reading \/ Mapping \/ Opening \/ phase \in {"constructed", "aborted"}

-----------------------------------------------------------------------------
(* Lists and maps.                                                           *)

\* The sections of the file are finite sequences of entries.
LEMMA TreeTyped ==
    ASSUME TypeOK
    PROVE  /\ tree.receivers \in Seq(Entries) /\ Len(tree.receivers) \in 0 .. MaxDeclared
           /\ tree.senders \in Seq(Entries) /\ Len(tree.senders) \in 0 .. MaxDeclared
           /\ tree.mapping \in Seq(MappedReceivers) /\ Len(tree.mapping) \in 0 .. MaxMapped
           /\ DOMAIN tree.receivers = 1 .. Len(tree.receivers)
           /\ DOMAIN tree.senders = 1 .. Len(tree.senders)
           /\ \A i \in 1 .. Len(tree.receivers) : tree.receivers[i] \in Entries
           /\ \A i \in 1 .. Len(tree.senders) : tree.senders[i] \in Entries
           /\ \A i \in 1 .. Len(tree.mapping) : tree.mapping[i] \in MappedReceivers
  <1>1. /\ tree.receivers \in BoundedSeq(Entries, MaxDeclared)
        /\ tree.senders \in BoundedSeq(Entries, MaxDeclared)
        /\ tree.mapping \in BoundedSeq(MappedReceivers, MaxMapped)
    BY DEF TypeOK, Trees
  <1>. QED
    BY <1>1, Bounded, FeedBoundsAssumption

\* A MappedReceiver has an id and a finite sequence of sender ids.
LEMMA MappedTyped ==
    ASSUME NEW m \in MappedReceivers
    PROVE  /\ m.id \in Ids /\ m.senders \in Seq(Ids) /\ Len(m.senders) \in 0 .. MaxMapped
           /\ DOMAIN m.senders = 1 .. Len(m.senders)
           /\ \A i \in 1 .. Len(m.senders) : m.senders[i] \in Ids
  <1>1. m.id \in Ids /\ m.senders \in BoundedSeq(Ids, MaxMapped)
    BY DEF MappedReceivers
  <1>. QED
    BY <1>1, Bounded, FeedBoundsAssumption

\* An entry more is declared in the map.
LEMMA InsertTyped ==
    ASSUME NEW map \in AddressMaps, NEW e \in Entries
    PROVE  Insert(map, e) \in AddressMaps
  <1>1. PICK declared \in SUBSET Ids : map \in [declared -> Addresses]
    BY DEF AddressMaps
  <1>2. Insert(map, e) \in [declared \cup {e.id} -> Addresses]
    BY <1>1 DEF Insert, Entries
  <1>. QED
    BY <1>2 DEF AddressMaps, Entries

\* The map of an id holds an address for each id it knows.
LEMMA MapTyped ==
    ASSUME NEW map \in AddressMaps, NEW id \in DOMAIN map
    PROVE  map[id] \in Addresses
  BY DEF AddressMaps

\* The map holds the first declarations of what is read, an entry more included.
LEMMA ReadsMore ==
    ASSUME NEW list, Len(list) \in Nat, NEW map, NEW n \in Nat, n < Len(list), Reads(map, list, n)
    PROVE  Reads(Insert(map, list[n + 1]), list, n + 1)
  <1>. DEFINE e == list[n + 1]
              more == Insert(map, e)
  <1>1. DOMAIN more = DOMAIN map \cup {e.id}
    BY DEF Insert
  <1>2. \A i \in 1 .. n + 1 : list[i].id \in DOMAIN more
    BY <1>1 DEF Reads
  <1>3. ASSUME NEW id \in DOMAIN more
        PROVE  \E i \in 1 .. n + 1 : list[i].id = id /\ First(list, i) /\ more[id] = list[i].address
    <2>1. CASE id \in DOMAIN map
      <3>1. more[id] = map[id]
        BY <2>1 DEF Insert
      <3>2. PICK i \in 1 .. n : list[i].id = id /\ First(list, i) /\ map[id] = list[i].address
        BY <2>1 DEF Reads
      <3>3. i \in 1 .. n + 1
        OBVIOUS
      <3>. QED
        BY <3>1, <3>2, <3>3
    <2>2. CASE id \notin DOMAIN map
      <3>1. id = e.id /\ more[id] = e.address
        BY <1>1, <2>2 DEF Insert
      <3>2. First(list, n + 1)
        BY <2>2, <3>1 DEF Reads, First
      <3>. QED
        BY <3>1, <3>2
    <2>. QED
      BY <2>1, <2>2
  <1>4. n + 1 \in 0 .. Len(list)
    OBVIOUS
  <1>. QED
    BY <1>2, <1>3, <1>4 DEF Reads

\* An id has one first declaration.
LEMMA FirstIs ==
    ASSUME NEW list, Len(list) \in Nat, DOMAIN list = 1 .. Len(list),
           NEW i \in 1 .. Len(list), First(list, i)
    PROVE  Declared(list, list[i].id) /\ FirstAddress(list, list[i].id) = list[i].address
  <1>. DEFINE P(j) == j \in DOMAIN list /\ list[j].id = list[i].id
                       /\ \A h \in 1 .. j - 1 : list[h].id # list[i].id
  <1>1. P(i)
    BY DEF First
  <1>2. ASSUME NEW j, P(j)
        PROVE  j = i
    <2>1. j \in 1 .. Len(list)
      BY <1>2
    <2>2. ~(j < i)
      BY <1>2, <2>1 DEF First
    <2>3. ~(i < j)
      BY <1>2, <2>1
    <2>. QED
      BY <2>1, <2>2, <2>3
  <1>3. (CHOOSE j \in DOMAIN list :
            list[j].id = list[i].id /\ \A h \in 1 .. j - 1 : list[h].id # list[i].id) = i
    BY <1>1, <1>2
  <1>. QED
    BY <1>3 DEF Declared, FirstAddress

\* What is found in the map, once the list is read.
LEMMA Found ==
    ASSUME NEW list, Len(list) \in Nat, DOMAIN list = 1 .. Len(list), NEW map,
           Reads(map, list, Len(list)), NEW id
    PROVE  /\ id \in DOMAIN map <=> Declared(list, id)
           /\ id \in DOMAIN map => map[id] = FirstAddress(list, id)
  <1>1. ASSUME id \in DOMAIN map
        PROVE  Declared(list, id) /\ map[id] = FirstAddress(list, id)
    <2>1. PICK i \in 1 .. Len(list) : list[i].id = id /\ First(list, i) /\ map[id] = list[i].address
      BY <1>1 DEF Reads
    <2>. QED
      BY <2>1, FirstIs
  <1>2. Declared(list, id) => id \in DOMAIN map
    BY DEF Declared, Reads
  <1>. QED
    BY <1>1, <1>2

-----------------------------------------------------------------------------
(* The senders of an entry.                                                  *)

\* No address follows none of the ids.
LEMMA FollowNone ==
    ASSUME NEW list, NEW ids
    PROVE  Follow(list, <<>>, ids, 0)
  <1>. DEFINE place == [k \in DOMAIN <<>> |-> 0]
  <1>1. DOMAIN <<>> = {}
    OBVIOUS
  <1>2. place \in [DOMAIN <<>> -> 1 .. 0]
    BY <1>1
  <1>. SUFFICES \E q \in [DOMAIN <<>> -> 1 .. 0] :
                   /\ \A k \in DOMAIN <<>> : \A m \in 1 .. k - 1 : q[m] < q[k]
                   /\ \A i \in 1 .. 0 :
                         Declared(list, ids[i]) <=> \E k \in DOMAIN <<>> : q[k] = i
                   /\ \A k \in DOMAIN <<>> : <<>>[k] = FirstAddress(list, ids[q[k]])
    BY DEF Follow
  <1>. WITNESS place \in [DOMAIN <<>> -> 1 .. 0]
  <1>. QED
    BY <1>1

\* An id that is not declared is passed over.
LEMMA FollowOver ==
    ASSUME NEW list, NEW to, NEW ids, NEW n \in Nat,
           Follow(list, to, ids, n), ~Declared(list, ids[n + 1])
    PROVE  Follow(list, to, ids, n + 1)
  <1>1. PICK place \in [DOMAIN to -> 1 .. n] :
        /\ \A k \in DOMAIN to : \A m \in 1 .. k - 1 : place[m] < place[k]
        /\ \A i \in 1 .. n : Declared(list, ids[i]) <=> \E k \in DOMAIN to : place[k] = i
        /\ \A k \in DOMAIN to : to[k] = FirstAddress(list, ids[place[k]])
    BY DEF Follow
  <1>2. place \in [DOMAIN to -> 1 .. n + 1]
    BY <1>1
  <1>3. \A i \in 1 .. n + 1 :
           Declared(list, ids[i]) <=> \E k \in DOMAIN to : place[k] = i
    <2>1. ~\E k \in DOMAIN to : place[k] = n + 1
      BY <1>1
    <2>2. \A i \in 1 .. n + 1 : i \in 1 .. n \/ i = n + 1
      OBVIOUS
    <2>. QED
      BY <1>1, <2>1, <2>2
  <1>. QED
    BY <1>1, <1>2, <1>3 DEF Follow

\* One that is declared adds its address.
LEMMA FollowOn ==
    ASSUME NEW list, NEW to \in Seq(Addresses), NEW ids, NEW n \in Nat, Follow(list, to, ids, n),
           Declared(list, ids[n + 1]), NEW a \in Addresses,
           a = FirstAddress(list, ids[n + 1])
    PROVE  Follow(list, Append(to, a), ids, n + 1)
  <1>1. PICK place \in [DOMAIN to -> 1 .. n] :
        /\ \A k \in DOMAIN to : \A m \in 1 .. k - 1 : place[m] < place[k]
        /\ \A i \in 1 .. n : Declared(list, ids[i]) <=> \E k \in DOMAIN to : place[k] = i
        /\ \A k \in DOMAIN to : to[k] = FirstAddress(list, ids[place[k]])
    BY DEF Follow
  <1>. DEFINE l == Len(to) + 1
              more == Append(to, a)
              further == [k \in 1 .. l |-> IF k = l THEN n + 1 ELSE place[k]]
  <1>2. /\ DOMAIN to = 1 .. Len(to) /\ DOMAIN more = 1 .. l /\ Len(to) \in Nat
        /\ more[l] = a /\ \A k \in 1 .. Len(to) : more[k] = to[k]
    BY Appended
  <1>3. further[l] = n + 1 /\ \A k \in 1 .. Len(to) : further[k] = place[k] /\ place[k] \in 1 .. n
    BY <1>1, <1>2
  <1>4. \A k \in 1 .. l : k = l \/ k \in 1 .. Len(to)
    BY <1>2
  <1>5. further \in [1 .. l -> 1 .. n + 1]
    BY <1>1, <1>2, <1>3, <1>4
  <1>. HIDE DEF further, more
  <1>6. \A k \in 1 .. l : \A m \in 1 .. k - 1 : further[m] < further[k]
    <2>. SUFFICES ASSUME NEW k \in 1 .. l, NEW m \in 1 .. k - 1
                  PROVE  further[m] < further[k]
      OBVIOUS
    <2>1. m \in 1 .. Len(to)
      BY <1>2
    <2>2. CASE k = l
      BY <1>3, <2>1, <2>2
    <2>3. CASE k \in 1 .. Len(to)
      BY <1>1, <1>2, <1>3, <2>1, <2>3
    <2>. QED
      BY <1>4, <2>2, <2>3
  <1>7. ASSUME NEW i \in 1 .. n + 1
        PROVE  Declared(list, ids[i]) <=> \E k \in 1 .. l : further[k] = i
    <2>1. CASE i = n + 1
      BY <1>2, <1>3, <2>1
    <2>2. CASE i \in 1 .. n
      <3>1. (\E k \in 1 .. l : further[k] = i) <=> (\E k \in 1 .. Len(to) : place[k] = i)
        <4>1. ASSUME NEW k \in 1 .. l, further[k] = i
              PROVE  k \in 1 .. Len(to) /\ place[k] = i
          BY <1>3, <1>4, <2>2, <4>1
        <4>2. ASSUME NEW k \in 1 .. Len(to), place[k] = i
              PROVE  k \in 1 .. l /\ further[k] = i
          BY <1>2, <1>3, <4>2
        <4>. QED
          BY <4>1, <4>2
      <3>. QED
        BY <1>1, <1>2, <2>2, <3>1
    <2>. QED
      BY <2>1, <2>2
  <1>8. \A k \in 1 .. l : more[k] = FirstAddress(list, ids[further[k]])
    BY <1>1, <1>2, <1>3, <1>4
  <1>. SUFFICES Follow(list, more, ids, n + 1)
    BY DEF more
  <1>9. further \in [DOMAIN more -> 1 .. n + 1]
    BY <1>2, <1>5
  <1>. SUFFICES \E q \in [DOMAIN more -> 1 .. n + 1] :
                   /\ \A k \in DOMAIN more : \A m \in 1 .. k - 1 : q[m] < q[k]
                   /\ \A i \in 1 .. n + 1 :
                         Declared(list, ids[i]) <=> \E k \in DOMAIN more : q[k] = i
                   /\ \A k \in DOMAIN more : more[k] = FirstAddress(list, ids[q[k]])
    BY DEF Follow
  <1>. WITNESS further \in [DOMAIN more -> 1 .. n + 1]
  <1>. QED
    BY <1>2, <1>6, <1>7, <1>8

-----------------------------------------------------------------------------
(* The steps.                                                                *)

\* Before the first socket there is nothing to be wrong.
LEMMA NoRoutes == NoSockets /\ TypeOK /\ phase # "constructed" => RoutesFollowFile
  <1>. SUFFICES ASSUME NoSockets, TypeOK, phase # "constructed"
                PROVE  RoutesFollowFile
    OBVIOUS
  <1>1. Len(routes) = 0 /\ DOMAIN routes = {}
    BY EmptyTyped DEF NoSockets
  <1>2. Len(tree.mapping) \in Nat
    BY TreeTyped
  <1>. QED
    BY <1>1, <1>2 DEF RoutesFollowFile

\* While no socket is open, the routes carry out what there is of the mapping.
LEMMA NoRoutesNext == (NoSockets /\ TypeOK /\ phase # "constructed" => RoutesFollowFile)'
  BY NoRoutes, PTL

\* Nothing is read, mapped or opened at first.
LEMMA InitHolds == Init => FeedInv
  <1>. SUFFICES ASSUME Init
                PROVE  FeedInv
    OBVIOUS
  <1>1. TypeOK
    <2>1. <<>> \in AddressMaps
      <3>1. <<>> \in [{} -> Addresses]
        BY EmptyTyped
      <3>. QED
        BY <3>1 DEF AddressMaps
    <2>2. 0 \in 0 .. MaxDeclared + MaxMapped /\ 0 \in 0 .. MaxMapped
      BY FeedBoundsAssumption
    <2>. QED
      BY <2>1, <2>2, EmptyTyped DEF Init, TypeOK
  <1>2. NoFeeds /\ NoSockets /\ phase = "receivers" /\ senders = <<>>
    BY DEF Init, NoFeeds, NoSockets
  <1>3. Reads(receivers, tree.receivers, 0)
    <2>1. Len(tree.receivers) \in Nat
      BY <1>1, TreeTyped
    <2>. QED
      BY <2>1 DEF Init, Reads
  <1>4. Reading
    BY <1>2, <1>3 DEF Init, Reading
  <1>5. RoutesFollowFile
    BY <1>1, <1>2, NoRoutes
  <1>. QED
    BY <1>1, <1>4, <1>5 DEF FeedInv

\* LoadReceivers reads one entry more, or hands over to LoadSenders.
LEMMA LoadReceiversStep ==
    ASSUME FeedInv, LoadReceivers
    PROVE  FeedInv'
  <1>1. /\ TypeOK /\ Reads(receivers, tree.receivers, position) /\ senders = <<>>
        /\ NoFeeds /\ NoSockets /\ position \in Nat
        /\ Len(tree.receivers) \in 0 .. MaxDeclared /\ Len(tree.senders) \in 0 .. MaxDeclared
    BY TreeTyped DEF FeedInv, LoadReceivers, Reading, Mapping, Opening, TypeOK
  <1>2. NoFeeds' /\ NoSockets' /\ tree' = tree /\ senders' = <<>>
    BY <1>1 DEF LoadReceivers, NoFeeds, NoSockets, feedVars, socketVars
  <1>3. CASE NextOf(tree.receivers) /\ receivers' = Insert(receivers, tree.receivers[position + 1])
    <2>1. position + 1 \in 1 .. Len(tree.receivers) /\ position' = position + 1 /\ phase' = "receivers"
      BY <1>1, <1>3 DEF NextOf, LoadReceivers
    <2>2. receivers' \in AddressMaps
      <3>1. receivers \in AddressMaps /\ tree.receivers[position + 1] \in Entries
        BY <1>1, <2>1, TreeTyped DEF TypeOK
      <3>. QED
        BY <1>3, <3>1, InsertTyped
    <2>3. position' \in 0 .. MaxDeclared + MaxMapped
      BY <1>1, <2>1, FeedBoundsAssumption
    <2>4. TypeOK'
      BY <1>1, <1>2, <2>1, <2>2, <2>3 DEF TypeOK, LoadReceivers, feedVars, socketVars
    <2>5. Reads(receivers', tree.receivers, position + 1)
      BY <1>1, <1>3, <2>1, ReadsMore
    <2>6. Reading'
      BY <1>2, <2>1, <2>5 DEF Reading
    <2>7. RoutesFollowFile'
      BY <1>2, <2>1, <2>4, NoRoutesNext
    <2>. QED
      BY <2>4, <2>6, <2>7 DEF FeedInv
  <1>4. CASE Leave(tree.receivers, "senders") /\ UNCHANGED receivers
    <2>1. /\ position = Len(tree.receivers) /\ position' = 0 /\ phase' = "senders"
          /\ receivers' = receivers
      BY <1>4 DEF Leave
    <2>2. TypeOK'
      BY <1>1, <1>2, <2>1, FeedBoundsAssumption DEF TypeOK, LoadReceivers, feedVars, socketVars
    <2>3. ReceiversAreRead' /\ Reads(senders', tree'.senders, 0)
      <3>1. DOMAIN senders' = {} /\ 0 \in 0 .. Len(tree.senders)
        BY <1>1, <1>2
      <3>2. Reads(senders', tree.senders, 0)
        BY <3>1 DEF Reads
      <3>. QED
        BY <1>1, <1>2, <2>1, <3>2 DEF ReceiversAreRead
    <2>4. Reading'
      BY <1>2, <2>1, <2>3 DEF Reading
    <2>5. RoutesFollowFile'
      BY <1>2, <2>1, <2>2, NoRoutesNext
    <2>. QED
      BY <2>2, <2>4, <2>5 DEF FeedInv
  <1>. QED
    BY <1>3, <1>4 DEF LoadReceivers

\* LoadSenders reads one entry more, or hands over to LoadMappedFeeds.
LEMMA LoadSendersStep ==
    ASSUME FeedInv, LoadSenders
    PROVE  FeedInv'
  <1>1. /\ TypeOK /\ ReceiversAreRead /\ Reads(senders, tree.senders, position)
        /\ NoFeeds /\ NoSockets /\ position \in Nat
        /\ Len(tree.senders) \in 0 .. MaxDeclared /\ Len(tree.mapping) \in 0 .. MaxMapped
    BY TreeTyped DEF FeedInv, LoadSenders, Reading, Mapping, Opening, TypeOK
  <1>2. NoFeeds' /\ NoSockets' /\ tree' = tree /\ receivers' = receivers /\ ReceiversAreRead'
    BY <1>1 DEF LoadSenders, NoFeeds, NoSockets, feedVars, socketVars, ReceiversAreRead
  <1>3. CASE NextOf(tree.senders) /\ senders' = Insert(senders, tree.senders[position + 1])
    <2>1. position + 1 \in 1 .. Len(tree.senders) /\ position' = position + 1 /\ phase' = "senders"
      BY <1>1, <1>3 DEF NextOf, LoadSenders
    <2>2. senders' \in AddressMaps
      <3>1. senders \in AddressMaps /\ tree.senders[position + 1] \in Entries
        BY <1>1, <2>1, TreeTyped DEF TypeOK
      <3>. QED
        BY <1>3, <3>1, InsertTyped
    <2>3. position' \in 0 .. MaxDeclared + MaxMapped
      BY <1>1, <2>1, FeedBoundsAssumption
    <2>4. TypeOK'
      BY <1>1, <1>2, <2>1, <2>2, <2>3 DEF TypeOK, LoadSenders, feedVars, socketVars
    <2>5. Reads(senders', tree.senders, position + 1)
      BY <1>1, <1>3, <2>1, ReadsMore
    <2>6. Reading'
      BY <1>2, <2>1, <2>5 DEF Reading
    <2>7. RoutesFollowFile'
      BY <1>2, <2>1, <2>4, NoRoutesNext
    <2>. QED
      BY <2>4, <2>6, <2>7 DEF FeedInv
  <1>4. CASE Leave(tree.senders, "mapping") /\ UNCHANGED senders
    <2>1. /\ position = Len(tree.senders) /\ position' = 0 /\ phase' = "mapping"
          /\ senders' = senders
      BY <1>4 DEF Leave
    <2>2. TypeOK'
      BY <1>1, <1>2, <2>1, FeedBoundsAssumption DEF TypeOK, LoadSenders, feedVars, socketVars
    <2>3. AllRead'
      BY <1>1, <1>2, <2>1 DEF AllRead, SendersAreRead
    <2>4. mappedFeeds' = <<>> /\ passed' = 0 /\ outputs' = <<>>
      BY <1>2 DEF NoFeeds
    <2>5. FeedsCarryOut' /\ position' = Len(mappedFeeds')
      <3>1. Len(mappedFeeds') = 0
        BY <2>4, EmptyTyped
      <3>. QED
        BY <1>1, <1>2, <2>1, <3>1 DEF FeedsCarryOut
    <2>6. position' < Len(tree'.mapping) =>
            passed' <= Len(MappedReceiver'.senders)
              /\ Follow(tree'.senders, outputs', MappedReceiver'.senders, passed')
      <3>. SUFFICES ASSUME 1 <= Len(tree.mapping)
                    PROVE  0 <= Len(tree.mapping[1].senders)
                             /\ Follow(tree.senders, <<>>, tree.mapping[1].senders, 0)
        BY <1>1, <1>2, <2>1, <2>4 DEF MappedReceiver
      <3>1. tree.mapping[1] \in MappedReceivers
        BY <1>1, TreeTyped
      <3>. QED
        BY <3>1, MappedTyped, FollowNone
    <2>7. Mapping'
      BY <1>2, <2>1, <2>3, <2>4, <2>5, <2>6 DEF Mapping
    <2>8. RoutesFollowFile'
      BY <1>2, <2>1, <2>2, NoRoutesNext
    <2>. QED
      BY <2>2, <2>7, <2>8 DEF FeedInv
  <1>. QED
    BY <1>3, <1>4 DEF LoadSenders

\* While the mapping is read.
LEMMA AtMapping ==
    ASSUME FeedInv, phase = "mapping"
    PROVE  /\ TypeOK /\ AllRead /\ FeedsCarryOut /\ NoSockets
           /\ position = Len(mappedFeeds) /\ position \in Nat /\ position <= Len(tree.mapping)
           /\ mappedFeeds \in Seq(Feeds) /\ Len(tree.mapping) \in 0 .. MaxMapped
           /\ position < Len(tree.mapping) =>
                 /\ MappedReceiver \in MappedReceivers
                 /\ passed \in 0 .. Len(MappedReceiver.senders)
                 /\ Follow(tree.senders, outputs, MappedReceiver.senders, passed)
           /\ ~(position < Len(tree.mapping)) => passed = 0 /\ outputs = <<>>
  <1>1. TypeOK /\ Mapping
    BY DEF FeedInv, Reading, Opening
  <1>2. position \in Nat /\ Len(tree.mapping) \in 0 .. MaxMapped /\ passed \in Nat
    BY <1>1, TreeTyped DEF TypeOK
  <1>3. position < Len(tree.mapping) => MappedReceiver \in MappedReceivers
    <2>1. position < Len(tree.mapping) => position + 1 \in 1 .. Len(tree.mapping)
      BY <1>2
    <2>. QED
      BY <1>1, <2>1, TreeTyped DEF MappedReceiver
  <1>4. position < Len(tree.mapping) => passed \in 0 .. Len(MappedReceiver.senders)
    BY <1>1, <1>2, <1>3, MappedTyped DEF Mapping
  <1>. QED
    BY <1>1, <1>2, <1>3, <1>4 DEF Mapping, FeedsCarryOut, TypeOK

\* The inner loop of LoadMappedFeeds carries the address of one sender more.
LEMMA LoadMappedSenderStep ==
    ASSUME FeedInv, LoadMappedSender
    PROVE  FeedInv'
  <1>. DEFINE ids == MappedReceiver.senders
              id == ids[passed + 1]
  <1>1. /\ phase = "mapping" /\ position < Len(tree.mapping) /\ passed < Len(ids)
        /\ passed' = passed + 1
        /\ outputs' = (IF id \in DOMAIN senders THEN Append(outputs, senders[id]) ELSE outputs)
        /\ UNCHANGED <<tree, phase, position, receivers, senders, mappedFeeds, senderList, routes>>
    BY DEF LoadMappedSender, socketVars
  <1>2. /\ TypeOK /\ AllRead /\ FeedsCarryOut /\ NoSockets
        /\ MappedReceiver \in MappedReceivers /\ passed \in 0 .. Len(ids)
        /\ Follow(tree.senders, outputs, ids, passed)
        /\ position = Len(mappedFeeds)
    BY <1>1, AtMapping
  <1>3. /\ Len(ids) \in 0 .. MaxMapped /\ passed \in Nat /\ passed + 1 \in 1 .. Len(ids)
        /\ passed' \in 0 .. MaxMapped
    BY <1>1, <1>2, MappedTyped, FeedBoundsAssumption
  <1>4. outputs \in Seq(Addresses) /\ senders \in AddressMaps
    BY <1>2 DEF TypeOK
  <1>5. /\ id \in DOMAIN senders <=> Declared(tree.senders, id)
        /\ id \in DOMAIN senders => senders[id] = FirstAddress(tree.senders, id)
    <2>1. /\ Len(tree.senders) \in Nat /\ DOMAIN tree.senders = 1 .. Len(tree.senders)
          /\ Reads(senders, tree.senders, Len(tree.senders))
      BY <1>2, TreeTyped DEF AllRead, SendersAreRead
    <2>. QED
      BY <2>1, Found
  <1>6. outputs' \in Seq(Addresses) /\ Follow(tree.senders, outputs', ids, passed + 1)
    <2>1. CASE id \in DOMAIN senders
      <3>1. senders[id] \in Addresses
        BY <1>4, <2>1, MapTyped
      <3>. QED
        BY <1>1, <1>2, <1>3, <1>4, <1>5, <2>1, <3>1, Appended, FollowOn
    <2>2. CASE id \notin DOMAIN senders
      BY <1>1, <1>2, <1>3, <1>4, <1>5, <2>2, FollowOver
    <2>. QED
      BY <2>1, <2>2
  <1>7. TypeOK'
    BY <1>1, <1>2, <1>3, <1>6 DEF TypeOK
  <1>8. Mapping'
    <2>1. NoSockets' /\ AllRead' /\ FeedsCarryOut'
      BY <1>1, <1>2 DEF NoSockets, AllRead, ReceiversAreRead, SendersAreRead, FeedsCarryOut
    <2>2. MappedReceiver' = MappedReceiver
      BY <1>1 DEF MappedReceiver
    <2>3. passed' <= Len(ids)
      BY <1>1, <1>3
    <2>. QED
      BY <1>1, <1>2, <1>6, <2>1, <2>2, <2>3 DEF Mapping
  <1>9. RoutesFollowFile'
    BY <1>1, <1>2, <1>7, NoRoutesNext DEF NoSockets
  <1>. QED
    BY <1>7, <1>8, <1>9 DEF FeedInv

\* The entry after the one at hand starts with no address.
LEMMA LoadMappedReceiverStep ==
    ASSUME FeedInv, LoadMappedReceiver
    PROVE  FeedInv'
  <1>. DEFINE m == MappedReceiver
              feed == [input |-> Input(m.id), outputs |-> outputs]
  <1>1. /\ phase = "mapping" /\ position < Len(tree.mapping) /\ position' = position + 1
        /\ passed = Len(m.senders) /\ mappedFeeds' = Append(mappedFeeds, feed)
        /\ passed' = 0 /\ outputs' = <<>>
        /\ UNCHANGED <<tree, phase, receivers, senders, senderList, routes>>
    BY DEF LoadMappedReceiver, NextOf, socketVars
  <1>2. /\ TypeOK /\ AllRead /\ FeedsCarryOut /\ NoSockets /\ m \in MappedReceivers
        /\ Follow(tree.senders, outputs, m.senders, Len(m.senders))
        /\ position = Len(mappedFeeds) /\ position \in Nat /\ mappedFeeds \in Seq(Feeds)
        /\ Len(tree.mapping) \in 0 .. MaxMapped
    BY <1>1, AtMapping
  <1>3. /\ Declared(tree.receivers, m.id) => Input(m.id) = FirstAddress(tree.receivers, m.id)
        /\ Input(m.id) \in InputAddresses
    <2>1. /\ Len(tree.receivers) \in Nat /\ DOMAIN tree.receivers = 1 .. Len(tree.receivers)
          /\ Reads(receivers, tree.receivers, Len(tree.receivers)) /\ receivers \in AddressMaps
      BY <1>2, TreeTyped DEF AllRead, ReceiversAreRead, TypeOK
    <2>2. /\ m.id \in DOMAIN receivers <=> Declared(tree.receivers, m.id)
          /\ m.id \in DOMAIN receivers => receivers[m.id] = FirstAddress(tree.receivers, m.id)
      BY <2>1, Found
    <2>3. m.id \in DOMAIN receivers => receivers[m.id] \in Addresses
      BY <2>1, MapTyped
    <2>. QED
      BY <2>2, <2>3 DEF Input, InputAddresses
  <1>4. feed \in Feeds
    BY <1>2, <1>3 DEF Feeds, TypeOK
  <1>5. /\ mappedFeeds' \in Seq(Feeds) /\ Len(mappedFeeds') = position + 1
        /\ mappedFeeds'[position + 1] = feed
        /\ \A i \in 1 .. position : mappedFeeds'[i] = mappedFeeds[i]
    BY <1>1, <1>2, <1>4, Appended
  <1>6. CarriesOut(tree, feed, m)
    BY <1>2, <1>3 DEF CarriesOut
  <1>7. FeedsCarryOut'
    <2>1. ASSUME NEW i \in 1 .. position + 1
          PROVE  CarriesOut(tree, mappedFeeds'[i], tree.mapping[i])
      <3>1. CASE i = position + 1
        BY <1>5, <1>6, <3>1 DEF MappedReceiver
      <3>2. CASE i \in 1 .. position
        BY <1>2, <1>5, <3>2 DEF FeedsCarryOut
      <3>. QED
        BY <1>2, <3>1, <3>2
    <2>2. position + 1 <= Len(tree.mapping)
      BY <1>1, <1>2
    <2>. QED
      BY <1>1, <1>5, <2>1, <2>2 DEF FeedsCarryOut
  <1>8. TypeOK'
    <2>1. position' \in 0 .. MaxDeclared + MaxMapped /\ passed' \in 0 .. MaxMapped
      BY <1>1, <1>2, FeedBoundsAssumption
    <2>2. outputs' \in Seq(Addresses)
      BY <1>1, EmptyTyped
    <2>. QED
      BY <1>1, <1>2, <1>5, <2>1, <2>2 DEF TypeOK
  <1>9. Mapping'
    <2>1. NoSockets' /\ AllRead'
      BY <1>1, <1>2 DEF NoSockets, AllRead, ReceiversAreRead, SendersAreRead
    <2>2. position' < Len(tree'.mapping) =>
            passed' <= Len(MappedReceiver'.senders)
              /\ Follow(tree'.senders, outputs', MappedReceiver'.senders, passed')
      <3>. SUFFICES ASSUME position + 1 < Len(tree.mapping)
                    PROVE  0 <= Len(tree.mapping[position + 2].senders)
                             /\ Follow(tree.senders, <<>>, tree.mapping[position + 2].senders, 0)
        BY <1>1, <1>2 DEF MappedReceiver
      <3>1. position + 2 \in 1 .. Len(tree.mapping)
        BY <1>2
      <3>2. tree.mapping[position + 2] \in MappedReceivers
        BY <1>2, <3>1, TreeTyped
      <3>. QED
        BY <3>2, MappedTyped, FollowNone
    <2>. QED
      BY <1>1, <1>5, <1>7, <2>1, <2>2 DEF Mapping
  <1>10. RoutesFollowFile'
    BY <1>1, <1>2, <1>8, NoRoutesNext DEF NoSockets
  <1>. QED
    BY <1>8, <1>9, <1>10 DEF FeedInv

\* After the mapping the sockets are opened, from the first feed on.
LEMMA LeaveMappingStep ==
    ASSUME FeedInv, phase = "mapping", Leave(tree.mapping, "sockets"),
           UNCHANGED <<tree, receivers, senders, feedVars, socketVars>>
    PROVE  FeedInv'
  <1>1. /\ TypeOK /\ AllRead /\ FeedsCarryOut /\ NoSockets
        /\ Len(mappedFeeds) = Len(tree.mapping) /\ Len(mappedFeeds) \in Nat
        /\ phase' = "sockets" /\ position' = 0
    BY AtMapping DEF Leave
  <1>2. UNCHANGED <<tree, receivers, senders, mappedFeeds, passed, outputs, senderList, routes>>
    BY DEF feedVars, socketVars
  <1>3. TypeOK'
    BY <1>1, <1>2, FeedBoundsAssumption DEF TypeOK
  <1>4. NoSockets' /\ AllRead' /\ FeedsCarryOut'
    BY <1>1, <1>2 DEF NoSockets, AllRead, ReceiversAreRead, SendersAreRead, FeedsCarryOut
  <1>5. Len(routes') = 0 /\ senderList' = <<>> /\ Len(senderList') = 0
    BY <1>4, EmptyTyped DEF NoSockets
  <1>6. position' < Len(mappedFeeds') => Len(senderList') <= Len(AtHand'.outputs)
    <2>. SUFFICES ASSUME 0 < Len(mappedFeeds)
                  PROVE  0 <= Len(mappedFeeds[1].outputs)
      BY <1>1, <1>2, <1>5 DEF AtHand
    <2>1. 1 \in 1 .. Len(mappedFeeds) /\ mappedFeeds \in Seq(Feeds)
      BY <1>1 DEF TypeOK
    <2>2. mappedFeeds[1] \in Feeds
      BY <2>1, ElementOfSeq
    <2>. QED
      BY <2>2, LenProperties DEF Feeds
  <1>7. Opening'
    BY <1>1, <1>2, <1>4, <1>5, <1>6 DEF Opening
  <1>8. RoutesFollowFile'
    BY <1>1, <1>3, <1>4, NoRoutesNext
  <1>. QED
    BY <1>3, <1>7, <1>8 DEF FeedInv

-----------------------------------------------------------------------------
(* The sockets.                                                              *)

\* While they are opened.
LEMMA AtSockets ==
    ASSUME FeedInv, phase = "sockets"
    PROVE  /\ TypeOK /\ AllRead /\ FeedsCarryOut /\ RoutesFollowFile
           /\ Len(mappedFeeds) = Len(tree.mapping) /\ Len(tree.mapping) \in 0 .. MaxMapped
           /\ position = Len(routes) /\ position \in 0 .. Len(mappedFeeds)
           /\ \A i \in 1 .. position : MadeOf(routes[i], mappedFeeds[i])
           /\ Len(senderList) \in Nat
           /\ position < Len(mappedFeeds) =>
                 /\ AtHand \in Feeds /\ AtHand.outputs \in Seq(Addresses)
                 /\ Len(senderList) <= Len(AtHand.outputs)
                 /\ \A k \in 1 .. Len(senderList) : senderList[k] = AtHand.outputs[k]
           /\ ~(position < Len(mappedFeeds)) => senderList = <<>>
  <1>1. TypeOK /\ Opening /\ RoutesFollowFile
    BY DEF FeedInv, Reading, Mapping
  <1>2. /\ Len(tree.mapping) \in 0 .. MaxMapped /\ Len(senderList) \in Nat /\ position \in Nat
        /\ mappedFeeds \in Seq(Feeds) /\ Len(mappedFeeds) \in Nat
    BY <1>1, TreeTyped, LenProperties DEF TypeOK
  <1>3. position < Len(mappedFeeds) => AtHand \in Feeds
    <2>1. position < Len(mappedFeeds) => position + 1 \in 1 .. Len(mappedFeeds)
      BY <1>2
    <2>. QED
      BY <1>2, <2>1, ElementOfSeq DEF AtHand
  <1>. QED
    BY <1>1, <1>2, <1>3 DEF Opening, Feeds

\* Opening a sender gets the receiver at hand one address nearer to its feed.
LEMMA OpenSenderStep ==
    ASSUME FeedInv, OpenSender
    PROVE  FeedInv'
  <1>. DEFINE n == Len(senderList)
  <1>1. /\ phase = "sockets" /\ position < Len(mappedFeeds) /\ n < Len(AtHand.outputs)
        /\ senderList' = Append(senderList, AtHand.outputs[n + 1])
        /\ UNCHANGED <<tree, phase, position, receivers, senders, mappedFeeds, passed, outputs,
                       routes>>
    BY DEF OpenSender, SenderIsNext, feedVars
  <1>2. /\ TypeOK /\ AllRead /\ FeedsCarryOut /\ RoutesFollowFile
        /\ Len(mappedFeeds) = Len(tree.mapping)
        /\ position = Len(routes) /\ position \in 0 .. Len(mappedFeeds) /\ n \in Nat
        /\ \A i \in 1 .. position : MadeOf(routes[i], mappedFeeds[i])
        /\ AtHand.outputs \in Seq(Addresses)
        /\ \A k \in 1 .. n : senderList[k] = AtHand.outputs[k]
    BY <1>1, AtSockets
  <1>3. AtHand.outputs[n + 1] \in Addresses /\ n + 1 <= Len(AtHand.outputs)
    <2>1. n + 1 \in 1 .. Len(AtHand.outputs)
      BY <1>1, <1>2, LenProperties
    <2>. QED
      BY <1>2, <2>1, ElementOfSeq
  <1>4. /\ senderList' \in Seq(Addresses) /\ Len(senderList') = n + 1
        /\ \A k \in 1 .. n + 1 : senderList'[k] = AtHand.outputs[k]
    <2>1. /\ senderList \in Seq(Addresses)
      BY <1>2 DEF TypeOK
    <2>2. /\ senderList' \in Seq(Addresses) /\ Len(senderList') = n + 1
          /\ senderList'[n + 1] = AtHand.outputs[n + 1]
          /\ \A k \in 1 .. n : senderList'[k] = senderList[k]
      BY <1>1, <1>3, <2>1, Appended
    <2>3. \A k \in 1 .. n + 1 : k \in 1 .. n \/ k = n + 1
      BY <1>2
    <2>. QED
      BY <1>2, <2>2, <2>3
  <1>5. TypeOK'
    BY <1>1, <1>2, <1>4 DEF TypeOK
  <1>6. AllRead' /\ FeedsCarryOut' /\ RoutesFollowFile'
    BY <1>1, <1>2 DEF AllRead, ReceiversAreRead, SendersAreRead, FeedsCarryOut, RoutesFollowFile
  <1>7. Opening'
    <2>1. AtHand' = AtHand
      BY <1>1 DEF AtHand
    <2>2. \A i \in 1 .. position' : MadeOf(routes[i], mappedFeeds[i])'
      BY <1>1, <1>2 DEF MadeOf
    <2>. QED
      BY <1>1, <1>2, <1>3, <1>4, <1>6, <2>1, <2>2 DEF Opening
  <1>. QED
    BY <1>5, <1>6, <1>7 DEF FeedInv

\* Opening a receiver makes a route of a feed that carries out its entry.
LEMMA OpenReceiverStep ==
    ASSUME FeedInv, NEW address \in Addresses, OpenReceiver(address)
    PROVE  FeedInv'
  <1>. DEFINE p == position + 1
              route == [input |-> address, outputs |-> senderList]
  <1>1. /\ phase = "sockets" /\ position < Len(mappedFeeds) /\ Len(senderList) = Len(AtHand.outputs)
        /\ AtHand.input \in {address, Unset} /\ position' = p
        /\ routes' = Append(routes, route) /\ senderList' = <<>>
        /\ UNCHANGED <<tree, phase, receivers, senders, mappedFeeds, passed, outputs>>
    BY DEF OpenReceiver, ReceiverIsNext, NextOf, feedVars
  <1>2. /\ TypeOK /\ AllRead /\ FeedsCarryOut /\ RoutesFollowFile
        /\ Len(mappedFeeds) = Len(tree.mapping) /\ Len(tree.mapping) \in 0 .. MaxMapped
        /\ position = Len(routes) /\ position \in 0 .. Len(mappedFeeds)
        /\ \A i \in 1 .. position : MadeOf(routes[i], mappedFeeds[i])
        /\ AtHand \in Feeds /\ AtHand.outputs \in Seq(Addresses)
        /\ \A k \in 1 .. Len(senderList) : senderList[k] = AtHand.outputs[k]
    BY <1>1, AtSockets
  <1>3. p \in 1 .. Len(tree.mapping) /\ p \in 1 .. Len(mappedFeeds) /\ position \in Nat
    BY <1>1, <1>2
  <1>4. senderList = AtHand.outputs
    <2>1. senderList \in Seq(Addresses)
      BY <1>2 DEF TypeOK
    <2>. QED
      BY <1>1, <1>2, <2>1, SeqEqual
  <1>5. route \in [input : Addresses, outputs : Seq(Addresses)]
    BY <1>2 DEF TypeOK
  <1>6. /\ routes' \in Seq([input : Addresses, outputs : Seq(Addresses)])
        /\ Len(routes') = p /\ routes'[p] = route
        /\ DOMAIN routes' = 1 .. p /\ DOMAIN routes = 1 .. position
        /\ \A i \in 1 .. position : routes'[i] = routes[i]
    BY <1>1, <1>2, <1>5, Appended DEF TypeOK
  <1>7. \A i \in 1 .. p : i = p \/ i \in 1 .. position
    BY <1>3
  <1>8. MadeOf(route, AtHand)
    BY <1>1, <1>4 DEF MadeOf
  <1>9. CarriesOut(tree, route, tree.mapping[p])
    <2>1. CarriesOut(tree, AtHand, tree.mapping[p])
      BY <1>2, <1>3 DEF FeedsCarryOut, AtHand
    <2>2. Declared(tree.receivers, tree.mapping[p].id) => AtHand.input # Unset
      <3>. SUFFICES ASSUME Declared(tree.receivers, tree.mapping[p].id)
                    PROVE  FirstAddress(tree.receivers, tree.mapping[p].id) \in Addresses
        BY <2>1, UnsetAssumption DEF CarriesOut
      <3>. DEFINE id == tree.mapping[p].id
      <3>1. /\ Reads(receivers, tree.receivers, Len(tree.receivers)) /\ Len(tree.receivers) \in Nat
            /\ DOMAIN tree.receivers = 1 .. Len(tree.receivers) /\ receivers \in AddressMaps
        BY <1>2, TreeTyped DEF AllRead, ReceiversAreRead, TypeOK
      <3>2. id \in DOMAIN receivers /\ receivers[id] = FirstAddress(tree.receivers, id)
        BY <3>1, Found
      <3>. QED
        BY <3>1, <3>2, MapTyped
    <2>. QED
      BY <1>1, <1>4, <2>1, <2>2 DEF CarriesOut
  <1>10. RoutesFollowFile'
    <2>1. \A i \in 1 .. p : CarriesOut(tree, routes'[i], tree.mapping[i])
      BY <1>2, <1>6, <1>7, <1>9 DEF RoutesFollowFile
    <2>. QED
      BY <1>1, <1>3, <1>6, <2>1 DEF RoutesFollowFile
  <1>11. TypeOK'
    <2>1. position' \in 0 .. MaxDeclared + MaxMapped
      BY <1>1, <1>2, <1>3, FeedBoundsAssumption
    <2>2. senderList' \in Seq(Addresses)
      BY <1>1, EmptyTyped
    <2>. QED
      BY <1>1, <1>2, <1>6, <2>1, <2>2 DEF TypeOK
  <1>12. Opening'
    <2>1. AllRead' /\ FeedsCarryOut'
      BY <1>1, <1>2 DEF AllRead, ReceiversAreRead, SendersAreRead, FeedsCarryOut
    <2>2. \A i \in 1 .. p : MadeOf(routes'[i], mappedFeeds[i])
      BY <1>2, <1>6, <1>7, <1>8 DEF AtHand
    <2>3. p < Len(mappedFeeds) => 0 <= Len(mappedFeeds[p + 1].outputs)
      <3>. SUFFICES ASSUME p < Len(mappedFeeds)
                    PROVE  0 <= Len(mappedFeeds[p + 1].outputs)
        OBVIOUS
      <3>1. p + 1 \in 1 .. Len(mappedFeeds) /\ mappedFeeds \in Seq(Feeds)
        BY <1>2, <1>3 DEF TypeOK
      <3>2. mappedFeeds[p + 1] \in Feeds
        BY <3>1, ElementOfSeq
      <3>. QED
        BY <3>2, LenProperties DEF Feeds
    <2>4. Len(senderList') = 0 /\ AtHand' = mappedFeeds[p + 1]
      BY <1>1, EmptyTyped DEF AtHand
    <2>5. p <= Len(mappedFeeds)
      BY <1>3
    <2>. QED
      BY <1>1, <1>2, <1>6, <2>1, <2>2, <2>3, <2>4, <2>5 DEF Opening, MadeOf
  <1>. QED
    BY <1>10, <1>11, <1>12 DEF FeedInv

\* The constructor returns with all routes made, or ends the process.
LEMMA LeaveStep ==
    ASSUME FeedInv, Construct \/ Throw
    PROVE  FeedInv'
  <1>1. /\ UNCHANGED <<tree, receivers, senders, mappedFeeds, passed, outputs, senderList, routes>>
        /\ position' \in {0, position} /\ phase' \in {"constructed", "aborted"}
    BY DEF Construct, Throw, Leave, feedVars, socketVars
  <1>2. TypeOK /\ RoutesFollowFile /\ TypeOK'
    BY <1>1, FeedBoundsAssumption DEF FeedInv, TypeOK
  <1>3. phase' = "constructed" => Len(routes) = Len(tree.mapping)
    <2>. SUFFICES ASSUME Construct
                  PROVE  Len(routes) = Len(tree.mapping)
      BY DEF Throw
    <2>. QED
      BY AtSockets DEF Construct, Leave
  <1>. QED
    BY <1>1, <1>2, <1>3 DEF FeedInv, RoutesFollowFile

\* The invariant is inductive.
LEMMA NextHolds == FeedInv /\ [Next]_vars => FeedInv'
  <1>. SUFFICES ASSUME FeedInv, [Next]_vars
                PROVE  FeedInv'
    OBVIOUS
  <1>1. CASE LoadMappedFeeds
    BY <1>1, LoadMappedSenderStep, LoadMappedReceiverStep, LeaveMappingStep DEF LoadMappedFeeds
  <1>2. CASE LoadFails \/ SenderFails \/ ReceiverFails
    BY <1>2, LeaveStep DEF LoadFails, SenderFails, ReceiverFails
  <1>3. CASE UNCHANGED vars
    <2>1. UNCHANGED <<tree, phase, position, receivers, senders, mappedFeeds, passed, outputs,
                      senderList, routes>>
      BY <1>3 DEF vars, feedVars, socketVars
    <2>. QED
      BY <2>1 DEF FeedInv, TypeOK, RoutesFollowFile, Reading, Mapping, Opening, NoFeeds, NoSockets,
                  AllRead, ReceiversAreRead, SendersAreRead, FeedsCarryOut, MadeOf, AtHand,
                  MappedReceiver
  <1>. QED
    BY <1>1, <1>2, <1>3, LoadReceiversStep, LoadSendersStep, OpenSenderStep, OpenReceiverStep,
       LeaveStep DEF Next

\* The constructor's state is well formed, for any file.
THEOREM TypeCorrect == Spec => []TypeOK
  <1>1. FeedInv => TypeOK
    BY DEF FeedInv
  <1>. QED
    BY <1>1, InitHolds, NextHolds, PTL DEF Spec

\* For any file, of any length, the sockets opened carry out its mapping, entry by entry:
\* no entry is lost, doubled, moved or given another's senders.
THEOREM MappingCarriedOut == Spec => []RoutesFollowFile
  <1>1. FeedInv => RoutesFollowFile
    BY DEF FeedInv
  <1>. QED
    BY <1>1, InitHolds, NextHolds, PTL DEF Spec

=============================================================================
