---------------------------- MODULE Shown_proofs ----------------------------
(***************************************************************************)
(* Proofs about what the owner is shown: that he learns of every change    *)
(* (LiveUpdates), and that what the model told him is true and stays       *)
(* (Generation).  The two share nothing; each has a part of its own.       *)
(*                                                                         *)
(* LiveUpdates, for every set of clients and topics and every capacity     *)
(* above one: SignalKept is inductive beside the types, as each step hands *)
(* the signal on.  PublisherFree needs to know what can get into a channel *)
(* between its emptying and the "all" that follows (Emptied).              *)
(*                                                                         *)
(* Generation, for any number of loops, questions and meetings: nothing    *)
(* excluded or outdated is told, the pools suffice, and an answer stays.   *)
(***************************************************************************)
EXTENDS LiveUpdates, Generation, SequenceTheorems, FiniteSetTheorems, TLAPS

-----------------------------------------------------------------------------
(* Live updates. *)

SockState == {"off", "accepted"} \cup Registered

\* The channel that publish emptied holds at most the socket's own first "all".
Emptied ==
    \A c \in Client : pub.full = c =>
        /\ c \in pub.left
        /\ Len(ch[c]) <= 1
        /\ sock[c] = "joined" => Len(ch[c]) = 0

IInv == TypeOK /\ SignalKept /\ Emptied

------------------------------------------------------------------------------
(* Sequences *)

LEMMA AppendRange ==
    ASSUME NEW S, NEW q \in Seq(S), NEW e \in S
    PROVE  /\ Append(q, e) \in Seq(S) /\ Len(Append(q, e)) = Len(q) + 1
           /\ e \in Range(Append(q, e)) /\ Range(q) \subseteq Range(Append(q, e))
<1>1. /\ Append(q, e) \in Seq(S) /\ Len(Append(q, e)) = Len(q) + 1 /\ Len(q) \in Nat
      /\ DOMAIN q = 1..Len(q) /\ DOMAIN Append(q, e) = 1..(Len(q) + 1)
      /\ \A i \in 1..Len(q) : Append(q, e)[i] = q[i]
      /\ Append(q, e)[Len(q) + 1] = e
  OBVIOUS
<1>2. Len(q) + 1 \in DOMAIN Append(q, e) /\ \A i \in DOMAIN q : i \in DOMAIN Append(q, e)
  BY <1>1
<1> QED
  BY <1>1, <1>2 DEF Range

LEMMA TailRange ==
    ASSUME NEW S, NEW q \in Seq(S), q # <<>>
    PROVE  /\ Head(q) \in S /\ Tail(q) \in Seq(S) /\ Len(Tail(q)) = Len(q) - 1
           /\ Range(q) \subseteq Range(Tail(q)) \cup {Head(q)}
<1>1. /\ Head(q) \in S /\ Head(q) = q[1] /\ Tail(q) \in Seq(S) /\ Len(Tail(q)) = Len(q) - 1
      /\ Len(q) \in Nat /\ DOMAIN q = 1..Len(q) /\ DOMAIN Tail(q) = 1..(Len(q) - 1)
      /\ \A i \in 1..(Len(q) - 1) : Tail(q)[i] = q[i + 1]
  OBVIOUS
<1>2. ASSUME NEW i \in DOMAIN q, i # 1
      PROVE  i - 1 \in DOMAIN Tail(q) /\ Tail(q)[i - 1] = q[i]
  BY <1>1, <1>2
<1>3. ASSUME NEW x \in Range(q), x # Head(q)
      PROVE  x \in Range(Tail(q))
  <2>1. PICK i \in DOMAIN q : x = q[i]
    BY <1>3 DEF Range
  <2>2. i # 1
    BY <1>1, <1>3, <2>1
  <2> QED
    BY <1>2, <2>1, <2>2 DEF Range
<1> QED
  BY <1>1, <1>3

------------------------------------------------------------------------------
(* Types *)

LEMMA SignalType == /\ "all" \in Signal /\ "status" \in Signal
                    /\ \A s \in Signal : Data(s) \subseteq Topic \cup {"status"}
BY LiveAssumption DEF Signal, Data

LEMMA PublishType ==
    ASSUME TypeOK, NEW s \in Signal, Publish(s)
    PROVE  pub' \in {NoPub} \cup Call
BY DEF Publish, Call, Subscriber

LEMMA DoneType ==
    ASSUME TypeOK, NEW c \in Client, pub.full = c \/ c \in pub.left
    PROVE  Done(c) \in {NoPub} \cup Call
<1>1. pub \in Call
  BY LiveAssumption DEF TypeOK, NoPub
<1>2. [pub EXCEPT !.left = pub.left \ {c}, !.full = NoClient] \in Call
  BY <1>1 DEF Call
<1> QED
  BY <1>2 DEF Done

LEMMA NoteType ==
    ASSUME TypeOK, NEW c \in Client, NEW e \in {"changed", "offline"}, Note(c, e)
    PROVE  box' \in [Client -> {"none", "changed", "offline"}]
BY DEF TypeOK, Note

LEMMA RereadType ==
    ASSUME TypeOK, NEW c \in Client, NEW S, Reread(c, S)
    PROVE  stale' \in [Client -> SUBSET (Topic \cup {"status"})]
BY DEF TypeOK, Reread

LEMMA TypeInit == Init => TypeOK
<1> SUFFICES ASSUME Init
             PROVE  TypeOK
  OBVIOUS
<1>1. <<>> \in Seq(Signal) /\ Len(<<>>) = 0
  OBVIOUS
<1>2. pub \in {NoPub} \cup Call
  BY DEF Init
<1>3. ch \in [Client -> Seq(Signal)] /\ \A c \in Client : Len(ch[c]) <= Cap
  BY <1>1, LiveAssumption DEF Init
<1>4. 0 \in 0..(AllEvery - 1) /\ 0 \in 0..MaxChange
  BY LiveAssumption
<1> QED
  BY <1>1, <1>2, <1>3, <1>4 DEF Init, TypeOK

LEMMA TypeListens == TypeOK /\ (Listens \/ Disconnect) => TypeOK'
<1> SUFFICES ASSUME TypeOK, Listens \/ Disconnect
             PROVE  TypeOK'
  OBVIOUS
<1> USE LiveAssumption, SignalType
<1>1. CASE Listen \/ SetReady \/ Unlisten \/ Disconnect
  <2>1. CASE Listen
    <3>1. 0 \in 0..(AllEvery - 1)
      BY LiveAssumption
    <3> QED
      BY <2>1, <3>1 DEF Listen, TypeOK, socket, view
  <2>2. CASE SetReady
    BY <2>2 DEF SetReady, TypeOK, socket, view
  <2>3. CASE Unlisten
    BY <2>3 DEF Unlisten, TypeOK, socket, view
  <2>4. CASE Disconnect
    <3>1. pg' \in Seq(Signal)
      BY <2>4 DEF Disconnect
    <3> QED
      BY <2>4, <3>1 DEF Disconnect, TypeOK, socket, view
  <2> QED
    BY <1>1, <2>1, <2>2, <2>3, <2>4
<1>2. CASE PublishAll
  <2>1. Publish("all")
    BY <1>2 DEF PublishAll
  <2> QED
    BY <1>2, <2>1, PublishType DEF PublishAll, TypeOK, socket, view
<1>3. CASE WaitForNotification
  <2>1. Head(pg) \in Signal /\ Tail(pg) \in Seq(Signal)
    BY <1>3, TailRange DEF WaitForNotification, TypeOK
  <2>2. Publish(Head(pg))
    BY <1>3 DEF WaitForNotification
  <2> QED
    BY <1>3, <2>1, <2>2, PublishType DEF WaitForNotification, TypeOK, socket, view
<1>4. CASE Tick
  <2>1. PICK s \in Signal : Publish(s)
    BY <1>4 DEF Tick
  <2>2. ticks' \in 0..(AllEvery - 1)
    BY <1>4 DEF Tick, TypeOK
  <2> QED
    BY <1>4, <2>1, <2>2, PublishType DEF Tick, TypeOK, socket, view
<1> QED
  BY <1>1, <1>2, <1>3, <1>4 DEF Listens

LEMMA ChannelType ==
    ASSUME TypeOK, NEW c \in Client, NEW q \in Seq(Signal), Len(q) <= Cap,
           ch' = [ch EXCEPT ![c] = q]
    PROVE  ch' \in [Client -> Seq(Signal)] /\ \A d \in Client : Len(ch'[d]) <= Cap
BY DEF TypeOK

LEMMA TypePublishes ==
    ASSUME TypeOK, NEW c \in Client, Offer(c) \/ Drain(c) \/ PutAll(c)
    PROVE  TypeOK'
<1> USE LiveAssumption, SignalType
<1>0. ch[c] \in Seq(Signal) /\ Len(ch[c]) \in Nat
  BY DEF TypeOK
<1>1. CASE Offer(c)
  <2>1. pub.topic \in Signal
    BY <1>1 DEF Offer, TypeOK, NoPub, Call
  <2>2. Append(ch[c], pub.topic) \in Seq(Signal) /\ Len(Append(ch[c], pub.topic)) <= Cap
    BY <1>0, <1>1, <2>1, AppendRange DEF Offer, Room
  <2>3. ch' \in [Client -> Seq(Signal)] /\ \A d \in Client : Len(ch'[d]) <= Cap
    BY <1>1, <2>2, ChannelType DEF Offer
  <2> QED
    BY <1>1, <2>3, DoneType DEF Offer, TypeOK, server, view
<1>2. CASE Drain(c)
  <2>0. <<>> \in Seq(Signal) /\ Len(<<>>) <= Cap
    BY LiveAssumption
  <2>1. ch' \in [Client -> Seq(Signal)] /\ \A d \in Client : Len(ch'[d]) <= Cap
    BY <1>2, <2>0, ChannelType DEF Drain
  <2>2. sock' \in [Client -> SockState]
    BY <1>2 DEF Drain, TypeOK, SockState, Registered, Serving
  <2>3. pub' \in {NoPub} \cup Call
    <3>1. pub \in Call
      BY <1>2 DEF Drain, TypeOK, NoPub
    <3>2. [pub EXCEPT !.full = c] \in Call
      BY <3>1 DEF Call
    <3> QED
      BY <1>2, <3>2 DEF Drain
  <2> QED
    BY <1>2, <2>1, <2>2, <2>3 DEF Drain, TypeOK, server, view, SockState
<1>3. CASE PutAll(c)
  <2>1. Append(ch[c], "all") \in Seq(Signal) /\ Len(Append(ch[c], "all")) <= Cap
    BY <1>0, <1>3, AppendRange DEF PutAll, Room
  <2>2. ch' \in [Client -> Seq(Signal)] /\ \A d \in Client : Len(ch'[d]) <= Cap
    BY <1>3, <2>1, ChannelType DEF PutAll
  <2> QED
    BY <1>3, <2>2, DoneType DEF PutAll, TypeOK, server, view
<1> QED
  BY <1>1, <1>2, <1>3
LEMMA TypeServes ==
    ASSUME TypeOK, NEW c \in Client, Serves(c) \/ Close(c)
    PROVE  TypeOK'
<1> USE LiveAssumption, SignalType
<1>0. /\ ch[c] \in Seq(Signal) /\ Len(ch[c]) \in Nat /\ Len(ch[c]) <= Cap
      /\ <<>> \in Seq(Signal) /\ Len(<<>>) <= Cap
  BY DEF TypeOK
<1>1. CASE Accept(c)
  <2>1. box' \in [Client -> {"none", "changed", "offline"}]
    BY <1>1, NoteType DEF Accept
  <2> QED
    BY <1>1, <2>1 DEF Accept, TypeOK, server
<1>2. CASE DialFails(c)
  <2>1. box' \in [Client -> {"none", "changed", "offline"}]
    BY <1>2, NoteType DEF DialFails
  <2> QED
    BY <1>2, <2>1 DEF DialFails, TypeOK, server, socket
<1>3. CASE Join(c) \/ Leave(c)
  <2>1. ch' \in [Client -> Seq(Signal)] /\ \A d \in Client : Len(ch'[d]) <= Cap
    BY <1>0, <1>3, ChannelType DEF Join, Leave
  <2>2. sock' \in [Client -> SockState]
    BY <1>3 DEF Join, Leave, TypeOK, SockState, Registered
  <2> QED
    BY <1>3, <2>1, <2>2 DEF Join, Leave, TypeOK, server, view, SockState
<1>4. CASE FirstAll(c)
  <2>1. Append(ch[c], "all") \in Seq(Signal) /\ Len(Append(ch[c], "all")) <= Cap
    BY <1>0, <1>4, AppendRange DEF FirstAll, Room
  <2>2. ch' \in [Client -> Seq(Signal)] /\ \A d \in Client : Len(ch'[d]) <= Cap
    BY <1>4, <2>1, ChannelType DEF FirstAll
  <2>3. sock' \in [Client -> SockState]
    BY <1>4 DEF FirstAll, TypeOK, SockState, Registered, Serving
  <2> QED
    BY <1>4, <2>2, <2>3 DEF FirstAll, TypeOK, server, view, SockState
<1>5. CASE Collect(c)
  <2>1. Head(ch[c]) \in Signal /\ Tail(ch[c]) \in Seq(Signal) /\ Len(Tail(ch[c])) <= Cap
    BY <1>0, <1>5, TailRange DEF Collect
  <2>2. ch' \in [Client -> Seq(Signal)] /\ \A d \in Client : Len(ch'[d]) <= Cap
    BY <1>5, <2>1, ChannelType DEF Collect
  <2>3. sock' \in [Client -> SockState]
    BY <1>5 DEF Collect, TypeOK, SockState, Registered, Serving
  <2> QED
    BY <1>5, <2>1, <2>2, <2>3 DEF Collect, TypeOK, server, view, SockState
<1>6. CASE BatchEnds(c)
  <2>1. sock' \in [Client -> SockState]
    BY <1>6 DEF BatchEnds, TypeOK, SockState, Registered, Serving
  <2> QED
    BY <1>6, <2>1 DEF BatchEnds, TypeOK, server, view, SockState
<1>8. CASE Write(c)
  <2>1. sock' \in [Client -> SockState]
    BY <1>8 DEF Write, TypeOK, SockState, Registered, Serving
  <2>2. batch' \in [Client -> SUBSET Signal] /\ wire' \in [Client -> SUBSET Signal]
    BY <1>8 DEF Write, TypeOK
  <2> QED
    BY <1>8, <2>1, <2>2 DEF Write, TypeOK, server, SockState
<1>7. CASE Close(c)
  <2>1. sock' \in [Client -> SockState]
    BY <1>7 DEF Close, TypeOK, SockState, Registered
  <2>2. box' \in [Client -> {"none", "changed", "offline"}]
    BY <1>7, NoteType DEF Close
  <2> QED
    BY <1>7, <2>1, <2>2 DEF Close, TypeOK, server, SockState
<1> QED
  BY <1>1, <1>2, <1>3, <1>4, <1>5, <1>6, <1>7, <1>8 DEF Serves, Opens, TickerCloses

LEMMA TypeUses ==
    ASSUME TypeOK, NEW c \in Client, Uses(c)
    PROVE  TypeOK'
<1>1. CASE BrowserReads(c)
  <2>1. stale' \in [Client -> SUBSET (Topic \cup {"status"})]
    BY <1>1, RereadType DEF BrowserReads
  <2> QED
    BY <1>1, <2>1 DEF BrowserReads, TypeOK, server, socket
<1>2. CASE MobileNotes(c)
  <2>1. box' \in [Client -> {"none", "changed", "offline"}]
    BY <1>2, NoteType DEF MobileNotes
  <2> QED
    BY <1>2, <2>1 DEF MobileNotes, TypeOK, server, socket
<1>3. CASE NextEvent(c)
  <2>1. stale' \in [Client -> SUBSET (Topic \cup {"status"})]
    BY <1>3, RereadType DEF NextEvent, TypeOK
  <2> QED
    BY <1>3, <2>1 DEF NextEvent, TypeOK, server, socket
<1>4. CASE Poll(c)
  <2>1. stale' \in [Client -> SUBSET (Topic \cup {"status"})]
    BY <1>4, RereadType DEF Poll
  <2> QED
    BY <1>4, <2>1 DEF Poll, TypeOK, server, socket, view
<1> QED
  BY <1>1, <1>2, <1>3, <1>4 DEF Uses

LEMMA TypeCommit ==
    ASSUME TypeOK, NEW s \in Signal, Commit(s)
    PROVE  TypeOK'
<1>1. stale' \in [Client -> SUBSET (Topic \cup {"status"})]
  BY SignalType DEF Commit, TypeOK
<1>2. pg' \in Seq(Signal)
  BY AppendRange DEF Commit, TypeOK
<1>3. changes' \in 0..MaxChange
  BY LiveAssumption DEF Commit, TypeOK
<1> QED
  BY <1>1, <1>2, <1>3 DEF Commit, TypeOK, socket, view

LEMMA TypeStep == TypeOK /\ [Next]_vars => TypeOK'
<1> SUFFICES ASSUME TypeOK, [Next]_vars
             PROVE  TypeOK'
  OBVIOUS
<1>1. CASE UNCHANGED vars
  BY <1>1 DEF vars, TypeOK
<1> QED
  BY <1>1, TypeListens, TypePublishes, TypeServes, TypeUses, TypeCommit DEF Next, Publishes

\* Every variable keeps its type, and no channel overflows, for every set of clients and
\* topics and every capacity.
THEOREM TypeCorrect == Spec => []TypeOK
<1>1. Init => TypeOK
  BY TypeInit
<1> QED
  BY <1>1, TypeStep, PTL DEF Spec

------------------------------------------------------------------------------
(* The emptied channel *)

LEMMA EmptiedInit == Init => Emptied
BY LiveAssumption DEF Init, Emptied, NoPub

\* A step that leaves the call alone and adds nothing to a channel, nor a socket.
LEMMA EmptiedFrame ==
    ASSUME TypeOK, Emptied, pub' = pub,
           \A d \in Client : pub.full = d =>
               /\ Len(ch'[d]) <= Len(ch[d])
               /\ sock'[d] = "joined" => sock[d] = "joined"
    PROVE  Emptied'
<1> SUFFICES ASSUME NEW d \in Client, pub.full = d
             PROVE  /\ d \in pub.left /\ Len(ch'[d]) <= 1
                    /\ sock'[d] = "joined" => Len(ch'[d]) <= 0 /\ Len(ch[d]) = 0
  BY DEF Emptied
<1> QED
  BY DEF Emptied, TypeOK
LEMMA EmptiedListens == TypeOK /\ Emptied /\ (Listens \/ Disconnect) => Emptied'
<1> SUFFICES ASSUME TypeOK, Emptied, Listens \/ Disconnect
             PROVE  Emptied'
  OBVIOUS
<1>0. ch' = ch /\ sock' = sock
  BY DEF Listens, Listen, SetReady, PublishAll, WaitForNotification, Tick, Unlisten, Disconnect, socket
<1>1. CASE pub' = pub
  BY <1>0, <1>1 DEF Emptied
<1>2. CASE pub'.full = NoClient
  BY <1>2, LiveAssumption DEF Emptied
<1>3. pub' = pub \/ pub'.full = NoClient
  BY DEF Listens, Listen, SetReady, PublishAll, WaitForNotification, Tick, Unlisten, Disconnect,
         Publish, NoPub
<1> QED
  BY <1>1, <1>2, <1>3

LEMMA EmptiedPublishes ==
    ASSUME TypeOK, Emptied, NEW c \in Client, Offer(c) \/ Drain(c) \/ PutAll(c)
    PROVE  Emptied'
<1>1. CASE Offer(c) \/ PutAll(c)
  <2>1. pub'.full = NoClient
    <3>1. pub' = Done(c)
      BY <1>1 DEF Offer, PutAll
    <3>2. CASE pub = NoPub
      BY <3>1, <3>2 DEF Done, NoPub
    <3>3. CASE pub \in Call
      BY <3>1, <3>3 DEF Done, NoPub, Call
    <3> QED
      BY <3>2, <3>3 DEF TypeOK
  <2> QED
    BY <2>1, LiveAssumption DEF Emptied
<1>2. CASE Drain(c)
  <2>1. pub \in Call
    BY <1>2 DEF Drain, TypeOK, NoPub
  <2>2. pub'.full = c /\ pub'.left = pub.left /\ c \in pub.left
    BY <1>2, <2>1 DEF Drain, Call
  <2>3. Len(ch'[c]) = 0
    BY <1>2 DEF Drain, TypeOK
  <2> QED
    BY <2>2, <2>3 DEF Emptied
<1> QED
  BY <1>1, <1>2

LEMMA EmptiedServes ==
    ASSUME TypeOK, Emptied, NEW c \in Client, Serves(c) \/ Close(c)
    PROVE  Emptied'
<1>0. ch[c] \in Seq(Signal) /\ Len(ch[c]) \in Nat /\ NoClient \notin Client
  BY LiveAssumption DEF TypeOK
<1>1. CASE Join(c)
  <2>1. pub' = NoPub
    BY <1>1 DEF Join, Free
  <2> QED
    BY <1>0, <2>1 DEF Emptied, NoPub
<1>2. CASE FirstAll(c)
  <2>1. Len(ch'[c]) = Len(ch[c]) + 1 /\ sock'[c] = "loop"
    BY <1>0, <1>2, AppendRange, SignalType DEF FirstAll, TypeOK
  <2>2. \A d \in Client \ {c} : ch'[d] = ch[d] /\ sock'[d] = sock[d]
    BY <1>2 DEF FirstAll, TypeOK
  <2>3. pub' = pub /\ sock[c] = "joined"
    BY <1>2 DEF FirstAll
  <2> QED
    BY <1>0, <2>1, <2>2, <2>3 DEF Emptied
<1>3. CASE Collect(c)
  <2>1. Len(ch'[c]) <= Len(ch[c])
    BY <1>0, <1>3, TailRange DEF Collect, TypeOK
  <2>2. \A d \in Client : Len(ch'[d]) <= Len(ch[d]) /\ (sock'[d] = "joined" => sock[d] = "joined")
    BY <1>3, <2>1 DEF Collect, TypeOK
  <2> QED
    BY <1>3, <2>2, EmptiedFrame DEF Collect
<1>4. CASE Leave(c)
  <2>1. pub' = NoPub
    BY <1>4 DEF Leave, Free
  <2> QED
    BY <1>0, <2>1 DEF Emptied, NoPub
<1>5. CASE Accept(c) \/ DialFails(c) \/ BatchEnds(c) \/ Write(c) \/ Close(c)
  <2>1. pub' = pub /\ ch' = ch
    BY <1>5 DEF Accept, DialFails, BatchEnds, Write, Close, socket
  <2>2. \A d \in Client : sock'[d] = "joined" => sock[d] = "joined"
    BY <1>5 DEF Accept, DialFails, BatchEnds, Write, Close, socket, TypeOK
  <2>3. \A d \in Client : Len(ch'[d]) <= Len(ch[d])
    BY <2>1 DEF TypeOK
  <2> QED
    BY <2>1, <2>2, <2>3, EmptiedFrame
<1> QED
  BY <1>1, <1>2, <1>3, <1>4, <1>5 DEF Serves, Opens, TickerCloses

LEMMA EmptiedStep == TypeOK /\ Emptied /\ [Next]_vars => Emptied'
<1> SUFFICES ASSUME TypeOK, Emptied, [Next]_vars
             PROVE  Emptied'
  OBVIOUS
<1>1. CASE UNCHANGED vars
  BY <1>1 DEF vars, Emptied
<1>2. CASE \E s \in Signal : Commit(s)
  BY <1>2 DEF Commit, Emptied, socket
<1>3. CASE \E c \in Client : Uses(c)
  BY <1>3 DEF Uses, BrowserReads, MobileNotes, NextEvent, Poll, Emptied, socket
<1> QED
  BY <1>1, <1>2, <1>3, EmptiedListens, EmptiedPublishes, EmptiedServes DEF Next, Publishes

LEMMA EmptiedRoom == TypeOK /\ Emptied => PublisherFree
BY LiveAssumption DEF TypeOK, Emptied, PublisherFree, Room, NoPub, Call

\* publish, which holds live.mu, never waits for a subscriber: whatever the sockets do
\* meanwhile, the emptied channel has room for the "all".
THEOREM PublisherFreeAlways == Spec => []PublisherFree
<1>1. Init => TypeOK /\ Emptied
  BY TypeInit, EmptiedInit
<1>2. TypeOK /\ Emptied /\ [Next]_vars => (TypeOK /\ Emptied)'
  BY TypeStep, EmptiedStep
<1> QED
  BY <1>1, <1>2, EmptiedRoom, PTL DEF Spec
------------------------------------------------------------------------------
(* Signals *)

\* Where the signal about topic t for client c may be.
Signalled(c, t) ==
    \/ Owed(c, t)
    \/ Covers(Range(ch[c]), t) \/ Covers(batch[c], t) \/ Covers(wire[c], t)
    \/ box[c] # "none" \/ offline[c]

LEMMA KeptMeaning ==
    /\ SignalKept <=> \A c \in Client : sock[c] \in Serving => \A t \in stale[c] : Signalled(c, t)
    /\ SignalKept' <=> \A c \in Client : sock'[c] \in Serving => \A t \in stale'[c] : Signalled(c, t)'
BY DEF SignalKept, Signalled

LEMMA KeptInit == Init => SignalKept
BY DEF Init, SignalKept, Serving

\* The other clients, when nothing changes for them.
LEMMA KeptOthers ==
    ASSUME TypeOK, SignalKept, NEW c \in Client,
           \A d \in Client \ {c} :
               /\ sock'[d] = sock[d] /\ stale'[d] = stale[d] /\ ch'[d] = ch[d] /\ batch'[d] = batch[d]
               /\ wire'[d] = wire[d] /\ box'[d] = box[d] /\ offline'[d] = offline[d]
               /\ \A t \in stale[d] : Owed(d, t) => Owed(d, t)',
           sock'[c] \in Serving => \A t \in stale'[c] : Signalled(c, t)'
    PROVE  SignalKept'
<1> SUFFICES ASSUME NEW d \in Client, sock'[d] \in Serving, NEW t \in stale'[d]
             PROVE  Signalled(d, t)'
  BY KeptMeaning
<1>1. CASE d = c
  BY <1>1
<1>2. CASE d # c
  <2>1. Signalled(d, t)
    BY <1>2, KeptMeaning
  <2> QED
    BY <1>2, <2>1 DEF Signalled
<1> QED
  BY <1>1, <1>2

LEMMA KeptCommit ==
    ASSUME TypeOK, SignalKept, NEW s \in Signal, Commit(s)
    PROVE  SignalKept'
<1> SUFFICES ASSUME NEW c \in Client, sock'[c] \in Serving, NEW t \in stale'[c]
             PROVE  Signalled(c, t)'
  BY KeptMeaning
<1>1. CASE ~conn
  BY <1>1 DEF Commit, Signalled, Owed
<1>2. CASE conn
  <2>1. pg' = Append(pg, s) /\ s \in Range(pg') /\ Range(pg) \subseteq Range(pg')
    BY <1>2, AppendRange DEF Commit, TypeOK
  <2>2. CASE t \in Data(s)
    BY <2>1, <2>2 DEF Signalled, Owed, Covers, Data
  <2>3. CASE t \in stale[c]
    <3>1. Signalled(c, t)
      BY <2>3, KeptMeaning DEF Commit, socket
    <3>2. Owed(c, t) => Owed(c, t)'
      BY <2>1 DEF Owed, Covers, Commit
    <3> QED
      BY <3>1, <3>2 DEF Signalled, Commit, socket, view
  <2> QED
    BY <2>2, <2>3 DEF Commit, TypeOK
<1> QED
  BY <1>1, <1>2

LEMMA KeptListens ==
    ASSUME TypeOK, SignalKept, Listens \/ Disconnect
    PROVE  SignalKept'
<1> SUFFICES ASSUME NEW c \in Client, sock'[c] \in Serving, NEW t \in stale'[c]
             PROVE  Signalled(c, t)'
  BY KeptMeaning
<1>0. /\ sock' = sock /\ ch' = ch /\ batch' = batch /\ stale' = stale
      /\ wire' = wire /\ box' = box /\ offline' = offline
  BY DEF Listens, Listen, SetReady, PublishAll, WaitForNotification, Tick, Unlisten, Disconnect,
         socket, view
<1>1. Signalled(c, t)
  BY <1>0, KeptMeaning
<1>2. Owed(c, t) => Owed(c, t)'
  <2>1. CASE Listen \/ SetReady \/ Disconnect \/ Unlisten
    BY <2>1 DEF Listen, SetReady, Disconnect, Unlisten, Owed
  <2>2. c \in Subscriber
    BY <1>0 DEF Subscriber, Registered
  <2>3. CASE PublishAll
    <3>1. c \in pub'.left /\ pub'.topic = "all"
      BY <2>2, <2>3 DEF PublishAll, Publish
    <3> QED
      BY <3>1 DEF Owed, Covers
  <2>4. ~Free => ~(WaitForNotification \/ Tick)
    BY DEF WaitForNotification, Tick, Publish
  <2>5. Free => pub.full # c /\ pub.left = {}
    BY LiveAssumption DEF Free, NoPub
  <2>6. CASE WaitForNotification
    <3>1. c \in pub'.left /\ pub'.topic = Head(pg)
      BY <2>2, <2>6 DEF WaitForNotification, Publish
    <3>2. Range(pg) \subseteq Range(pg') \cup {Head(pg)}
      BY <2>6, TailRange DEF WaitForNotification, TypeOK
    <3> QED
      BY <2>4, <2>5, <2>6, <3>1, <3>2 DEF Owed, Covers, WaitForNotification
  <2>7. CASE Tick
    BY <2>4, <2>5, <2>7 DEF Owed, Covers, Tick
  <2> QED
    BY <2>1, <2>3, <2>6, <2>7 DEF Listens
<1> QED
  BY <1>0, <1>1, <1>2 DEF Signalled

LEMMA KeptPublishes ==
    ASSUME TypeOK, SignalKept, Emptied, NEW c \in Client, Offer(c) \/ Drain(c) \/ PutAll(c)
    PROVE  SignalKept'
<1>0. /\ ch[c] \in Seq(Signal) /\ pub \in Call /\ pub.topic \in Signal /\ c \in pub.left
  BY LiveAssumption DEF Offer, Drain, PutAll, TypeOK, NoPub, Call, Emptied
<1>1. /\ stale' = stale /\ batch' = batch /\ wire' = wire /\ box' = box /\ offline' = offline
      /\ pg' = pg /\ conn' = conn /\ listener' = listener
  BY DEF Offer, Drain, PutAll, server, view
<1>2. \A d \in Client \ {c} : sock'[d] = sock[d] /\ ch'[d] = ch[d]
  BY DEF Offer, Drain, PutAll, TypeOK
<1>3. CASE Offer(c) \/ PutAll(c)
  <2>1. pub' = Done(c) /\ (pub.full = NoClient \/ pub.full = c)
    BY <1>3 DEF Offer, PutAll
  <2>2. \A d \in Client \ {c} : d \in pub.left => d \in pub'.left /\ pub'.topic = pub.topic
    BY <1>0, <2>1 DEF Done, Call
  <2>3. \A d \in Client \ {c} : \A t \in stale[d] : Owed(d, t) => Owed(d, t)'
    BY <1>1, <2>1, <2>2, LiveAssumption DEF Owed, Covers
  <2>4. \E s \in {pub.topic, "all"} :
            ch'[c] = Append(ch[c], s) /\ (pub.full = c => s = "all") /\ (pub.full # c => s = pub.topic)
    BY <1>3, LiveAssumption DEF Offer, PutAll, TypeOK
  <2>5. PICK s \in {pub.topic, "all"} :
            ch'[c] = Append(ch[c], s) /\ (pub.full = c => s = "all") /\ (pub.full # c => s = pub.topic)
    BY <2>4
  <2>6. s \in Range(ch'[c]) /\ Range(ch[c]) \subseteq Range(ch'[c])
    BY <1>0, <2>5, AppendRange, SignalType
  <2>7. ASSUME sock'[c] \in Serving, NEW t \in stale'[c]
        PROVE  Signalled(c, t)'
    <3>1. Signalled(c, t)
      BY <1>1, <1>3, <2>7, KeptMeaning DEF Offer, PutAll
    <3>2. Owed(c, t) => Owed(c, t)' \/ Covers(Range(ch'[c]), t)
      BY <1>1, <2>5, <2>6 DEF Owed, Covers
    <3> QED
      BY <1>1, <2>6, <3>1, <3>2 DEF Signalled, Covers
  <2> QED
    BY <1>1, <1>2, <2>3, <2>7, KeptOthers
<1>4. CASE Drain(c)
  <2>1. pub'.full = c /\ pub'.left = pub.left /\ pub'.topic = pub.topic /\ pub.full = NoClient
    BY <1>0, <1>4 DEF Drain, Call
  <2>2. \A d \in Client \ {c} : \A t \in stale[d] : Owed(d, t) => Owed(d, t)'
    BY <1>1, <2>1, LiveAssumption DEF Owed, Covers
  <2>3. \A t \in stale'[c] : Signalled(c, t)'
    BY <2>1 DEF Signalled, Owed
  <2> QED
    BY <1>1, <1>2, <2>2, <2>3, KeptOthers
<1> QED
  BY <1>3, <1>4
LEMMA OwedFrame ==
    ASSUME UNCHANGED <<pg, conn, listener, pub>>
    PROVE  \A d, t : Owed(d, t)' <=> Owed(d, t)
BY DEF Owed, Covers

LEMMA KeptServes ==
    ASSUME TypeOK, SignalKept, NEW c \in Client, Serves(c) \/ Close(c)
    PROVE  SignalKept'
<1>0. /\ UNCHANGED <<pg, conn, listener, pub>> /\ stale' = stale /\ offline' = offline
      /\ ch[c] \in Seq(Signal)
  BY DEF Serves, Opens, Accept, DialFails, Join, FirstAll, Collect, BatchEnds, Write, TickerCloses,
         Close, Leave, server, view, TypeOK
<1>1. \A d \in Client \ {c} :
          /\ sock'[d] = sock[d] /\ ch'[d] = ch[d] /\ batch'[d] = batch[d]
          /\ wire'[d] = wire[d] /\ box'[d] = box[d]
  BY DEF Serves, Opens, Accept, DialFails, Join, FirstAll, Collect, BatchEnds, Write, TickerCloses,
         Close, Leave, Note, socket, view, TypeOK
<1>2. SUFFICES ASSUME sock'[c] \in Serving, NEW t \in stale'[c]
               PROVE  Signalled(c, t)'
  BY <1>0, <1>1, OwedFrame, KeptOthers
<1>3. CASE FirstAll(c)
  <2>1. "all" \in Range(ch'[c])
    BY <1>0, <1>3, AppendRange, SignalType DEF FirstAll, TypeOK
  <2> QED
    BY <2>1 DEF Signalled, Covers
<1>4. CASE Collect(c)
  <2>1. Signalled(c, t)
    BY <1>0, <1>4, KeptMeaning DEF Collect, Serving
  <2>2. /\ batch'[c] = batch[c] \cup {Head(ch[c])} /\ ch'[c] = Tail(ch[c])
        /\ wire' = wire /\ box' = box
    BY <1>4 DEF Collect, TypeOK, view
  <2>3. Range(ch[c]) \subseteq Range(ch'[c]) \cup {Head(ch[c])}
    BY <1>0, <1>4, <2>2, TailRange DEF Collect
  <2> QED
    BY <1>0, <2>1, <2>2, <2>3, OwedFrame DEF Signalled, Covers
<1>5. CASE BatchEnds(c)
  <2>1. Signalled(c, t)
    BY <1>0, <1>5, KeptMeaning DEF BatchEnds, Serving
  <2> QED
    BY <1>0, <1>5, <2>1, OwedFrame DEF Signalled, BatchEnds, view
<1>6. CASE Write(c)
  <2>1. Signalled(c, t)
    BY <1>0, <1>6, KeptMeaning DEF Write, Serving
  <2>2. wire'[c] = wire[c] \cup batch[c] /\ ch' = ch /\ box' = box
    BY <1>6 DEF Write, TypeOK
  <2> QED
    BY <1>0, <2>1, <2>2, OwedFrame DEF Signalled, Covers
<1>7. CASE Accept(c) \/ DialFails(c) \/ Join(c) \/ Close(c) \/ Leave(c)
  <2>1. sock'[c] \notin Serving
    BY <1>7 DEF Accept, DialFails, Join, Close, Leave, TypeOK, Serving, socket
  <2> QED
    BY <1>2, <2>1
<1> QED
  BY <1>3, <1>4, <1>5, <1>6, <1>7 DEF Serves, Opens, TickerCloses

LEMMA KeptUses ==
    ASSUME TypeOK, SignalKept, NEW c \in Client, Uses(c)
    PROVE  SignalKept'
<1>0. UNCHANGED <<pg, conn, listener, pub, sock, ch, batch>>
  BY DEF Uses, BrowserReads, MobileNotes, NextEvent, Poll, server, socket
<1>1. \A d \in Client \ {c} :
          stale'[d] = stale[d] /\ wire'[d] = wire[d] /\ box'[d] = box[d] /\ offline'[d] = offline[d]
  BY DEF Uses, BrowserReads, MobileNotes, NextEvent, Poll, Reread, Note, view, TypeOK
<1>2. SUFFICES ASSUME sock'[c] \in Serving, NEW t \in stale'[c]
               PROVE  Signalled(c, t)'
  BY <1>0, <1>1, OwedFrame, KeptOthers
<1>3. t \in stale[c]
  BY <1>2 DEF Uses, BrowserReads, MobileNotes, NextEvent, Poll, Reread, TypeOK
<1>4. Signalled(c, t)
  BY <1>0, <1>2, <1>3, KeptMeaning
<1>5. CASE BrowserReads(c)
  <2>1. ~Covers(wire[c], t) /\ box' = box /\ offline' = offline
    BY <1>2, <1>5 DEF BrowserReads, Reread, Covers, TypeOK
  <2> QED
    BY <1>0, <1>4, <2>1, OwedFrame DEF Signalled
<1>6. CASE MobileNotes(c)
  <2>1. box'[c] # "none"
    BY <1>6 DEF MobileNotes, Note, TypeOK
  <2> QED
    BY <2>1 DEF Signalled
<1>7. CASE NextEvent(c)
  <2>1. box[c] # "changed"
    BY <1>2, <1>7 DEF NextEvent, Reread, TypeOK
  <2>2. offline'[c]
    BY <1>7, <2>1 DEF NextEvent, TypeOK
  <2> QED
    BY <2>2 DEF Signalled
<1>8. CASE Poll(c)
  BY <1>2, <1>8 DEF Poll, Reread, TypeOK
<1> QED
  BY <1>5, <1>6, <1>7, <1>8 DEF Uses

LEMMA KeptStep == IInv /\ [Next]_vars => SignalKept'
<1> SUFFICES ASSUME IInv, [Next]_vars
             PROVE  SignalKept'
  OBVIOUS
<1>1. CASE UNCHANGED vars
  BY <1>1 DEF vars, IInv, SignalKept, Owed, Covers
<1> QED
  BY <1>1, KeptCommit, KeptListens, KeptPublishes, KeptServes, KeptUses DEF IInv, Next, Publishes

\* No change is ever forgotten: while a connected client does not know of one, a signal is
\* on its way, for any number of clients and topics and any capacity above one.
THEOREM SignalKeptAlways == Spec => []SignalKept
<1>1. Init => IInv
  BY TypeInit, EmptiedInit, KeptInit DEF IInv
<1>2. IInv /\ [Next]_vars => IInv'
  BY TypeStep, EmptiedStep, KeptStep DEF IInv
<1>3. IInv => SignalKept
  BY DEF IInv
<1> QED
  BY <1>1, <1>2, <1>3, PTL DEF Spec

-----------------------------------------------------------------------------
(* Generation. *)

\* GenerationOK without the connections.
Types ==
    /\ chat \in [Chat -> ChatRow]
    /\ context \in [Meeting -> ContextRow]
    /\ meeting \in [Meeting -> MeetingRow]
    /\ today \subseteq Meeting
    /\ hidden \subseteq Event
    /\ call \in [Caller -> Work]
    /\ said \subseteq Statement
    /\ asked \subseteq Meeting
    /\ scene \in Scene

\* No pool gives out more connections than it has.
Roomy == \A p \in Process : Connections(p) <= MaxConn

\* Who calls the model for a question has its row, which waits for an answer, alone,
\* and nothing that was excluded from it; who calls it for a context has the title of
\* a version between the one of the fingerprint and the present one.
Owns(k, item, title, given) ==
    /\ Plays(k)
    /\ k \in ChatLoop =>
          /\ item \in Chat /\ chat[item].status = "PENDING"
          /\ given \cap chat[item].excluded = {}
          /\ \A j \in ChatLoop \ {k} : Calling(j) => call[j].item # item
    /\ k \in ContextLoop =>
          /\ item \in Meeting /\ title # 0
          /\ context[item].fingerprint <= title /\ title <= meeting[item].version

Owned == \A k \in Caller : Calling(k) => Owns(k, call[k].item, call[k].title, call[k].given)

\* A failure to be recorded is about a row that still waits, unless a second loop acts.
Failing ==
    /\ \A k \in ChatLoop : call[k].at = "failed" =>
          /\ Plays(k) /\ call[k].item \in Chat
          /\ chat[call[k].item].status # "PENDING" => \E j \in ChatLoop \ {k} : Plays(j)
    /\ \A k \in ContextLoop : call[k].at = "failed" => call[k].item \in Meeting
    /\ \A v \in Visitor : call[v].at = "wait" => call[v].item \in Meeting

\* Excluded is what is hidden, and an answer cites nothing of it.
Answers ==
    \A r \in Chat : /\ chat[r].excluded \subseteq hidden
                    /\ chat[r].cites \cap chat[r].excluded = {}
                    /\ chat[r].status = "ABSENT" => chat[r].cites = {}
                    /\ chat[r].status \in {"COMPLETED", "FAILED"} => chat[r].due

\* What a row of a context says, when the meeting is as it is.
Sound(c, m) ==
    /\ c.fresh => c.fingerprint <= c.about /\ c.about <= meeting[m].version
    /\ c.fingerprint <= meeting[m].version
    /\ c.status \in {"READY", "EMPTY"} => c.about # 0

Summaries == \A m \in Meeting : Sound(context[m], m)

\* The invariant of Generation.
GInv == Types /\ Roomy /\ Owned /\ Failing /\ Answers /\ Summaries /\ SaidIsCurrent

\* A step of FinalKept.
KeepsFinal ==
    \A r \in Chat : chat[r].status \in {"COMPLETED", "FAILED"} /\ chat'[r] # chat[r] =>
       \E k \in ChatLoop : /\ call[k].at = "failed" /\ call[k].item = r /\ call'[k] = Idle
                           /\ \E j \in ChatLoop \ {k} : Plays(j)

-----------------------------------------------------------------------------
(* Connections. *)

LEMMA FewerInAll ==
  ASSUME NEW A, NEW B, NEW C, NEW D, IsFiniteSet(A), IsFiniteSet(B), C \subseteq A, D \subseteq B
  PROVE  /\ Cardinality(A) + Cardinality(B) \in Nat
         /\ Cardinality(C) + Cardinality(D) \in Nat
         /\ Cardinality(C) + Cardinality(D) <= Cardinality(A) + Cardinality(B)
<1>1. IsFiniteSet(C) /\ IsFiniteSet(D) /\ Cardinality(C) <= Cardinality(A)
      /\ Cardinality(D) <= Cardinality(B)
  BY FS_Subset, C \in SUBSET A, D \in SUBSET B
<1>2. /\ Cardinality(A) \in Nat /\ Cardinality(B) \in Nat
      /\ Cardinality(C) \in Nat /\ Cardinality(D) \in Nat
  BY <1>1, FS_CardinalityType
<1> QED
  BY <1>1, <1>2

LEMMA OneMoreInAll ==
  ASSUME NEW A, NEW B, NEW C, NEW D, NEW x, IsFiniteSet(A), IsFiniteSet(B),
         \/ C \subseteq A \cup {x} /\ D \subseteq B
         \/ C \subseteq A /\ D \subseteq B \cup {x}
  PROVE  /\ Cardinality(A) + Cardinality(B) \in Nat
         /\ Cardinality(C) + Cardinality(D) \in Nat
         /\ Cardinality(C) + Cardinality(D) <= Cardinality(A) + Cardinality(B) + 1
<1>1. /\ Cardinality(A) \in Nat /\ Cardinality(B) \in Nat
  BY FS_CardinalityType
<1>2. /\ IsFiniteSet(A \cup {x}) /\ Cardinality(A \cup {x}) <= Cardinality(A) + 1
      /\ IsFiniteSet(B \cup {x}) /\ Cardinality(B \cup {x}) <= Cardinality(B) + 1
  <2>1. /\ IsFiniteSet(A \cup {x})
        /\ Cardinality(A \cup {x}) = IF x \in A THEN Cardinality(A) ELSE Cardinality(A) + 1
    BY FS_AddElement, ZenonT(30)
  <2>2. /\ IsFiniteSet(B \cup {x})
        /\ Cardinality(B \cup {x}) = IF x \in B THEN Cardinality(B) ELSE Cardinality(B) + 1
    BY FS_AddElement, ZenonT(30)
  <2> QED
    BY <1>1, <2>1, <2>2
<1>3. /\ Cardinality(A \cup {x}) \in Nat /\ Cardinality(B \cup {x}) \in Nat
  BY <1>2, FS_CardinalityType
<1>4. CASE C \subseteq A \cup {x} /\ D \subseteq B
  BY <1>1, <1>2, <1>3, <1>4, FewerInAll
<1>5. CASE C \subseteq A /\ D \subseteq B \cup {x}
  BY <1>1, <1>2, <1>3, <1>5, FewerInAll
<1> QED
  BY <1>4, <1>5

LEMMA SomeCallers ==
  ASSUME NEW p
  PROVE  /\ IsFiniteSet({j \in Caller : Home[j] = p /\ InTransaction(j)})
         /\ IsFiniteSet({j \in Caller : Home[j] = p /\ call[j].at \in {"lock", "model"}})
BY GenerationAssumption, FS_Subset

\* Nobody has a connection who had none.
LEMMA RoomyFewer ==
  ASSUME Roomy,
         \A j \in Caller : /\ InTransaction(j)' => InTransaction(j)
                           /\ call'[j].at \in {"lock", "model"} => call[j].at \in {"lock", "model"}
  PROVE  Roomy'
<1> SUFFICES ASSUME NEW p \in Process PROVE (Connections(p) <= MaxConn)'
  BY DEF Roomy
<1> DEFINE A == {j \in Caller : Home[j] = p /\ InTransaction(j)}
           B == {j \in Caller : Home[j] = p /\ call[j].at \in {"lock", "model"}}
           C == {j \in Caller : Home[j] = p /\ InTransaction(j)'}
           D == {j \in Caller : Home[j] = p /\ call'[j].at \in {"lock", "model"}}
<1>1. Connections(p) = Cardinality(A) + Cardinality(B)
      /\ Connections(p)' = Cardinality(C) + Cardinality(D)
  BY DEF Connections
<1>2. C \subseteq A /\ D \subseteq B /\ IsFiniteSet(A) /\ IsFiniteSet(B)
  BY SomeCallers
<1> HIDE DEF A, B, C, D
<1>3. /\ Connections(p) \in Nat /\ Connections(p)' \in Nat
      /\ Connections(p)' <= Connections(p)
  BY <1>1, <1>2, FewerInAll
<1>4. Connections(p) <= MaxConn
  BY DEF Roomy
<1> QED
  BY <1>3, <1>4, GenerationAssumption

\* One caller takes one connection, which was free.
LEMMA RoomyOneMore ==
  ASSUME Roomy, NEW k \in Caller, FreeConnection(k),
         \A j \in Caller \ {k} :
            /\ InTransaction(j)' => InTransaction(j)
            /\ call'[j].at \in {"lock", "model"} => call[j].at \in {"lock", "model"},
         \/ InTransaction(k)' => InTransaction(k)
         \/ call'[k].at \in {"lock", "model"} => call[k].at \in {"lock", "model"}
  PROVE  Roomy'
<1> SUFFICES ASSUME NEW p \in Process PROVE (Connections(p) <= MaxConn)'
  BY DEF Roomy
<1> DEFINE A == {j \in Caller : Home[j] = p /\ InTransaction(j)}
           B == {j \in Caller : Home[j] = p /\ call[j].at \in {"lock", "model"}}
           C == {j \in Caller : Home[j] = p /\ InTransaction(j)'}
           D == {j \in Caller : Home[j] = p /\ call'[j].at \in {"lock", "model"}}
<1>1. Connections(p) = Cardinality(A) + Cardinality(B)
      /\ Connections(p)' = Cardinality(C) + Cardinality(D)
  BY DEF Connections
<1>2. IsFiniteSet(A) /\ IsFiniteSet(B)
  BY SomeCallers
<1>3. Connections(p) <= MaxConn
  BY DEF Roomy
<1>4. CASE Home[k] # p
  <2>1. C \subseteq A /\ D \subseteq B
    BY <1>4
  <2> HIDE DEF A, B, C, D
  <2> QED
    BY <1>1, <1>2, <1>3, <2>1, FewerInAll, GenerationAssumption
<1>5. CASE Home[k] = p
  <2>1. \/ C \subseteq A \cup {k} /\ D \subseteq B
        \/ C \subseteq A /\ D \subseteq B \cup {k}
    OBVIOUS
  <2>2. Connections(p) < MaxConn
    BY <1>5 DEF FreeConnection
  <2> HIDE DEF A, B, C, D
  <2>3. /\ Cardinality(A) + Cardinality(B) \in Nat
        /\ Cardinality(C) + Cardinality(D) \in Nat
        /\ Cardinality(C) + Cardinality(D) <= Cardinality(A) + Cardinality(B) + 1
    BY <1>2, <2>1, OneMoreInAll, ZenonT(30)
  <2> QED
    BY <1>1, <2>2, <2>3, GenerationAssumption
<1> QED
  BY <1>4, <1>5

\* A caller has a connection for its transaction, or needs none, or one is free.
Connected(k) == Calling(k) \/ k \in Stream \/ FreeConnection(k)

\* A call that ends, fails or begins.
LEMMA RoomyCall ==
  ASSUME Roomy, NEW k \in Caller, Connected(k), NEW w,
         call \in [Caller -> Work], call' = [call EXCEPT ![k] = w], w.at \notin {"lock", "model"}
  PROVE  Roomy'
<1>1. \A j \in Caller \ {k} : call'[j] = call[j]
  OBVIOUS
<1>2. call'[k] = w
  OBVIOUS
<1>3. \A j \in Caller \ {k} : (InTransaction(j)' <=> InTransaction(j))
  BY <1>1 DEF InTransaction, Calling
<1>4. CASE FreeConnection(k)
  BY <1>1, <1>2, <1>3, <1>4, RoomyOneMore
<1>5. CASE Calling(k) \/ k \in Stream
  <2>1. InTransaction(k)' => InTransaction(k)
    BY <1>5 DEF InTransaction, Calling
  <2> QED
    BY <1>1, <1>2, <1>3, <2>1, RoomyFewer
<1> QED
  BY <1>4, <1>5 DEF Connected

-----------------------------------------------------------------------------
(* The start, and what a row or a caller is. *)

LEMMA IdleWork == Idle \in Work /\ Idle.at = "idle"
  BY GenerationAssumption DEF Idle, Work, Version

\* What a caller does next, from what it did.
Begun(x, item, title, part, given) ==
    [x EXCEPT !.at = "begin", !.item = item, !.title = title, !.part = part, !.given = given]

LEMMA BegunWork ==
  ASSUME NEW x \in Work, NEW item \in Chat \cup Meeting \cup {None}, NEW title \in Version,
         NEW part \in 1..2, NEW given \in SUBSET Record
  PROVE  /\ Begun(x, item, title, part, given) \in Work
         /\ Begun(x, item, title, part, given).at = "begin"
         /\ Begun(x, item, title, part, given).item = item
         /\ Begun(x, item, title, part, given).title = title
         /\ Begun(x, item, title, part, given).given = given
  BY DEF Begun, Work

Ended(x, at, item, why) == [x EXCEPT !.at = at, !.item = item, !.why = why]

LEMMA FailedWork ==
  ASSUME NEW x \in Work, NEW item \in Chat \cup Meeting \cup {None},
         NEW why \in {"retry", "stop", "unfit"}
  PROVE  /\ Ended(x, "failed", item, why) \in Work
         /\ Ended(x, "failed", item, why).at = "failed"
         /\ Ended(x, "failed", item, why).item = item
  BY DEF Ended, Work

LEMMA WaitWork ==
  ASSUME NEW x \in Work, NEW item \in Chat \cup Meeting \cup {None}, NEW why \in {"read", "refresh"}
  PROVE  /\ Ended(x, "wait", item, why) \in Work
         /\ Ended(x, "wait", item, why).at = "wait"
         /\ Ended(x, "wait", item, why).item = item
  BY DEF Ended, Work

LEMMA InitInv == InitGeneration => GInv
<1> SUFFICES ASSUME InitGeneration PROVE GInv
  OBVIOUS
<1>1. Types
  <2>1. NoChat \in ChatRow
    BY DEF NoChat, ChatRow
  <2>2. NoContext \in ContextRow
    BY GenerationAssumption DEF NoContext, ContextRow, ContextStatus, When, Version
  <2>3. [version |-> 1, status |-> "on"] \in MeetingRow
    BY GenerationAssumption DEF MeetingRow
  <2> QED
    BY IdleWork, <2>1, <2>2, <2>3 DEF InitGeneration, Types
<1>2. Roomy
  <2> SUFFICES ASSUME NEW p \in Process PROVE Connections(p) <= MaxConn
    BY DEF Roomy
  <2>1. \A k \in Caller : call[k].at = "idle"
    BY IdleWork DEF InitGeneration
  <2>2. /\ {k \in Caller : Home[k] = p /\ InTransaction(k)} = {}
        /\ {k \in Caller : Home[k] = p /\ call[k].at \in {"lock", "model"}} = {}
    BY <2>1 DEF InTransaction, Calling
  <2>3. Cardinality({}) = 0
    BY FS_EmptySet
  <2>4. Connections(p) = 0 + 0
    BY <2>2, <2>3, Zenon DEF Connections
  <2> QED
    BY <2>4, GenerationAssumption
<1>3. Owned /\ Failing
  BY IdleWork DEF InitGeneration, Owned, Failing, Calling, Caller, Loop
<1>4. Answers /\ Summaries /\ SaidIsCurrent
  <2>1. Answers
    BY DEF InitGeneration, Answers, NoChat
  <2>2. Summaries
    BY DEF InitGeneration, Summaries, Sound, NoContext
  <2> QED
    BY <2>1, <2>2 DEF InitGeneration, SaidIsCurrent
<1> QED
  BY <1>1, <1>2, <1>3, <1>4 DEF GInv

-----------------------------------------------------------------------------
(* How a call ends. *)

\* Nothing is said.
LEMMA QuietSays == Quiet => SaidIsCurrent' /\ said' \subseteq Statement'
  BY DEF Quiet, SaidIsCurrent

\* Only one caller moves.  Calling or failing, it has what it needs.
LEMMA CallStep ==
  ASSUME GInv, NEW k \in Caller, NEW w \in Work, call' = [call EXCEPT ![k] = w],
         UNCHANGED <<chat, context, meeting, today, hidden, scene>>,
         said' = {}, asked' \subseteq Meeting,
         w.at \in {"begin", "lock", "model"} => Owns(k, w.item, w.title, w.given),
         w.at = "failed" => \E title, given : Owns(k, w.item, title, given),
         w.at = "wait" /\ k \in Visitor => w.item \in Meeting
  PROVE  /\ Types' /\ Owned' /\ Failing' /\ Answers' /\ Summaries' /\ SaidIsCurrent'
         /\ KeepsFinal
<1>1. call' \in [Caller -> Work] /\ call'[k] = w /\ \A j \in Caller \ {k} : call'[j] = call[j]
  BY DEF GInv, Types
<1>2. Types'
  BY <1>1 DEF GInv, Types
<1>3. Owned'
  <2> SUFFICES ASSUME NEW i \in Caller, Calling(i)'
               PROVE  Owns(i, call[i].item, call[i].title, call[i].given)'
    BY DEF Owned
  <2>1. CASE i = k
    <3>1. \A j \in ChatLoop \ {k} : Calling(j)' => Calling(j) /\ call'[j] = call[j]
      BY <1>1 DEF Calling, Caller, Loop
    <3>2. Owns(k, w.item, w.title, w.given)
      BY <1>1, <2>1 DEF Calling
    <3> QED
      BY <1>1, <2>1, <3>1, <3>2 DEF Owns, Plays
  <2>2. CASE i # k
    <3>1. Calling(i) /\ call'[i] = call[i] /\ Owns(i, call[i].item, call[i].title, call[i].given)
      BY <1>1, <2>2 DEF Calling, GInv, Owned
    <3>2. ASSUME NEW j \in ChatLoop \ {i}, Calling(j)', i \in ChatLoop
          PROVE  call'[j].item # call[i].item
      <4>1. CASE j = k
        <5>1. Owns(k, w.item, w.title, w.given)
          BY <1>1, <3>2, <4>1 DEF Calling
        <5> QED
          BY <1>1, <3>1, <3>2, <4>1, <5>1 DEF Owns
      <4>2. CASE j # k
        BY <1>1, <3>1, <3>2, <4>2 DEF Owns, Calling, Caller, Loop
      <4> QED
        BY <4>1, <4>2
    <3> QED
      BY <3>1, <3>2 DEF Owns, Plays
  <2> QED
    BY <2>1, <2>2
<1>4. Failing'
  BY <1>1 DEF Failing, GInv, Plays, Owns, Caller, Loop
<1>5. Answers' /\ Summaries' /\ SaidIsCurrent' /\ KeepsFinal
  BY DEF GInv, Answers, Summaries, Sound, SaidIsCurrent, KeepsFinal
<1> QED
  BY <1>2, <1>3, <1>4, <1>5

\* A caller begins to call the model, or goes on with fewer records.
LEMMA CallModelInv ==
  ASSUME GInv, Quiet, NEW k \in Caller, Connected(k), NEW item \in Chat \cup Meeting \cup {None},
         NEW title \in Version, NEW part \in 1..2, NEW given \in SUBSET Record,
         Owns(k, item, title, given), CallModel(k, item, title, part, given)
  PROVE  GInv' /\ KeepsFinal
<1> DEFINE w == Begun(Idle, item, title, part, given)
<1> HIDE DEF w
<1>1. /\ w \in Work /\ w.at = "begin" /\ w.item = item /\ w.title = title /\ w.given = given
  BY BegunWork, IdleWork DEF w
<1>2. call' = [call EXCEPT ![k] = w] /\ UNCHANGED <<chat, context>>
  BY DEF CallModel, Begun, w
<1>3. Roomy'
  BY <1>1, <1>2, RoomyCall DEF GInv, Types
<1> QED
  BY <1>1, <1>2, <1>3, CallStep DEF GInv, Types, Quiet

\* The transaction is rolled back.
LEMMA FailInv ==
  ASSUME GInv, Quiet, NEW k \in Caller, Connected(k), NEW item \in Chat \cup Meeting \cup {None},
         NEW title, NEW given, NEW why \in {"retry", "stop", "unfit"},
         Owns(k, item, title, given), Fail(k, item, why)
  PROVE  GInv' /\ KeepsFinal
<1> PICK w : /\ call' = [call EXCEPT ![k] = w] /\ w \in Work /\ w.at \in {"idle", "failed"}
             /\ w.at = "failed" => w.item = item
  <2> DEFINE x == Ended(Idle, "failed", item, why)
  <2> HIDE DEF x
  <2>1. x \in Work /\ x.at = "failed" /\ x.item = item
    BY FailedWork, IdleWork DEF x
  <2>2. call' = [call EXCEPT ![k] = IF k \in ChatLoop \/ (k \in ContextLoop /\ why = "stop")
                                    THEN x ELSE Idle]
    BY DEF Fail, Ended, x
  <2> QED
    BY <2>1, <2>2, IdleWork
<1>1. Roomy'
  BY RoomyCall DEF GInv, Types
<1>2. UNCHANGED <<chat, context>>
  BY DEF Fail
<1>3. w.at = "failed" => \E t, g : Owns(k, w.item, t, g)
  OBVIOUS
<1> QED
  BY <1>1, <1>2, <1>3, CallStep DEF GInv, Types, Quiet

\* What an answer and a summary leave in their rows.
LEMMA CompletedRows ==
  ASSUME Types, NEW r \in Chat, NEW cites \in SUBSET Record
  PROVE  LET c == CompletedChat(r, cites) IN
         /\ c \in [Chat -> ChatRow] /\ \A s \in Chat \ {r} : c[s] = chat[s]
         /\ c[r].status = "COMPLETED" /\ c[r].due /\ c[r].cites = cites
         /\ c[r].excluded = chat[r].excluded
  BY DEF CompletedChat, Types, ChatRow

LEMMA GeneratedRows ==
  ASSUME Types, NEW m \in Meeting, NEW title \in Version, NEW cites
  PROVE  LET c == Generated(m, title, cites) IN
         /\ c \in [Meeting -> ContextRow] /\ \A n \in Meeting \ {m} : c[n] = context[n]
         /\ c[m].about = title /\ c[m].fingerprint = context[m].fingerprint
<1> DEFINE sum(x) == [x EXCEPT
        !.status = IF cites = {} THEN "EMPTY" ELSE "READY",
        !.about = title, !.fresh = TRUE, !.refresh = "later",
        !.notify = IF x.requested THEN "due" ELSE "none"]
<1>1. ASSUME NEW x \in ContextRow
      PROVE  sum(x) \in ContextRow /\ sum(x).about = title /\ sum(x).fingerprint = x.fingerprint
  BY DEF ContextRow, ContextStatus, When
<1>2. context[m] \in ContextRow
  BY DEF Types
<1>3. Generated(m, title, cites) = [context EXCEPT ![m] = sum(context[m])]
  BY DEF Generated
<1> HIDE DEF sum
<1> QED
  BY <1>1, <1>2, <1>3 DEF Types

\* The transaction commits its result.
LEMMA FinishInv ==
  ASSUME GInv, Quiet, NEW k \in Caller, Connected(k), NEW item, NEW title \in Version,
         NEW cites \in SUBSET Record, Owns(k, item, title, cites), Finish(k, item, title, cites)
  PROVE  GInv' /\ KeepsFinal
<1> PICK w : /\ call' = [call EXCEPT ![k] = w] /\ w \in Work /\ w.at \in {"idle", "wait"}
             /\ w.at = "wait" => k \in Author
  <2> DEFINE x == [Idle EXCEPT !.at = "wait"]
  <2>1. x \in Work /\ x.at = "wait"
    <3>1. ASSUME NEW y \in Work
          PROVE  [y EXCEPT !.at = "wait"] \in Work /\ [y EXCEPT !.at = "wait"].at = "wait"
      BY DEF Work
    <3> QED
      BY <3>1, IdleWork
  <2>2. call' = [call EXCEPT ![k] = IF k \in Author THEN x ELSE Idle]
    BY DEF Finish
  <2> HIDE DEF x
  <2> QED
    BY <2>1, <2>2, IdleWork
<1>1. call' \in [Caller -> Work] /\ call'[k] = w /\ \A j \in Caller \ {k} : call'[j] = call[j]
  BY DEF GInv, Types
<1>2. /\ k \in ChatLoop => chat' = CompletedChat(item, cites) /\ item \in Chat
      /\ k \notin ChatLoop => chat' = chat
      /\ k \in ContextLoop => context' = Generated(item, title, cites) /\ item \in Meeting
      /\ k \notin ContextLoop => context' = context
  BY DEF Finish, Owns
<1>3. /\ chat' \in [Chat -> ChatRow]
      /\ \A r \in Chat : chat'[r].excluded = chat[r].excluded
      /\ \A r \in Chat : chat'[r] # chat[r] => 
            k \in ChatLoop /\ r = item /\ chat'[r].status = "COMPLETED" /\ chat'[r].due
            /\ chat'[r].cites = cites
  BY <1>2, CompletedRows DEF GInv, Types
<1>4. /\ context' \in [Meeting -> ContextRow]
      /\ \A m \in Meeting : context'[m].fingerprint = context[m].fingerprint
      /\ \A m \in Meeting : context'[m] # context[m] =>
            k \in ContextLoop /\ m = item /\ context'[m].about = title
  BY <1>2, GeneratedRows DEF GInv, Types
<1>5. Types'
  BY <1>1, <1>3, <1>4, QuietSays DEF GInv, Types, Quiet
<1>6. Roomy'
  BY RoomyCall DEF GInv, Types
<1>7. Owned'
  <2> SUFFICES ASSUME NEW i \in Caller, Calling(i)'
               PROVE  Owns(i, call[i].item, call[i].title, call[i].given)'
    BY DEF Owned
  <2>1. i # k /\ Calling(i) /\ call'[i] = call[i]
    BY <1>1 DEF Calling
  <2>2. Owns(i, call[i].item, call[i].title, call[i].given)
    BY <2>1 DEF GInv, Owned
  <2>3. i \in ChatLoop => chat'[call[i].item] = chat[call[i].item]
    BY <1>3, <2>1, <2>2 DEF Owns
  <2>4. \A j \in ChatLoop : Calling(j)' => Calling(j) /\ call'[j] = call[j]
    BY <1>1 DEF Calling, Caller, Loop
  <2> QED
    BY <1>4, <2>1, <2>2, <2>3, <2>4 DEF Owns, Plays, Quiet
<1>8. Failing'
  <2>1. Plays(k)
    BY DEF Owns
  <2>2. \A i \in ChatLoop : call'[i].at = "failed" => i # k /\ call'[i] = call[i]
    BY <1>1 DEF Caller, Loop
  <2>3. \A i \in ContextLoop : call'[i].at = "failed" => i # k /\ call'[i] = call[i]
    BY <1>1 DEF Caller, Loop
  <2>4. \A v \in Visitor : call'[v].at = "wait" => v # k /\ call'[v] = call[v]
    BY <1>1, GenerationAssumption DEF Caller, Loop
  <2> QED
    BY <1>3, <2>1, <2>2, <2>3, <2>4 DEF Failing, GInv, Plays, Quiet
<1>9. Answers'
  BY <1>3 DEF GInv, Answers, Owns, Quiet
<1>10. Summaries'
  <2> SUFFICES ASSUME NEW m \in Meeting PROVE Sound(context[m], m)'
    BY DEF Summaries
  <2>1. Sound(context[m], m)
    BY DEF GInv, Summaries
  <2> QED
    BY <1>4, <2>1, GenerationAssumption DEF Sound, Owns, Quiet, GInv, Types, ContextRow, Version
<1>11. KeepsFinal
  BY <1>3 DEF KeepsFinal, Owns
<1> QED
  BY <1>5, <1>6, <1>7, <1>8, <1>9, <1>10, <1>11, QuietSays DEF GInv

\* A smaller part of what may be given may be given.
LEMMA OwnsLess ==
  ASSUME NEW k, NEW item, NEW title, NEW given, NEW less \in SUBSET given,
         Owns(k, item, title, given)
  PROVE  Owns(k, item, title, less)
  BY DEF Owns

LEMMA AskModelInv ==
  ASSUME GInv, Quiet, NEW k \in Caller, Connected(k), NEW item \in Chat \cup Meeting \cup {None},
         NEW title \in Version, NEW part \in 1..2, NEW offered \in SUBSET Record,
         Owns(k, item, title, offered), AskModel(k, item, title, part, offered)
  PROVE  GInv' /\ KeepsFinal
<1> PICK given \in SUBSET offered :
       IF given = {} THEN Fail(k, item, "unfit") ELSE CallModel(k, item, title, part, given)
  BY DEF AskModel
<1>1. CASE given = {}
  BY <1>1, FailInv
<1>2. CASE given # {}
  <2>1. Owns(k, item, title, given) /\ given \in SUBSET Record
    BY OwnsLess
  <2> QED
    BY <1>2, <2>1, CallModelInv
<1> QED
  BY <1>1, <1>2

LEMMA ArchiveInv ==
  ASSUME GInv, Quiet, NEW k \in Caller, Connected(k), NEW item \in Chat \cup Meeting \cup {None},
         NEW title \in Version, Owns(k, item, title, Record \ hidden),
         ArchiveAnswer(k, item, title)
  PROVE  GInv' /\ KeepsFinal
<1> PICK found \in Retrieved(k) :
       IF found = {} THEN Finish(k, item, title, {}) ELSE AskModel(k, item, title, 1, found)
  BY DEF ArchiveAnswer
<1>1. found \in SUBSET (Record \ hidden) /\ found \in SUBSET Record
  BY DEF Retrieved, Record
<1>2. Owns(k, item, title, found)
  BY <1>1, OwnsLess
<1>3. CASE found = {}
  BY <1>2, <1>3, FinishInv
<1>4. CASE found # {}
  BY <1>1, <1>2, <1>4, AskModelInv
<1> QED
  BY <1>3, <1>4

-----------------------------------------------------------------------------
(* One call of the model. *)

LEMMA Owner ==
  ASSUME GInv, NEW k \in Caller, Calling(k)
  PROVE  /\ Owns(k, call[k].item, call[k].title, call[k].given)
         /\ call[k] \in Work /\ call[k].given \in SUBSET Record
         /\ call[k].item \in Chat \cup Meeting \cup {None} /\ call[k].title \in Version
  BY DEF GInv, Owned, Types, Work

\* The call goes on as it is, with other connections.
LEMMA GoesOn ==
  ASSUME GInv, Quiet, NEW k \in Caller, Calling(k), NEW w \in Work, call' = [call EXCEPT ![k] = w],
         w.at \in {"begin", "lock", "model"}, w.item = call[k].item, w.title = call[k].title,
         w.given = call[k].given, UNCHANGED <<chat, context>>, Roomy'
  PROVE  GInv' /\ KeepsFinal
<1>1. Owns(k, w.item, w.title, w.given)
  BY Owner
<1> QED
  BY <1>1, CallStep DEF GInv, Types, Quiet

LEMMA MovedWork ==
  ASSUME NEW x \in Work, NEW at \in {"idle", "begin", "lock", "model", "wait"}
  PROVE  LET w == [x EXCEPT !.at = at]
         IN  w \in Work /\ w.at = at /\ w.item = x.item /\ w.title = x.title /\ w.given = x.given
  BY DEF Work

LEMMA ConnectInv == GInv /\ (\E k \in Caller : Connect(k)) => GInv' /\ KeepsFinal
<1> SUFFICES ASSUME GInv, NEW k \in Caller, Connect(k) PROVE GInv' /\ KeepsFinal
  OBVIOUS
<1> DEFINE w == [call[k] EXCEPT !.at = "lock"]
<1>1. Calling(k) /\ call[k] \in Work
  BY DEF Connect, Calling, GInv, Types
<1>2. w \in Work /\ w.at = "lock" /\ w.item = call[k].item /\ w.title = call[k].title
      /\ w.given = call[k].given
  BY <1>1, MovedWork
<1>3. call' = [call EXCEPT ![k] = w] /\ UNCHANGED <<chat, context>> /\ Quiet
  BY DEF Connect, Moves
<1> HIDE DEF w
<1>4. call'[k] = w /\ \A j \in Caller \ {k} : call'[j] = call[j]
  BY <1>3 DEF GInv, Types
<1>5. InTransaction(k)' => InTransaction(k)
  BY <1>1 DEF InTransaction
<1>6. \A j \in Caller \ {k} : InTransaction(j)' => InTransaction(j)
  BY <1>4 DEF InTransaction, Calling
<1>7. Roomy'
  BY <1>4, <1>5, <1>6, RoomyOneMore DEF GInv, Connect
<1> QED
  BY <1>1, <1>2, <1>3, <1>7, GoesOn

LEMMA LockModelInv == GInv /\ (\E k \in Caller : LockModel(k)) => GInv' /\ KeepsFinal
<1> SUFFICES ASSUME GInv, NEW k \in Caller, LockModel(k) PROVE GInv' /\ KeepsFinal
  OBVIOUS
<1> DEFINE w == [call[k] EXCEPT !.at = "model"]
<1>1. Calling(k) /\ call[k] \in Work /\ call[k].at = "lock"
  BY DEF LockModel, Calling, GInv, Types
<1>2. w \in Work /\ w.at = "model" /\ w.item = call[k].item /\ w.title = call[k].title
      /\ w.given = call[k].given
  BY <1>1, MovedWork
<1>3. call' = [call EXCEPT ![k] = w] /\ UNCHANGED <<chat, context>> /\ Quiet
  BY DEF LockModel, Moves
<1> HIDE DEF w
<1>4. call'[k] = w /\ \A j \in Caller \ {k} : call'[j] = call[j]
  BY <1>3 DEF GInv, Types
<1>5. InTransaction(k)' => InTransaction(k)
  BY <1>1 DEF InTransaction
<1>6. \A j \in Caller \ {k} : InTransaction(j)' => InTransaction(j)
  BY <1>4 DEF InTransaction, Calling
<1>7. Roomy'
  BY <1>1, <1>4, <1>5, <1>6, RoomyFewer DEF GInv
<1> QED
  BY <1>1, <1>2, <1>3, <1>7, GoesOn

LEMMA RetriedWork ==
  ASSUME NEW x \in Work, x.try # MaxTry
  PROVE  LET w == [x EXCEPT !.at = "begin", !.try = x.try + 1]
         IN  /\ w \in Work /\ w.at = "begin" /\ w.item = x.item
             /\ w.title = x.title /\ w.given = x.given
<1>1. x.try + 1 \in 1..MaxTry
  BY GenerationAssumption DEF Work
<1> QED
  BY <1>1 DEF Work

LEMMA TruncatedInv == GInv /\ (\E k \in Caller : Truncated(k)) => GInv' /\ KeepsFinal
<1> SUFFICES ASSUME GInv, NEW k \in Caller, Truncated(k) PROVE GInv' /\ KeepsFinal
  OBVIOUS
<1>1. Calling(k) /\ Connected(k) /\ Quiet
  BY DEF Truncated, Calling, Connected
<1>2. CASE call[k].try = MaxTry
  BY <1>1, <1>2, Owner, FailInv DEF Truncated
<1>3. CASE call[k].try # MaxTry
  <2> DEFINE w == [call[k] EXCEPT !.at = "begin", !.try = call[k].try + 1]
  <2>1. call[k] \in Work
    BY DEF GInv, Types
  <2>2. w \in Work /\ w.at = "begin" /\ w.item = call[k].item /\ w.title = call[k].title
        /\ w.given = call[k].given
    BY <1>3, <2>1, RetriedWork
  <2>3. call' = [call EXCEPT ![k] = w] /\ UNCHANGED <<chat, context>>
    BY <1>3 DEF Truncated, GInv, Types
  <2> HIDE DEF w
  <2>4. Roomy'
    BY <1>1, <2>2, <2>3, RoomyCall DEF GInv, Types
  <2> QED
    BY <1>1, <2>2, <2>3, <2>4, GoesOn
<1> QED
  BY <1>2, <1>3

LEMMA BrokenInv ==
  ASSUME GInv, NEW k \in Caller, Unreachable(k) \/ Malformed(k) \/ Timeout(k)
  PROVE  GInv' /\ KeepsFinal
<1>1. Calling(k) /\ Connected(k) /\ Quiet /\ Fail(k, call[k].item, "retry")
  BY DEF Unreachable, Malformed, Timeout, Calling, Connected
<1> QED
  BY <1>1, Owner, FailInv

LEMMA SelectedInv == GInv /\ (\E k \in Caller : Selected(k)) => GInv' /\ KeepsFinal
<1> SUFFICES ASSUME GInv, NEW k \in Caller, Selected(k) PROVE GInv' /\ KeepsFinal
  OBVIOUS
<1>1. Calling(k) /\ Connected(k) /\ Quiet
  BY DEF Selected, Calling, Connected
<1> PICK chosen \in SUBSET call[k].given :
       IF chosen = {} THEN Finish(k, call[k].item, call[k].title, {})
       ELSE AskModel(k, call[k].item, call[k].title, 2, chosen)
  BY DEF Selected
<1>2. Owns(k, call[k].item, call[k].title, chosen) /\ chosen \in SUBSET Record
  BY <1>1, Owner, OwnsLess
<1>3. CASE chosen = {}
  BY <1>1, <1>2, <1>3, Owner, FinishInv
<1>4. CASE chosen # {}
  BY <1>1, <1>2, <1>4, Owner, AskModelInv
<1> QED
  BY <1>3, <1>4

LEMMA AnsweredInv == GInv /\ (\E k \in Caller : Answered(k)) => GInv' /\ KeepsFinal
<1> SUFFICES ASSUME GInv, NEW k \in Caller, Answered(k) PROVE GInv' /\ KeepsFinal
  OBVIOUS
<1>1. Calling(k) /\ Connected(k) /\ Quiet
  BY DEF Answered, Calling, Connected
<1> PICK named \in SUBSET Record :
       Finish(k, call[k].item, call[k].title, Cited(k, named))
  BY DEF Answered
<1>2. Cited(k, named) \in SUBSET call[k].given /\ Cited(k, named) \in SUBSET Record
  BY DEF Cited
<1>3. Owns(k, call[k].item, call[k].title, Cited(k, named))
  BY <1>1, <1>2, Owner, OwnsLess
<1> QED
  BY <1>1, <1>2, <1>3, Owner, FinishInv

\* Requests need no rows; an author acts only when it may.
LEMMA FreeOwns ==
  ASSUME NEW k \in Stream \cup Author, Plays(k), NEW given
  PROVE  Owns(k, None, 0, given) /\ k \in Caller /\ 0 \in Version
  BY GenerationAssumption DEF Owns, Caller, Loop, Version

LEMMA FormalizedInv == GInv /\ (\E k \in Author : Formalized(k)) => GInv' /\ KeepsFinal
<1> SUFFICES ASSUME GInv, NEW k \in Author, Formalized(k) PROVE GInv' /\ KeepsFinal
  OBVIOUS
<1>1. Calling(k) /\ Connected(k) /\ Quiet /\ k \in Caller
  BY DEF Formalized, Calling, Connected, Caller
<1>2. Owns(k, None, 0, {}) /\ 0 \in Version
  BY <1>1, Owner, FreeOwns DEF Owns
<1>3. CASE Finish(k, None, 0, {})
  BY <1>1, <1>2, <1>3, FinishInv
<1>4. CASE CallModel(k, None, 0, 2, {})
  BY <1>1, <1>2, <1>4, CallModelInv
<1> QED
  BY <1>3, <1>4 DEF Formalized

LEMMA OpenStreamInv == GInv /\ (\E k \in Stream : OpenStream(k)) => GInv' /\ KeepsFinal
<1> SUFFICES ASSUME GInv, NEW k \in Stream, OpenStream(k) PROVE GInv' /\ KeepsFinal
  OBVIOUS
<1>1. Connected(k) /\ Quiet /\ Plays(k) /\ ArchiveAnswer(k, None, 0)
  BY DEF OpenStream, Connected, Starts
<1> QED
  BY <1>1, FreeOwns, ArchiveInv

LEMMA StartAuthorInv == GInv /\ (\E k \in Author : StartAuthor(k)) => GInv' /\ KeepsFinal
<1> SUFFICES ASSUME GInv, NEW k \in Author, StartAuthor(k) PROVE GInv' /\ KeepsFinal
  OBVIOUS
<1>1. Connected(k) /\ Quiet /\ Plays(k) /\ CallModel(k, None, 0, 1, {})
  BY GenerationAssumption DEF StartAuthor, Connected, Starts, Caller, Loop
<1> QED
  BY <1>1, FreeOwns, CallModelInv

\* A transaction that waits begins or is over.
LEMMA WaitInv ==
  ASSUME GInv, Quiet, NEW k \in Caller, NEW at \in {"idle", "wait"}, Moves(k, at),
         at = "wait" => k \in MaintenanceLoop /\ FreeConnection(k)
  PROVE  GInv' /\ KeepsFinal
<1> DEFINE w == [call[k] EXCEPT !.at = at]
<1>1. call[k] \in Work
  BY DEF GInv, Types
<1>2. w \in Work /\ w.at = at
  <2>1. at \in {"idle", "begin", "lock", "model", "wait"}
    OBVIOUS
  <2> QED
    BY <1>1, <2>1, MovedWork
<1>3. call' = [call EXCEPT ![k] = w] /\ UNCHANGED <<chat, context>>
  BY DEF Moves
<1> HIDE DEF w
<1>4. at = "wait" => k \notin Visitor
  BY GenerationAssumption DEF Loop
<1>5. Roomy'
  <2>1. CASE at = "wait"
    BY <1>2, <1>3, <2>1, RoomyCall DEF Connected, GInv, Types
  <2>2. CASE at = "idle"
    <3>1. call'[k] = w /\ \A j \in Caller \ {k} : call'[j] = call[j]
      BY <1>3 DEF GInv, Types
    <3> QED
      BY <1>2, <2>2, <3>1, RoomyFewer DEF InTransaction, Calling, GInv
  <2> QED
    BY <2>1, <2>2
<1> QED
  BY <1>2, <1>3, <1>4, <1>5, CallStep DEF GInv, Types, Quiet

LEMMA WriteTaskInv == GInv /\ (\E k \in Author : WriteTask(k)) => GInv' /\ KeepsFinal
  BY WaitInv DEF WriteTask, Moves, Caller

LEMMA StartMaintenanceInv ==
  GInv /\ (\E k \in MaintenanceLoop : StartMaintenance(k)) => GInv' /\ KeepsFinal
<1> SUFFICES ASSUME GInv, NEW k \in MaintenanceLoop, StartMaintenance(k) PROVE GInv' /\ KeepsFinal
  OBVIOUS
<1>1. FreeConnection(k) /\ Quiet /\ Moves(k, "wait") /\ k \in Caller
  BY GenerationAssumption DEF StartMaintenance, Starts, Moves, Caller, Loop
<1> QED
  BY <1>1, WaitInv

-----------------------------------------------------------------------------
(* Questions to the archive. *)

LEMMA AskInv == GInv /\ (\E r \in Chat : Ask(r)) => GInv' /\ KeepsFinal
<1> SUFFICES ASSUME GInv, NEW r \in Chat, Ask(r) PROVE GInv' /\ KeepsFinal
  OBVIOUS
<1>1. /\ chat[r].status = "ABSENT" /\ UNCHANGED <<context, call>> /\ Quiet
      /\ chat' = [chat EXCEPT ![r].status = "PENDING", ![r].excluded = hidden]
  BY DEF Ask
<1>2. /\ chat' \in [Chat -> ChatRow] /\ \A s \in Chat \ {r} : chat'[s] = chat[s]
      /\ chat'[r].status = "PENDING" /\ chat'[r].excluded = hidden
      /\ chat'[r].cites = chat[r].cites
  BY <1>1 DEF GInv, Types, ChatRow
<1>3. Types'
  BY <1>1, <1>2, QuietSays DEF GInv, Types, Quiet
<1>4. Roomy'
  BY <1>1, RoomyFewer DEF GInv, InTransaction, Calling
<1>5. Owned'
  BY <1>1, <1>2 DEF GInv, Owned, Owns, Calling, Plays, Quiet
<1>6. Failing'
  BY <1>1, <1>2 DEF GInv, Failing, Plays, Quiet
<1>7. Answers'
  BY <1>1, <1>2 DEF GInv, Answers, Quiet
<1>8. Summaries'
  BY <1>1 DEF GInv, Summaries, Sound, Quiet
<1>9. KeepsFinal
  BY <1>1, <1>2 DEF KeepsFinal
<1> QED
  BY <1>1, <1>3, <1>4, <1>5, <1>6, <1>7, <1>8, <1>9, QuietSays DEF GInv

LEMMA StartChatInv ==
  GInv /\ (\E k \in ChatLoop, r \in Chat : StartChat(k, r)) => GInv' /\ KeepsFinal
<1> SUFFICES ASSUME GInv, NEW k \in ChatLoop, NEW r \in Chat, StartChat(k, r)
             PROVE  GInv' /\ KeepsFinal
  OBVIOUS
<1>1. /\ Plays(k) /\ k \in Caller /\ Connected(k) /\ Quiet /\ ArchiveAnswer(k, r, 0)
      /\ chat[r].status = "PENDING" /\ ~Held(ChatLoop, r)
  BY GenerationAssumption DEF StartChat, Starts, Connected, ReadyChat, Caller, Loop
<1>2. k \notin ContextLoop /\ 0 \in Version
  BY GenerationAssumption DEF Version
<1>3. Owns(k, r, 0, Record \ hidden)
  BY <1>1, <1>2 DEF Owns, Held, GInv, Answers
<1> QED
  BY <1>1, <1>2, <1>3, ArchiveInv

LEMMA RecordChatInv == GInv /\ (\E k \in ChatLoop : RecordChat(k)) => GInv' /\ KeepsFinal
<1> SUFFICES ASSUME GInv, NEW k \in ChatLoop, RecordChat(k) PROVE GInv' /\ KeepsFinal
  OBVIOUS
<1> DEFINE r == call[k].item
           status == IF call[k].why = "retry" THEN "PENDING" ELSE "FAILED"
<1>1. /\ call[k].at = "failed" /\ ~Held(ChatLoop, r) /\ UNCHANGED context /\ Quiet
      /\ call' = [call EXCEPT ![k] = Idle] /\ k \in Caller
      /\ chat' = [chat EXCEPT ![r].status = status, ![r].due = call[k].why # "retry"]
  BY DEF RecordChat, Caller, Loop
<1>2. /\ Plays(k) /\ r \in Chat
      /\ chat[r].status # "PENDING" => \E j \in ChatLoop \ {k} : Plays(j)
  BY <1>1 DEF GInv, Failing
<1>3. /\ status \in {"PENDING", "FAILED"} /\ (status = "FAILED" <=> call[k].why # "retry")
  OBVIOUS
<1> HIDE DEF r, status
<1>4. /\ chat' \in [Chat -> ChatRow] /\ \A s \in Chat \ {r} : chat'[s] = chat[s]
      /\ chat'[r].status = status /\ chat'[r].excluded = chat[r].excluded
      /\ chat'[r].cites = chat[r].cites /\ (status = "FAILED" => chat'[r].due)
  BY <1>1, <1>2, <1>3 DEF GInv, Types, ChatRow
<1>5. /\ call' \in [Caller -> Work] /\ call'[k] = Idle
      /\ \A j \in Caller \ {k} : call'[j] = call[j]
  BY <1>1, IdleWork DEF GInv, Types
<1>6. Types'
  BY <1>1, <1>4, <1>5, QuietSays DEF GInv, Types, Quiet
<1>7. Roomy'
  BY <1>5, IdleWork, RoomyFewer DEF GInv, InTransaction, Calling
<1>8. Owned'
  <2> SUFFICES ASSUME NEW i \in Caller, Calling(i)'
               PROVE  Owns(i, call[i].item, call[i].title, call[i].given)'
    BY DEF Owned
  <2>1. i # k /\ Calling(i) /\ call'[i] = call[i]
    BY <1>5, IdleWork DEF Calling
  <2>2. Owns(i, call[i].item, call[i].title, call[i].given)
    BY <2>1 DEF GInv, Owned
  <2>3. i \in ChatLoop => chat'[call[i].item] = chat[call[i].item]
    BY <1>1, <1>4, <2>1, <2>2 DEF Owns, Held
  <2>4. \A j \in ChatLoop : Calling(j)' => Calling(j) /\ call'[j] = call[j]
    BY <1>5, IdleWork DEF Calling, Caller, Loop
  <2> QED
    BY <1>1, <2>1, <2>2, <2>3, <2>4 DEF Owns, Plays, Quiet
<1>9. Failing'
  <2>1. \A i \in ChatLoop : call'[i].at = "failed" => i # k /\ call'[i] = call[i]
    BY <1>5, IdleWork DEF Caller, Loop
  <2>2. \A i \in ContextLoop : call'[i].at = "failed" => i # k /\ call'[i] = call[i]
    BY <1>5, IdleWork DEF Caller, Loop
  <2>3. \A v \in Visitor : call'[v].at = "wait" => v # k /\ call'[v] = call[v]
    BY <1>5, IdleWork DEF Caller, Loop
  <2> QED
    BY <1>1, <1>2, <1>4, <2>1, <2>2, <2>3 DEF GInv, Failing, Plays, Quiet
<1>10. Answers'
  BY <1>1, <1>3, <1>4 DEF GInv, Answers, Quiet
<1>11. Summaries'
  BY <1>1 DEF GInv, Summaries, Sound, Quiet
<1>12. KeepsFinal
  BY <1>1, <1>2, <1>4, <1>5 DEF KeepsFinal, r
<1> QED
  BY <1>1, <1>6, <1>7, <1>8, <1>9, <1>10, <1>11, <1>12, QuietSays DEF GInv

LEMMA RecordLostInv == GInv /\ (\E k \in Loop : RecordLost(k)) => GInv' /\ KeepsFinal
<1> SUFFICES ASSUME GInv, NEW k \in Loop, RecordLost(k) PROVE GInv' /\ KeepsFinal
  OBVIOUS
<1>1. /\ call' = [call EXCEPT ![k] = Idle] /\ UNCHANGED <<chat, context>> /\ Quiet /\ k \in Caller
  BY DEF RecordLost, Caller
<1>2. call'[k] = Idle /\ \A j \in Caller \ {k} : call'[j] = call[j]
  BY <1>1 DEF GInv, Types
<1>3. Roomy'
  BY <1>2, IdleWork, RoomyFewer DEF GInv, InTransaction, Calling
<1> QED
  BY <1>1, <1>3, IdleWork, CallStep DEF GInv, Types, Quiet

LEMMA BackoffEndsInv == GInv /\ (\E r \in Chat : BackoffEnds(r)) => GInv' /\ KeepsFinal
<1> SUFFICES ASSUME GInv, NEW r \in Chat, BackoffEnds(r) PROVE GInv' /\ KeepsFinal
  OBVIOUS
<1>1. /\ ~chat[r].due /\ UNCHANGED <<context, call>> /\ Quiet
      /\ chat' = [chat EXCEPT ![r].due = TRUE]
  BY DEF BackoffEnds
<1>2. /\ chat' \in [Chat -> ChatRow] /\ \A s \in Chat \ {r} : chat'[s] = chat[s]
      /\ chat'[r].status = chat[r].status /\ chat'[r].excluded = chat[r].excluded
      /\ chat'[r].cites = chat[r].cites /\ chat'[r].due
  BY <1>1 DEF GInv, Types, ChatRow
<1>3. Types'
  BY <1>1, <1>2, QuietSays DEF GInv, Types, Quiet
<1>4. Roomy'
  BY <1>1, RoomyFewer DEF GInv, InTransaction, Calling
<1>5. Owned'
  BY <1>1, <1>2 DEF GInv, Owned, Owns, Calling, Plays, Quiet
<1>6. Failing'
  BY <1>1, <1>2 DEF GInv, Failing, Plays, Quiet
<1>7. Answers'
  BY <1>1, <1>2 DEF GInv, Answers, Quiet
<1>8. Summaries'
  BY <1>1 DEF GInv, Summaries, Sound, Quiet
<1>9. KeepsFinal
  BY <1>1, <1>2 DEF KeepsFinal, GInv, Answers
<1> QED
  BY <1>1, <1>3, <1>4, <1>5, <1>6, <1>7, <1>8, <1>9, QuietSays DEF GInv

-----------------------------------------------------------------------------
(* Contexts of meetings. *)

LEMMA StartContextInv ==
  GInv /\ (\E k \in ContextLoop, m \in Meeting : StartContext(k, m)) => GInv' /\ KeepsFinal
<1> SUFFICES ASSUME GInv, NEW k \in ContextLoop, NEW m \in Meeting, StartContext(k, m)
             PROVE  GInv' /\ KeepsFinal
  OBVIOUS
<1>1. /\ Plays(k) /\ k \in Caller /\ k \notin ChatLoop /\ Connected(k) /\ Quiet
      /\ ArchiveAnswer(k, m, meeting[m].version)
  BY GenerationAssumption DEF StartContext, Starts, Connected, Caller, Loop
<1>2. meeting[m].version \in Version /\ meeting[m].version # 0
      /\ meeting[m].version <= meeting[m].version
  BY GenerationAssumption DEF GInv, Types, MeetingRow, Version
<1>3. Owns(k, m, meeting[m].version, Record \ hidden)
  BY <1>1, <1>2 DEF Owns, GInv, Summaries, Sound
<1> QED
  BY <1>1, <1>2, <1>3, ArchiveInv

\* The rows of contexts change, and whoever generates one keeps its fingerprint.
LEMMA ContextStep ==
  ASSUME GInv, context' \in [Meeting -> ContextRow],
         UNCHANGED <<chat, meeting, today, hidden, scene>>,
         \A m \in Meeting : Sound(context'[m], m),
         \A m \in Meeting : Held(ContextLoop, m) =>
            context'[m].fingerprint = context[m].fingerprint,
         NEW k \in Caller, call' = call \/ call' = [call EXCEPT ![k] = Idle],
         asked' \subseteq Meeting, said' \subseteq Statement, SaidIsCurrent'
  PROVE  GInv' /\ KeepsFinal
<1>1. /\ call' \in [Caller -> Work]
      /\ \A j \in Caller : call'[j] = call[j] \/ (call'[j] = Idle /\ call'[j].at = "idle")
  BY IdleWork DEF GInv, Types
<1>2. Types'
  BY <1>1 DEF GInv, Types
<1>3. Roomy'
  BY <1>1, RoomyFewer DEF GInv, InTransaction, Calling
<1>4. Owned'
  <2> SUFFICES ASSUME NEW i \in Caller, Calling(i)'
               PROVE  Owns(i, call[i].item, call[i].title, call[i].given)'
    BY DEF Owned
  <2>1. Calling(i) /\ call'[i] = call[i]
    BY <1>1 DEF Calling
  <2>2. Owns(i, call[i].item, call[i].title, call[i].given)
    BY <2>1 DEF GInv, Owned
  <2>3. i \in ContextLoop => context'[call[i].item].fingerprint = context[call[i].item].fingerprint
    BY <2>1, <2>2 DEF Owns, Held
  <2>4. \A j \in ChatLoop : Calling(j)' => Calling(j) /\ call'[j] = call[j]
    BY <1>1 DEF Calling, Caller, Loop
  <2> QED
    BY <2>1, <2>2, <2>3, <2>4 DEF Owns, Plays
<1>5. Failing'
  <2>1. \A i \in Caller : call'[i].at \in {"failed", "wait"} => call'[i] = call[i]
    BY <1>1
  <2> QED
    BY <2>1 DEF GInv, Failing, Plays, Caller, Loop
<1>6. Answers' /\ KeepsFinal
  BY DEF GInv, Answers, KeepsFinal
<1>7. Summaries'
  BY DEF Summaries, Sound
<1> QED
  BY <1>2, <1>3, <1>4, <1>5, <1>6, <1>7 DEF GInv

LEMMA RecordContextInv ==
  GInv /\ (\E k \in ContextLoop : RecordContext(k)) => GInv' /\ KeepsFinal
<1> SUFFICES ASSUME GInv, NEW k \in ContextLoop, RecordContext(k) PROVE GInv' /\ KeepsFinal
  OBVIOUS
<1> DEFINE m == call[k].item
<1>1. /\ call[k].at = "failed" /\ UNCHANGED chat /\ Quiet /\ call' = [call EXCEPT ![k] = Idle]
      /\ k \in Caller
      /\ context' = [context EXCEPT ![m].status = "FAILED", ![m].refresh = "none"]
  BY DEF RecordContext, Caller, Loop
<1>2. m \in Meeting
  BY <1>1 DEF GInv, Failing
<1> HIDE DEF m
<1>3. /\ context' \in [Meeting -> ContextRow] /\ \A n \in Meeting \ {m} : context'[n] = context[n]
      /\ context'[m].status = "FAILED" /\ context'[m].fingerprint = context[m].fingerprint
      /\ context'[m].about = context[m].about /\ context'[m].fresh = context[m].fresh
  BY <1>1, <1>2 DEF GInv, Types, ContextRow, ContextStatus, When
<1>4. \A n \in Meeting : Sound(context'[n], n)
  BY <1>3 DEF GInv, Summaries, Sound
<1> QED
  BY <1>1, <1>3, <1>4, QuietSays, ContextStep DEF Quiet, GInv, Types

\* The clock changes nothing else.
LEMMA DueInv ==
  GInv /\ (\E m \in Meeting : NotifyDue(m) \/ RefreshDue(m)) => GInv' /\ KeepsFinal
<1> SUFFICES ASSUME GInv, NEW m \in Meeting, NotifyDue(m) \/ RefreshDue(m) PROVE GInv' /\ KeepsFinal
  OBVIOUS
<1>1. /\ UNCHANGED <<chat, call>> /\ Quiet
      /\ \/ context' = [context EXCEPT ![m].notify = "due"]
         \/ context' = [context EXCEPT ![m].refresh = "due"]
  BY DEF NotifyDue, RefreshDue
<1>2. /\ context' \in [Meeting -> ContextRow] /\ \A n \in Meeting \ {m} : context'[n] = context[n]
      /\ context'[m].status = context[m].status /\ context'[m].fingerprint = context[m].fingerprint
      /\ context'[m].about = context[m].about /\ context'[m].fresh = context[m].fresh
  BY <1>1 DEF GInv, Types, ContextRow, ContextStatus, When
<1>3. \A n \in Meeting : Sound(context'[n], n)
  BY <1>2 DEF GInv, Summaries, Sound
<1>4. Types' /\ Roomy' /\ Owned' /\ Failing'
  <2>1. Types'
    BY <1>1, <1>2, QuietSays DEF GInv, Types, Quiet
  <2>2. Roomy'
    BY <1>1, RoomyFewer DEF GInv, InTransaction, Calling
  <2>3. Owned'
    BY <1>1, <1>2 DEF GInv, Owned, Owns, Calling, Plays, Quiet
  <2>4. Failing'
    BY <1>1 DEF GInv, Failing, Plays, Quiet
  <2> QED
    BY <2>1, <2>2, <2>3, <2>4
<1>5. Answers' /\ KeepsFinal /\ Summaries'
  BY <1>1, <1>3 DEF GInv, Answers, KeepsFinal, Summaries, Sound, Quiet
<1> QED
  BY <1>1, <1>4, <1>5, QuietSays DEF GInv

\* A look at a context brings its fingerprint up to date; a pressed button
\* asks for a new summary.
LEMMA OutdatedRow ==
  ASSUME Types, NEW m \in Meeting, NEW c \in ContextRow, Sound(c, m)
  PROVE  /\ Outdated(c, m) \in ContextRow /\ Sound(Outdated(c, m), m)
         /\ Outdated(c, m).fingerprint = meeting[m].version
<1>1. meeting[m].version \in Version /\ meeting[m].version <= meeting[m].version
  BY GenerationAssumption DEF Types, MeetingRow, Version
<1> DEFINE o == [c EXCEPT !.fingerprint = meeting[m].version, !.status = "NOT_REQUESTED",
                          !.fresh = FALSE, !.refresh = "none", !.notify = "none"]
<1>2. /\ o \in ContextRow /\ o.fingerprint = meeting[m].version /\ ~o.fresh
      /\ o.status = "NOT_REQUESTED"
  BY <1>1 DEF ContextRow, ContextStatus, When
<1>3. Outdated(c, m) = IF c.fingerprint = meeting[m].version THEN c ELSE o
  BY DEF Outdated
<1> HIDE DEF o
<1> QED
  BY <1>1, <1>2, <1>3 DEF Sound

LEMMA NewRow ==
  ASSUME NEW x \in ContextRow, ~x.fresh, NEW f \in Version
  PROVE  LET y == [x EXCEPT !.status = "NOT_REQUESTED", !.fingerprint = f]
         IN  y \in ContextRow /\ ~y.fresh /\ y.status = "NOT_REQUESTED" /\ y.fingerprint = f
  BY DEF ContextRow, ContextStatus

LEMMA VisitedRow ==
  ASSUME GInv, NEW m \in Meeting, NEW press \in BOOLEAN
  PROVE  /\ Visited(m, press) \in ContextRow /\ Sound(Visited(m, press), m)
         /\ Visited(m, press).fingerprint = meeting[m].version
<1> DEFINE new == [NoContext EXCEPT !.status = "NOT_REQUESTED", !.fingerprint = meeting[m].version]
           row == IF context[m].status # "ABSENT" THEN context[m] ELSE new
           c == Outdated(row, m)
           asking == [c EXCEPT !.requested = TRUE, !.status = "PENDING", !.fresh = FALSE,
                               !.refresh = "none", !.notify = "none"]
<1>1. Visited(m, press) = IF press /\ meeting[m].status = "on" THEN asking ELSE c
  BY DEF Visited
<1>2. meeting[m].version \in Version /\ meeting[m].version <= meeting[m].version
  BY GenerationAssumption DEF GInv, Types, MeetingRow, Version
<1>3. new \in ContextRow /\ Sound(new, m)
  <2>1. NoContext \in ContextRow /\ ~NoContext.fresh
    BY GenerationAssumption DEF NoContext, ContextRow, ContextStatus, When, Version
  <2>3. /\ new \in ContextRow /\ ~new.fresh /\ new.status = "NOT_REQUESTED"
        /\ new.fingerprint = meeting[m].version
    BY <1>2, <2>1, NewRow
  <2> HIDE DEF new
  <2> QED
    BY <1>2, <2>3 DEF Sound
<1>4. row \in ContextRow /\ Sound(row, m)
  <2> HIDE DEF new
  <2> QED
    BY <1>3 DEF GInv, Types, Summaries
<1> HIDE DEF row
<1>5. c \in ContextRow /\ Sound(c, m) /\ c.fingerprint = meeting[m].version
  BY <1>4, OutdatedRow DEF GInv
<1> HIDE DEF c
<1>6. /\ asking \in ContextRow /\ ~asking.fresh /\ asking.status = "PENDING"
      /\ asking.fingerprint = c.fingerprint
  BY <1>5 DEF ContextRow, ContextStatus, When
<1> HIDE DEF asking
<1>7. Sound(asking, m)
  BY <1>2, <1>5, <1>6 DEF Sound
<1> QED
  BY <1>1, <1>5, <1>6, <1>7

\* What is read from such a row is current.
LEMMA ViewCurrent ==
  ASSUME GInv, NEW m \in Meeting, NEW row \in ContextRow, Sound(row, m),
         row.fingerprint = meeting[m].version
  PROVE  LET v == View(m, row) IN
         v.status \in {"READY", "EMPTY"} /\ ~v.stale => v.about = v.version
<1>1. row.about \in Int /\ meeting[m].version \in Int
  BY GenerationAssumption DEF GInv, Types, MeetingRow, ContextRow, Version
<1>2. meeting[m].status \notin {"READY", "EMPTY"} \/ meeting[m].status = "on"
  BY DEF GInv, Types, MeetingRow
<1>3. /\ View(m, row).about = row.about /\ View(m, row).version = meeting[m].version
      /\ View(m, row).status = IF meeting[m].status = "on" THEN row.status ELSE meeting[m].status
      /\ ~View(m, row).stale => row.about = 0 \/ row.fresh
  BY Zenon DEF View
<1> QED
  BY <1>1, <1>2, <1>3 DEF Sound

LEMMA ViewType ==
  ASSUME GInv, NEW m \in Meeting, NEW row \in ContextRow
  PROVE  /\ View(m, row) \in Statement /\ View(m, row).kind = "view"
         /\ View(m, row).meeting = m
<1>1. meeting[m].version \in Version /\ meeting[m].status \in {"on", "cancelled", "ended"}
  BY GenerationAssumption DEF GInv, Types, MeetingRow, Version
<1>2. row.status \in ContextStatus /\ row.about \in Version
  BY DEF ContextRow
<1>3. (row.about # 0 /\ ~row.fresh) \in BOOLEAN
  OBVIOUS
<1> QED
  BY <1>1, <1>2, <1>3 DEF View, Statement

LEMMA VisitInv ==
  GInv /\ (\E v \in Visitor, m \in Meeting, why \in {"read", "refresh"} : Visit(v, m, why))
       => GInv' /\ KeepsFinal
<1> SUFFICES ASSUME GInv, NEW v \in Visitor, NEW m \in Meeting, NEW why \in {"read", "refresh"},
                    Visit(v, m, why)
             PROVE  GInv' /\ KeepsFinal
  OBVIOUS
<1> DEFINE w == Ended(Idle, "wait", m, why)
<1>1. /\ v \in Caller /\ Connected(v) /\ call' = [call EXCEPT ![v] = w]
      /\ said' = {} /\ UNCHANGED <<chat, context, meeting, today, hidden, scene>>
      /\ asked' = IF why = "refresh" THEN asked \cup {m} ELSE asked
  BY GenerationAssumption DEF Visit, Starts, Connected, Ended, Caller, Loop
<1> HIDE DEF w
<1>2. w \in Work /\ w.at = "wait" /\ w.item = m
  BY WaitWork, IdleWork DEF w
<1>3. asked' \subseteq Meeting
  BY <1>1 DEF GInv, Types
<1>4. Roomy'
  BY <1>1, <1>2, RoomyCall DEF GInv, Types
<1> QED
  BY <1>1, <1>2, <1>3, <1>4, CallStep DEF GInv

LEMMA ShowContextInv ==
  GInv /\ (\E v \in Visitor : ShowContext(v)) => GInv' /\ KeepsFinal
<1> SUFFICES ASSUME GInv, NEW v \in Visitor, ShowContext(v) PROVE GInv' /\ KeepsFinal
  OBVIOUS
<1> DEFINE m == call[v].item
           row == Visited(m, call[v].why = "refresh")
<1>1. /\ call[v].at = "wait" /\ v \in Caller /\ MayWrite(m, row)
      /\ context' = [context EXCEPT ![m] = row] /\ said' = {View(m, row)}
      /\ call' = [call EXCEPT ![v] = Idle]
      /\ UNCHANGED <<chat, meeting, today, hidden, asked, scene>>
  BY DEF ShowContext, Caller
<1>2. m \in Meeting
  BY <1>1 DEF GInv, Failing
<1>3. row \in ContextRow /\ Sound(row, m) /\ row.fingerprint = meeting[m].version
  BY <1>2, VisitedRow
<1> HIDE DEF m, row
<1>4. /\ context' \in [Meeting -> ContextRow] /\ context'[m] = row
      /\ \A n \in Meeting \ {m} : context'[n] = context[n]
  BY <1>1, <1>2, <1>3 DEF GInv, Types
<1>5. \A n \in Meeting : Sound(context'[n], n)
  BY <1>3, <1>4 DEF GInv, Summaries
<1>6. \A n \in Meeting : Held(ContextLoop, n) => context'[n] = context[n]
  BY <1>1, <1>4 DEF MayWrite
<1>7. said' \subseteq Statement
  BY <1>1, <1>2, <1>3, ViewType
<1>8. SaidIsCurrent'
  BY <1>1, <1>2, <1>3, ViewCurrent DEF SaidIsCurrent
<1>9. asked' \subseteq Meeting
  BY <1>1 DEF GInv, Types
<1> QED
  BY <1>1, <1>4, <1>5, <1>6, <1>7, <1>8, <1>9, ContextStep

-----------------------------------------------------------------------------
(* Maintenance. *)

LEMMA PreparedRow ==
  ASSUME GInv, NEW m \in Meeting
  PROVE  /\ Prepared(m) \in ContextRow /\ Sound(Prepared(m), m)
         /\ Prepared(m).fingerprint = meeting[m].version
<1> DEFINE row == Visited(m, FALSE)
           made == [row EXCEPT !.status = "PENDING"]
<1>1. Prepared(m) = IF row.status = "NOT_REQUESTED" THEN made ELSE row
  BY DEF Prepared
<1>2. row \in ContextRow /\ Sound(row, m) /\ row.fingerprint = meeting[m].version
  BY VisitedRow
<1> HIDE DEF row
<1>3. /\ made \in ContextRow /\ made.status = "PENDING" /\ made.fresh = row.fresh
      /\ made.about = row.about /\ made.fingerprint = row.fingerprint
  BY <1>2 DEF ContextRow, ContextStatus
<1> HIDE DEF made
<1> QED
  BY <1>1, <1>2, <1>3 DEF Sound

\* When it is announced does not matter to what a row says.
LEMMA NotedRow ==
  ASSUME NEW m, NEW c \in ContextRow, Sound(c, m), NEW n \in When
  PROVE  LET x == [c EXCEPT !.notify = n]
         IN  x \in ContextRow /\ Sound(x, m) /\ x.fingerprint = c.fingerprint
<1> DEFINE x == [c EXCEPT !.notify = n]
<1>1. /\ x \in ContextRow /\ x.fingerprint = c.fingerprint /\ x.about = c.about
      /\ x.fresh = c.fresh /\ x.status = c.status
  BY DEF ContextRow
<1> HIDE DEF x
<1>2. Sound(x, m)
  BY <1>1 DEF Sound
<1> QED
  BY <1>1, <1>2 DEF x

LEMMA NoticeType ==
  ASSUME NEW s \in Statement
  PROVE  LET n == [s EXCEPT !.kind = "notice"]
         IN  /\ n \in Statement /\ n.kind = "notice" /\ n.meeting = s.meeting
             /\ n.status = s.status /\ n.about = s.about /\ n.version = s.version
             /\ n.stale = s.stale
  BY DEF Statement

LEMMA MaintainInv ==
  GInv /\ (\E k \in MaintenanceLoop, queued \in BOOLEAN : Maintain(k, queued))
       => GInv' /\ KeepsFinal
<1> SUFFICES ASSUME GInv, NEW k \in MaintenanceLoop, NEW queued \in BOOLEAN, Maintain(k, queued)
             PROVE  GInv' /\ KeepsFinal
  OBVIOUS
<1> DEFINE visits == {m \in today : meeting[m].status = "on"}
           row(m) == IF m \in visits THEN Prepared(m) ELSE context[m]
           ripe == {m \in Meeting : Announced(m, row(m))}
           told == {m \in ripe : meeting[m].status = "on" /\ queued}
           noted(m) == IF m \in told \/ meeting[m].status # "on" THEN "none" ELSE "later"
<1>1. /\ \A m \in visits : MayWrite(m, row(m))
      /\ context' = [m \in Meeting |->
            IF m \notin ripe THEN row(m) ELSE [row(m) EXCEPT !.notify = noted(m)]]
      /\ said' = {[View(m, row(m)) EXCEPT !.kind = "notice"] : m \in told}
      /\ asked' = asked \ told /\ call' = [call EXCEPT ![k] = Idle] /\ k \in Caller
      /\ UNCHANGED <<chat, meeting, today, hidden, scene>>
  BY DEF Maintain, Caller, Loop
<1>2. visits \subseteq Meeting /\ told \subseteq ripe /\ ripe \subseteq Meeting
  BY DEF GInv, Types
<1>3. \A m \in Meeting : row(m) \in ContextRow /\ Sound(row(m), m)
  BY PreparedRow DEF GInv, Types, Summaries
<1>4. \A m \in visits : row(m).fingerprint = meeting[m].version
  BY <1>2, PreparedRow
<1>5. \A m \in Meeting : Held(ContextLoop, m) => m \notin ripe /\ row(m) = context[m]
  BY <1>1 DEF Announced, MayWrite
<1>6. \A m \in told : m \in today => m \in visits
  OBVIOUS
<1>7. \A m \in Meeting : noted(m) \in When
  BY DEF When
<1> HIDE DEF visits, row, ripe, told, noted
<1>8. \A m \in Meeting : LET x == [row(m) EXCEPT !.notify = noted(m)]
                         IN  x \in ContextRow /\ Sound(x, m)
  BY <1>3, <1>7, NotedRow
<1>9. /\ context' \in [Meeting -> ContextRow] /\ \A m \in Meeting : Sound(context'[m], m)
      /\ \A m \in Meeting : Held(ContextLoop, m) => context'[m].fingerprint = context[m].fingerprint
  BY <1>1, <1>3, <1>5, <1>8
<1>10. ASSUME NEW s \in said'
       PROVE  /\ s \in Statement
              /\ s.status \in {"READY", "EMPTY"} /\ ~s.stale
                 /\ (s.kind = "view" \/ s.meeting \in today) => s.about = s.version
  <2> PICK m \in told : s = [View(m, row(m)) EXCEPT !.kind = "notice"]
    BY <1>1
  <2> DEFINE v == View(m, row(m))
  <2>1. m \in Meeting /\ v \in Statement /\ v.meeting = m
    BY <1>2, <1>3, ViewType
  <2>2. m \in visits => (v.status \in {"READY", "EMPTY"} /\ ~v.stale => v.about = v.version)
    BY <2>1, <1>3, <1>4, ViewCurrent
  <2> HIDE DEF v
  <2>3. s = [v EXCEPT !.kind = "notice"]
    BY DEF v
  <2>4. /\ s \in Statement /\ s.kind = "notice" /\ s.meeting = v.meeting
        /\ s.status = v.status /\ s.about = v.about /\ s.version = v.version
        /\ s.stale = v.stale
    BY <2>1, <2>3, NoticeType
  <2> QED
    BY <1>6, <2>1, <2>2, <2>4
<1>11. said' \subseteq Statement /\ SaidIsCurrent'
  BY <1>1, <1>10 DEF SaidIsCurrent
<1>12. asked' \subseteq Meeting
  BY <1>1 DEF GInv, Types
<1> QED
  BY <1>1, <1>9, <1>11, <1>12, ContextStep

-----------------------------------------------------------------------------
(* The calendar, the owner, and processes that die. *)

LEMMA MeetingStepInv ==
  GInv /\ ((\E m \in Meeting, status \in {"on", "cancelled"} : Change(m, status))
           \/ \E m \in Meeting : MeetingEnds(m)) => GInv' /\ KeepsFinal
<1> SUFFICES ASSUME GInv, NEW m \in Meeting, NEW status \in {"on", "cancelled"},
                    Change(m, status) \/ MeetingEnds(m)
             PROVE  GInv' /\ KeepsFinal
  OBVIOUS
<1>1. /\ said' = {} /\ UNCHANGED <<chat, context, today, hidden, call, asked, scene>>
      /\ \/ /\ meeting[m].version < MaxVersion
            /\ meeting' = [meeting EXCEPT ![m] =
                              [version |-> meeting[m].version + 1, status |-> status]]
         \/ meeting' = [meeting EXCEPT ![m].status = "ended"]
  BY DEF Change, MeetingEnds, GInv, Types
<1>2. /\ meeting' \in [Meeting -> MeetingRow]
      /\ \A n \in Meeting : meeting[n].version <= meeting'[n].version
  <2>1. /\ meeting \in [Meeting -> MeetingRow] /\ meeting[m] \in MeetingRow
        /\ \A n \in Meeting : meeting[n].version \in Int
    BY DEF GInv, Types, MeetingRow
  <2>2. PICK x \in MeetingRow :
          meeting' = [meeting EXCEPT ![m] = x] /\ meeting[m].version <= x.version
    <3>1. CASE /\ meeting[m].version < MaxVersion
               /\ meeting' = [meeting EXCEPT ![m] =
                              [version |-> meeting[m].version + 1, status |-> status]]
      <4> DEFINE x == [version |-> meeting[m].version + 1, status |-> status]
      <4>1. x \in MeetingRow /\ meeting[m].version <= x.version
        BY <2>1, <3>1, GenerationAssumption DEF MeetingRow
      <4>2. meeting' = [meeting EXCEPT ![m] = x]
        BY <3>1
      <4> HIDE DEF x
      <4> QED
        BY <4>1, <4>2
    <3>2. CASE meeting' = [meeting EXCEPT ![m].status = "ended"]
      <4> DEFINE x == [meeting[m] EXCEPT !.status = "ended"]
      <4>1. x \in MeetingRow /\ meeting[m].version <= x.version
        BY <2>1 DEF MeetingRow
      <4>2. meeting' = [meeting EXCEPT ![m] = x]
        BY <2>1, <3>2
      <4> HIDE DEF x
      <4> QED
        BY <4>1, <4>2
    <3> QED
      BY <1>1, <3>1, <3>2
  <2> QED
    BY <2>1, <2>2
<1>3. \A n \in Meeting : meeting[n].version \in Int /\ meeting'[n].version \in Int
  BY <1>2 DEF GInv, Types, MeetingRow
<1>4. \A n \in Meeting : context[n].fingerprint \in Int /\ context[n].about \in Int
  BY GenerationAssumption DEF GInv, Types, ContextRow, Version
<1>5. Types' /\ SaidIsCurrent'
  BY <1>1, <1>2 DEF GInv, Types, SaidIsCurrent
<1>6. Roomy'
  BY <1>1, RoomyFewer DEF GInv, InTransaction, Calling
<1>7. Owned'
  <2> SUFFICES ASSUME NEW i \in Caller, Calling(i)
               PROVE  Owns(i, call[i].item, call[i].title, call[i].given)'
    BY <1>1 DEF Owned, Calling
  <2>1. Owns(i, call[i].item, call[i].title, call[i].given) /\ call[i].title \in Int
    BY Owner, GenerationAssumption DEF Version
  <2>2. i \in ContextLoop =>
           call[i].item \in Meeting /\ call[i].title <= meeting[call[i].item].version
    BY <2>1 DEF Owns
  <2>3. i \in ContextLoop => call[i].title <= meeting'[call[i].item].version
    BY <1>2, <1>3, <2>1, <2>2
  <2> QED
    BY <1>1, <2>1, <2>3 DEF Owns, Plays, Calling
<1>8. Failing' /\ Answers' /\ KeepsFinal
  BY <1>1 DEF GInv, Failing, Plays, Answers, KeepsFinal
<1>9. Summaries'
  <2> SUFFICES ASSUME NEW n \in Meeting PROVE Sound(context[n], n)'
    BY DEF Summaries
  <2>1. Sound(context[n], n)
    BY DEF GInv, Summaries
  <2> QED
    BY <1>1, <1>2, <1>3, <1>4, <2>1 DEF Sound
<1> QED
  BY <1>5, <1>6, <1>7, <1>8, <1>9 DEF GInv

LEMMA HideInv == GInv /\ (\E e \in Event : Hide(e)) => GInv' /\ KeepsFinal
<1> SUFFICES ASSUME GInv, NEW e \in Event, Hide(e) PROVE GInv' /\ KeepsFinal
  OBVIOUS
<1>1. /\ said' = {} /\ UNCHANGED <<chat, context, meeting, today, call, asked, scene>>
      /\ hidden' = hidden \cup {e}
  BY DEF Hide
<1>2. Types' /\ SaidIsCurrent'
  BY <1>1 DEF GInv, Types, SaidIsCurrent
<1>3. Roomy'
  BY <1>1, RoomyFewer DEF GInv, InTransaction, Calling
<1>4. Owned'
  BY <1>1 DEF GInv, Owned, Owns, Calling, Plays
<1>5. Failing' /\ Answers' /\ KeepsFinal
  BY <1>1 DEF GInv, Failing, Plays, Answers, KeepsFinal
<1>6. Summaries'
  BY <1>1 DEF GInv, Summaries, Sound
<1> QED
  BY <1>2, <1>3, <1>4, <1>5, <1>6 DEF GInv

LEMMA CrashInv == GInv /\ (\E p \in Process : Crash(p)) => GInv' /\ KeepsFinal
<1> SUFFICES ASSUME GInv, NEW p \in Process, Crash(p) PROVE GInv' /\ KeepsFinal
  OBVIOUS
<1>1. /\ UNCHANGED <<chat, context>> /\ Quiet
      /\ call' = [k \in Caller |-> IF Home[k] = p THEN Idle ELSE call[k]]
  BY DEF Crash
<1>2. /\ call' \in [Caller -> Work]
      /\ \A j \in Caller : call'[j] = call[j] \/ (call'[j] = Idle /\ call'[j].at = "idle")
  BY <1>1, IdleWork DEF GInv, Types
<1>3. Types'
  BY <1>1, <1>2, QuietSays DEF GInv, Types, Quiet
<1>4. Roomy'
  BY <1>2, RoomyFewer DEF GInv, InTransaction, Calling
<1>5. Owned'
  <2> SUFFICES ASSUME NEW i \in Caller, Calling(i)'
               PROVE  Owns(i, call[i].item, call[i].title, call[i].given)'
    BY DEF Owned
  <2>1. Calling(i) /\ call'[i] = call[i]
    BY <1>2 DEF Calling
  <2>2. Owns(i, call[i].item, call[i].title, call[i].given)
    BY <2>1 DEF GInv, Owned
  <2>3. \A j \in ChatLoop : Calling(j)' => Calling(j) /\ call'[j] = call[j]
    BY <1>2 DEF Calling, Caller, Loop
  <2> QED
    BY <1>1, <2>1, <2>2, <2>3 DEF Owns, Plays, Quiet
<1>6. Failing'
  <2>1. \A i \in Caller : call'[i].at \in {"failed", "wait"} => call'[i] = call[i]
    BY <1>2
  <2> QED
    BY <1>1, <2>1 DEF GInv, Failing, Plays, Caller, Loop, Quiet
<1>7. Answers' /\ KeepsFinal /\ Summaries'
  BY <1>1 DEF GInv, Answers, KeepsFinal, Summaries, Sound, Quiet
<1> QED
  BY <1>1, <1>3, <1>4, <1>5, <1>6, <1>7, QuietSays DEF GInv

-----------------------------------------------------------------------------

LEMMA NextInv == GInv /\ [GenerationNext]_generation => GInv' /\ KeepsFinal
<1> SUFFICES ASSUME GInv, [GenerationNext]_generation PROVE GInv' /\ KeepsFinal
  OBVIOUS
<1>1. CASE UNCHANGED generation
  <2>1. UNCHANGED <<chat, context, meeting, today, hidden, call, said, asked, scene>>
    BY <1>1 DEF generation
  <2>2. Roomy'
    BY <2>1, RoomyFewer DEF GInv, InTransaction, Calling
  <2>3. Types' /\ Failing' /\ Answers' /\ SaidIsCurrent' /\ KeepsFinal
    BY <2>1 DEF GInv, Types, Failing, Plays, Answers, SaidIsCurrent, KeepsFinal
  <2>4. Owned' /\ Summaries'
    BY <2>1 DEF GInv, Owned, Owns, Calling, Plays, Summaries, Sound
  <2> QED
    BY <2>2, <2>3, <2>4 DEF GInv
<1>2. CASE GenerationNext
  <2>1. CASE \E k \in Caller : Connect(k) \/ LockModel(k) \/ Truncated(k)
                               \/ Unreachable(k) \/ Malformed(k) \/ Timeout(k)
    BY <2>1, ConnectInv, LockModelInv, TruncatedInv, BrokenInv
  <2>2. CASE (\E k \in Caller : Selected(k)) \/ (\E k \in Caller : Answered(k))
             \/ (\E k \in Author : Formalized(k)) \/ (\E k \in Stream : OpenStream(k))
             \/ (\E k \in Author : StartAuthor(k)) \/ (\E k \in Author : WriteTask(k))
    BY <2>2, SelectedInv, AnsweredInv, FormalizedInv, OpenStreamInv, StartAuthorInv, WriteTaskInv
  <2>3. CASE (\E r \in Chat : Ask(r)) \/ (\E k \in ChatLoop, r \in Chat : StartChat(k, r))
             \/ (\E k \in ChatLoop : RecordChat(k)) \/ (\E k \in Loop : RecordLost(k))
             \/ (\E r \in Chat : BackoffEnds(r))
    BY <2>3, AskInv, StartChatInv, RecordChatInv, RecordLostInv, BackoffEndsInv
  <2>4. CASE (\E k \in ContextLoop, m \in Meeting : StartContext(k, m))
             \/ (\E k \in ContextLoop : RecordContext(k))
             \/ (\E v \in Visitor, m \in Meeting, why \in {"read", "refresh"} : Visit(v, m, why))
             \/ (\E v \in Visitor : ShowContext(v))
    BY <2>4, StartContextInv, RecordContextInv, VisitInv, ShowContextInv
  <2>5. CASE (\E k \in MaintenanceLoop : StartMaintenance(k))
             \/ (\E k \in MaintenanceLoop, queued \in BOOLEAN : Maintain(k, queued))
             \/ (\E m \in Meeting : NotifyDue(m) \/ RefreshDue(m))
    BY <2>5, StartMaintenanceInv, MaintainInv, DueInv
  <2>6. CASE (\E m \in Meeting, status \in {"on", "cancelled"} : Change(m, status))
             \/ (\E m \in Meeting : MeetingEnds(m)) \/ (\E e \in Event : Hide(e))
             \/ (\E p \in Process : Crash(p))
    BY <2>6, MeetingStepInv, HideInv, CrashInv
  <2> QED
    BY <1>2, <2>1, <2>2, <2>3, <2>4, <2>5, <2>6 DEF GenerationNext
<1> QED
  BY <1>1, <1>2

\* No more connections are in use than there are, no answer cites what was excluded
\* from its question, and what is shown as up to date, or announced of today's
\* meetings, is about the meeting as it is.
THEOREM TruthfulAlways == GenerationSpec => []Truthful
<1>1. GenerationSpec => []GInv
  BY InitInv, NextInv, PTL DEF GenerationSpec
<1>2. GInv => Truthful
  BY DEF GInv, Truthful, GenerationOK, Types, Roomy, Answers, ExcludedNotCited
<1> QED
  BY <1>1, <1>2, PTL

\* An answered or a given up question stays so, unless the failure of another worker
\* is written after it.
THEOREM FinalKeptAlways == GenerationSpec => FinalKept
<1>1. GenerationSpec => []GInv
  BY InitInv, NextInv, PTL DEF GenerationSpec
<1>2. GInv /\ [GenerationNext]_generation => [KeepsFinal]_generation
  BY NextInv
<1>3. GenerationSpec => [][KeepsFinal]_generation
  BY <1>1, <1>2, PTL DEF GenerationSpec
<1> QED
  BY <1>3 DEF FinalKept, KeepsFinal
=============================================================================
