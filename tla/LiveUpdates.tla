------------------------------ MODULE LiveUpdates ------------------------------
(***************************************************************************)
(* Live updates (system.go): triggers notify after COMMIT, one goroutine   *)
(* per server process listens and publishes topics to the bounded channels *)
(* of the sockets, each socket batches topics and writes them to its       *)
(* client, which reads the data again.  A browser tab reads at once        *)
(* (realtime.js); the mobile library keeps one event for its application   *)
(* (mobileclient/client.go).                                               *)
(***************************************************************************)
EXTENDS Integers, Sequences, FiniteSets, SequencesExt

CONSTANTS
    Topic,          \* topics of the triggers, without "all" and "status"
    Client,         \* tabs and applications
    Installation,   \* which of them are tabs: a set of functions
    Cap,            \* capacity of a socket's channel (16)
    AllEvery,       \* ticks from one full refresh to the next (15)
    MaxChange,      \* bound: commits
    NoClient

Kind == {"browser", "mobile"}
Signal == Topic \cup {"status", "all"}

ASSUME LiveAssumption ==
    /\ NoClient \notin Client /\ Installation \subseteq [Client -> Kind]
    /\ Topic \cap {"status", "all"} = {}
    /\ Cap \in Nat \ {0, 1} /\ AllEvery \in Nat \ {0} /\ MaxChange \in Nat

VARIABLES
    kind,       \* which clients are tabs, and which applications
    stale,      \* topics whose data changed since the client read it
    pg,         \* notifications on their way to the listener
    conn,       \* the listener's connection is alive
    listener,   \* the listening goroutine
    ready,      \* live.ready
    ticks,      \* idle waits of this connection, modulo AllEvery
    pub,        \* the publish call in progress, which holds live.mu
    sock,       \* the goroutine of each client's socket
    ch,         \* its channel
    batch,      \* topics collected for the next message
    wire,       \* topics written and not yet read by the client
    box,        \* the one event kept for a mobile application
    offline,    \* the mobile application was told it is offline, and polls
    changes     \* commits so far

vars == <<kind, stale, pg, conn, listener, ready, ticks, pub, sock, ch, batch, wire,
          box, offline, changes>>
server == <<pg, conn, listener, ready, ticks>>
socket == <<sock, ch, batch>>
view == <<wire, box, offline>>

NoPub == [topic |-> "none", left |-> {}, full |-> NoClient]
Call == [topic : Signal, left : SUBSET Client, full : Client \cup {NoClient}]
Free == pub = NoPub
Serving == {"loop", "batch", "write"}
Registered == {"joined"} \cup Serving \cup {"leaving"}
Subscriber == {c \in Client : sock[c] \in Registered}

Init ==
    /\ kind \in Installation
    /\ stale = [c \in Client |-> {}]
    /\ pg = <<>> /\ conn = FALSE /\ listener = "down" /\ ready = FALSE /\ ticks = 0
    /\ pub = NoPub
    /\ sock = [c \in Client |-> "off"]
    /\ ch = [c \in Client |-> <<>>] /\ batch = [c \in Client |-> {}]
    /\ wire = [c \in Client |-> {}]
    /\ box = [c \in Client |-> "none"] /\ offline = [c \in Client |-> FALSE]
    /\ changes = 0

(***************************************************************************)
(* The database: the trigger's notification is delivered after COMMIT to a *)
(* connection that listens; identical ones of a transaction are one.       *)
(***************************************************************************)
Data(s) == IF s = "all" THEN Topic \cup {"status"} ELSE {s}

Commit(s) ==
    /\ changes < MaxChange /\ changes' = changes + 1
    /\ stale' = [c \in Client |-> stale[c] \cup Data(s)]
    /\ pg' = IF conn THEN Append(pg, s) ELSE pg
    /\ UNCHANGED <<kind, conn, listener, ready, ticks, pub, socket, view>>

(***************************************************************************)
(* listenChanges.                                                          *)
(***************************************************************************)
Listen ==
    /\ listener = "down"
    /\ listener' = "listening" /\ conn' = TRUE /\ ticks' = 0
    /\ UNCHANGED <<kind, stale, pg, ready, pub, socket, view, changes>>

SetReady ==
    /\ listener = "listening"
    /\ listener' = "ready" /\ ready' = TRUE
    /\ UNCHANGED <<kind, stale, pg, conn, ticks, pub, socket, view, changes>>

\* publish begins: it takes live.mu and looks at the subscribers one by one.
Publish(s) ==
    /\ Free
    /\ pub' = IF Subscriber = {} THEN NoPub ELSE [topic |-> s, left |-> Subscriber, full |-> NoClient]

PublishAll ==
    /\ listener = "ready" /\ listener' = "open"
    /\ Publish("all")
    /\ UNCHANGED <<kind, stale, pg, conn, ready, ticks, socket, view, changes>>

WaitForNotification ==
    /\ listener = "open" /\ conn /\ pg # <<>>
    /\ Publish(Head(pg)) /\ pg' = Tail(pg)
    /\ UNCHANGED <<kind, stale, conn, listener, ready, ticks, socket, view, changes>>

\* 20 seconds without a notification, and the Ping succeeds.
Tick ==
    /\ listener = "open" /\ conn /\ pg = <<>>
    /\ ticks' = (ticks + 1) % AllEvery
    /\ Publish(IF ticks' = 0 THEN "all" ELSE "status")
    /\ UNCHANGED <<kind, stale, pg, conn, listener, ready, socket, view, changes>>

\* The database restarts, or the network fails; what was notified is gone.
Disconnect ==
    /\ conn /\ conn' = FALSE /\ pg' = <<>>
    /\ UNCHANGED <<kind, stale, listener, ready, ticks, pub, socket, view, changes>>

\* The waiting call or the Ping fails.
Unlisten ==
    /\ listener = "open" /\ ~conn /\ Free
    /\ listener' = "down" /\ ready' = FALSE
    /\ UNCHANGED <<kind, stale, pg, conn, ticks, pub, socket, view, changes>>

(***************************************************************************)
(* publish, for one subscriber: the topic if there is room; else the       *)
(* channel is emptied, and "all" put in it, which waits if it is full      *)
(* again.                                                                  *)
(***************************************************************************)
Room(c) == Len(ch[c]) < Cap
Done(c) == IF pub.left = {c} THEN NoPub ELSE [pub EXCEPT !.left = @ \ {c}, !.full = NoClient]

Offer(c) ==
    /\ pub.full = NoClient /\ c \in pub.left /\ Room(c)
    /\ ch' = [ch EXCEPT ![c] = Append(@, pub.topic)]
    /\ pub' = Done(c)
    /\ UNCHANGED <<kind, stale, server, sock, batch, view, changes>>

Drain(c) ==
    /\ pub.full = NoClient /\ c \in pub.left /\ ~Room(c)
    /\ ch' = [ch EXCEPT ![c] = <<>>]
    \* A socket that already waits with its first "all" puts it, and that is drained too.
    /\ \/ sock[c] = "joined" /\ sock' = [sock EXCEPT ![c] = "loop"]
       \/ UNCHANGED sock
    /\ pub' = [pub EXCEPT !.full = c]
    /\ UNCHANGED <<kind, stale, server, batch, view, changes>>

\* Mutant: the topic itself takes the place of those that were dropped.
PutTopic(c) ==
    /\ pub.full = c /\ Room(c)
    /\ ch' = [ch EXCEPT ![c] = Append(@, pub.topic)]
    /\ pub' = Done(c)
    /\ UNCHANGED <<kind, stale, server, sock, batch, view, changes>>

PutAll(c) ==
    /\ pub.full = c /\ Room(c)
    /\ ch' = [ch EXCEPT ![c] = Append(@, "all")]
    /\ pub' = Done(c)
    /\ UNCHANGED <<kind, stale, server, sock, batch, view, changes>>

(***************************************************************************)
(* realtime: one goroutine per socket.                                     *)
(***************************************************************************)
\* The mobile library keeps one event for its application and drops a second (notify).
Note(c, e) == box' = [box EXCEPT ![c] = IF kind[c] = "mobile" /\ @ = "none" THEN e ELSE @]

\* The handshake needs live.ready, and looks at it before anything is registered.
Accept(c) ==
    /\ sock[c] = "off" /\ Free /\ ready
    /\ sock' = [sock EXCEPT ![c] = "accepted"]
    /\ Note(c, "changed")
    /\ UNCHANGED <<kind, stale, server, pub, ch, batch, wire, offline, changes>>

\* The handshake is answered with 503, or the server is not reached.
DialFails(c) ==
    /\ kind[c] = "mobile" /\ sock[c] = "off"
    /\ Note(c, "offline")
    /\ UNCHANGED <<kind, stale, server, pub, socket, wire, offline, changes>>

Join(c) ==
    /\ sock[c] = "accepted" /\ Free
    /\ sock' = [sock EXCEPT ![c] = "joined"]
    /\ ch' = [ch EXCEPT ![c] = <<>>] /\ batch' = [batch EXCEPT ![c] = {}]
    /\ UNCHANGED <<kind, stale, server, pub, view, changes>>

FirstAll(c) ==
    /\ sock[c] = "joined" /\ Room(c)
    /\ ch' = [ch EXCEPT ![c] = Append(@, "all")]
    /\ sock' = [sock EXCEPT ![c] = "loop"]
    /\ UNCHANGED <<kind, stale, server, pub, batch, view, changes>>

Collect(c) ==
    /\ sock[c] \in {"loop", "batch"} /\ ch[c] # <<>>
    /\ batch' = [batch EXCEPT ![c] = @ \cup {Head(ch[c])}]
    /\ ch' = [ch EXCEPT ![c] = Tail(@)]
    /\ sock' = [sock EXCEPT ![c] = "batch"]
    /\ UNCHANGED <<kind, stale, server, pub, view, changes>>

\* Mutant: each further topic starts the 200 ms again.
BatchEndsQuiet(c) ==
    /\ sock[c] = "batch" /\ ch[c] = <<>>
    /\ sock' = [sock EXCEPT ![c] = "write"]
    /\ UNCHANGED <<kind, stale, server, pub, ch, batch, view, changes>>

\* 200 ms later.
BatchEnds(c) ==
    /\ sock[c] = "batch"
    /\ sock' = [sock EXCEPT ![c] = "write"]
    /\ UNCHANGED <<kind, stale, server, pub, ch, batch, view, changes>>

Write(c) ==
    /\ sock[c] = "write"
    /\ wire' = [wire EXCEPT ![c] = @ \cup batch[c]]
    /\ batch' = [batch EXCEPT ![c] = {}]
    /\ sock' = [sock EXCEPT ![c] = "loop"]
    /\ UNCHANGED <<kind, stale, server, pub, ch, box, offline, changes>>

\* The client went away, a write or the wait for its pong failed, or the ticker finds
\* the listener down.  The mobile library reports a loss.
Close(c) ==
    /\ sock[c] \in Serving
    /\ sock' = [sock EXCEPT ![c] = "leaving"]
    /\ wire' = [wire EXCEPT ![c] = {}]
    /\ Note(c, "offline")
    /\ UNCHANGED <<kind, stale, server, pub, ch, batch, offline, changes>>

\* Each 20 seconds: the listener is down.
TickerCloses(c) == ~ready /\ Free /\ sock[c] = "loop" /\ Close(c)

Leave(c) ==
    /\ sock[c] = "leaving" /\ Free
    /\ sock' = [sock EXCEPT ![c] = "off"]
    /\ ch' = [ch EXCEPT ![c] = <<>>] /\ batch' = [batch EXCEPT ![c] = {}]
    /\ UNCHANGED <<kind, stale, server, pub, view, changes>>

(***************************************************************************)
(* The clients.                                                            *)
(***************************************************************************)
Reread(c, signals) ==
    stale' = [stale EXCEPT ![c] = IF "all" \in signals THEN {} ELSE @ \ signals]

\* A browser reads what the message names (onChanged).
BrowserReads(c) ==
    /\ kind[c] = "browser" /\ wire[c] # {}
    /\ Reread(c, wire[c]) /\ wire' = [wire EXCEPT ![c] = {}]
    /\ UNCHANGED <<kind, server, pub, socket, box, offline, changes>>

MobileNotes(c) ==
    /\ kind[c] = "mobile" /\ wire[c] # {}
    /\ wire' = [wire EXCEPT ![c] = {}]
    /\ Note(c, "changed")
    /\ UNCHANGED <<kind, stale, server, pub, socket, offline, changes>>

\* The application takes the event (NextEvent): it reads everything, or falls back to polling.
NextEvent(c) ==
    /\ box[c] # "none"
    /\ box' = [box EXCEPT ![c] = "none"]
    /\ offline' = [offline EXCEPT ![c] = box[c] = "offline"]
    /\ IF box[c] = "changed" THEN Reread(c, {"all"}) ELSE UNCHANGED stale
    /\ UNCHANGED <<kind, server, pub, socket, wire, changes>>

\* Without a socket a tab polls; so does an application that is told it is offline.
Poll(c) ==
    /\ stale[c] # {}
    /\ offline[c] \/ (kind[c] = "browser" /\ sock[c] \in {"off", "leaving"})
    /\ Reread(c, {"all"})
    /\ UNCHANGED <<kind, server, pub, socket, view, changes>>

Publishes == \E c \in Client : Offer(c) \/ Drain(c) \/ PutAll(c)
Listens == Listen \/ SetReady \/ PublishAll \/ WaitForNotification \/ Tick \/ Unlisten
Opens(c) == Accept(c) \/ DialFails(c) \/ Join(c) \/ FirstAll(c) \/ Leave(c)
Serves(c) == Opens(c) \/ Collect(c) \/ BatchEnds(c) \/ Write(c) \/ TickerCloses(c)
Uses(c) == BrowserReads(c) \/ MobileNotes(c) \/ NextEvent(c) \/ Poll(c)

Next ==
    \/ \E s \in Signal : Commit(s)
    \/ Listens \/ Publishes \/ Disconnect
    \/ \E c \in Client : Serves(c) \/ Uses(c) \/ Close(c)

Spec == Init /\ [][Next]_vars

\* The listener retries, time passes, goroutines run, clients read and call again.  Go's
\* select chooses at random among ready cases, and a channel serves its senders in turn.
FairSpec ==
    /\ Spec
    /\ WF_vars(Listens) /\ WF_vars(Publishes)
    /\ \A c \in Client :
        /\ SF_vars(Opens(c)) /\ SF_vars(Collect(c)) /\ WF_vars(BatchEnds(c) \/ Write(c))
        /\ WF_vars(BrowserReads(c) \/ MobileNotes(c)) /\ WF_vars(NextEvent(c)) /\ WF_vars(Poll(c))

(***************************************************************************)
(* Properties.                                                             *)
(***************************************************************************)
\* Every variable keeps its type; a channel never holds more than its capacity.
TypeOK ==
    /\ kind \in Installation
    /\ stale \in [Client -> SUBSET (Topic \cup {"status"})]
    /\ pg \in Seq(Signal) /\ conn \in BOOLEAN /\ ready \in BOOLEAN
    /\ listener \in {"down", "listening", "ready", "open"} /\ ticks \in 0..(AllEvery - 1)
    /\ pub \in {NoPub} \cup Call
    /\ sock \in [Client -> {"off", "accepted"} \cup Registered]
    /\ ch \in [Client -> Seq(Signal)] /\ \A c \in Client : Len(ch[c]) <= Cap
    /\ batch \in [Client -> SUBSET Signal] /\ wire \in [Client -> SUBSET Signal]
    /\ box \in [Client -> {"none", "changed", "offline"}] /\ offline \in [Client -> BOOLEAN]
    /\ changes \in 0..MaxChange

Covers(S, t) == t \in S \/ "all" \in S

\* A signal for t is on its way to the channel of c, or the listener will send "all".
Owed(c, t) ==
    \/ ~conn \/ listener # "open"
    \/ Covers(Range(pg), t)
    \/ pub.full = c
    \/ c \in pub.left /\ Covers({pub.topic}, t)

\* Whatever the order of commits, overflowing channels, lost connections of the listener
\* and reconnecting clients: while a client with an open socket does not know of a
\* change, a signal about it exists somewhere (in the database, the publisher, the
\* channel, the batch, the wire or the mobile library), or the client polls.
SignalKept ==
    \A c \in Client : sock[c] \in Serving => \A t \in stale[c] :
        \/ Owed(c, t)
        \/ Covers(Range(ch[c]), t) \/ Covers(batch[c], t) \/ Covers(wire[c], t)
        \/ box[c] # "none" \/ offline[c]

\* publish holds live.mu; it never waits for a subscriber: after it emptied a full
\* channel there is room for "all", even if the socket's own first "all" came between.
PublisherFree == pub.full # NoClient => Room(pub.full)

\* Each change reaches each client in the end, unless its connection is lost meanwhile.
EventuallyFresh == \A c \in Client : stale[c] # {} ~> (stale[c] = {} \/ sock[c] = "leaving")

=============================================================================
