--------------------------------- MODULE MobileMux ---------------------------------
(***************************************************************************)
(* What phones send through one session of the tunnel (multiplex.go,       *)
(* mobileclient/client.go): each stream of the session is one phone's TLS  *)
(* connection (old applications) or carries a second multiplexer whose     *)
(* streams are its TLS connections.  acceptMobile runs for every stream    *)
(* and hands what it accepts to the HTTP server over an unbuffered         *)
(* channel, until the listener is closed.                                  *)
(***************************************************************************)
EXTENDS Integers

CONSTANTS
    Phone, Old,     \* phones, and those whose application sends plain TLS streams
    Limit           \* streams of one phone that may be open at once (32)

ASSUME MuxAssumption == Limit \in Nat \ {0}

VARIABLES
    alive,      \* the yamux session with the gateway
    listener,   \* the listener of the newest session: none, open, or closed (done)
    conn        \* the stream that carries each phone, and what runs in it

mux == <<alive, listener, conn>>

\* mine: the stream belongs to the newest listener.  open counts the inner streams
\* the phone holds, wait the one acceptMobile is handing over, served those the
\* HTTP server has.
NoConn == [pc |-> "closed", mine |-> FALSE, open |-> 0, wait |-> 0, served |-> 0]
Conn == [pc : {"closed", "backlog", "peek", "run"}, mine : BOOLEAN,
         open : 0 .. Limit + 1, wait : 0 .. 1, served : 0 .. Limit + 1]

Carried(c) == alive /\ c.mine
Set(p, c) == conn' = [conn EXCEPT ![p] = c]

InitMux == alive = FALSE /\ listener = "none" /\ conn = [p \in Phone |-> NoConn]

\* newMobileListener: the streams of an earlier session stay with their listener.
Listen ==
    /\ alive' = TRUE /\ listener' = "open"
    /\ conn' = [p \in Phone |-> [conn[p] EXCEPT !.mine = FALSE]]

\* Close: done is closed and the session with it.
CloseListener == alive' = FALSE /\ listener' = "closed" /\ UNCHANGED conn
\* The gateway or the network drops the session.
Lose == alive /\ alive' = FALSE /\ UNCHANGED <<listener, conn>>

\* run: AcceptStream fails, the listener is closed.
RunEnds == listener = "open" /\ ~alive /\ CloseListener

\* dialInner of a phone whose multiplexer is gone opens a stream through the gateway.
Dial(p) ==
    /\ alive /\ conn[p].pc = "closed"
    /\ Set(p, [NoConn EXCEPT !.pc = "backlog", !.mine = TRUE])
    /\ UNCHANGED <<alive, listener>>

\* run: AcceptStream returns the stream and acceptMobile starts.
AcceptStream(p) ==
    /\ conn[p].pc = "backlog" /\ Carried(conn[p]) /\ listener = "open"
    /\ Set(p, [conn[p] EXCEPT !.pc = "peek"])
    /\ UNCHANGED <<alive, listener>>

\* The first bytes arrive: a TLS stream is handed over as it is, the preface starts
\* the inner multiplexer.
Preface(p) ==
    /\ conn[p].pc = "peek" /\ Carried(conn[p])
    /\ Set(p, IF p \in Old THEN [conn[p] EXCEPT !.pc = "run", !.open = 1, !.wait = 1]
              ELSE [conn[p] EXCEPT !.pc = "run"])
    /\ UNCHANGED <<alive, listener>>

\* Nothing, or something else, arrives within 15 seconds.
PrefaceFails(p) ==
    conn[p].pc = "peek" /\ Set(p, NoConn) /\ UNCHANGED <<alive, listener>>

\* dialInner opens an inner stream for a request.
OpenStream(p) ==
    /\ p \notin Old /\ conn[p].pc = "run" /\ Carried(conn[p]) /\ conn[p].open <= Limit
    /\ Set(p, [conn[p] EXCEPT !.open = @ + 1])
    /\ UNCHANGED <<alive, listener>>

Unseen(c) == c.open - c.wait - c.served

\* acceptMobile takes an inner stream; one too many ends the phone's multiplexer.
TakeStream(p) ==
    /\ p \notin Old /\ conn[p].pc = "run" /\ conn[p].wait = 0 /\ Unseen(conn[p]) > 0
    /\ Carried(conn[p])
    /\ Set(p, IF conn[p].open > Limit THEN NoConn ELSE [conn[p] EXCEPT !.wait = 1])
    /\ UNCHANGED <<alive, listener>>

\* Accept of the HTTP server takes a stream from ready.  Its select may choose a
\* stream that waits even when done is closed.
Accept(p) ==
    /\ conn[p].wait = 1 /\ conn[p].mine /\ listener # "none"
    /\ Set(p, [conn[p] EXCEPT !.wait = 0, !.served = @ + 1])
    /\ UNCHANGED <<alive, listener>>

\* Mutant: deliver waits for the server alone.
UndeliverableNever(p) == FALSE /\ p \in Phone /\ UNCHANGED mux
\* deliver: the listener of this stream is closed.
Undeliverable(p) ==
    /\ conn[p].wait = 1 /\ (~conn[p].mine \/ listener = "closed")
    /\ Set(p, NoConn) /\ UNCHANGED <<alive, listener>>

\* A request ends, or its connection is idle for too long.
EndStream(p) ==
    /\ conn[p].served > 0
    /\ Set(p, IF p \in Old THEN NoConn
              ELSE [conn[p] EXCEPT !.served = @ - 1, !.open = @ - 1])
    /\ UNCHANGED <<alive, listener>>

\* The phone goes away: its stream and all it carries end.
HangUp(p) ==
    /\ conn[p].pc # "closed" /\ conn[p].wait = 0
    /\ Set(p, NoConn) /\ UNCHANGED <<alive, listener>>

\* The session under a stream is gone: reads fail, handlers and acceptMobile end,
\* except one that waits in deliver.
SessionGone(p) ==
    /\ conn[p].pc # "closed" /\ ~Carried(conn[p]) /\ conn[p].wait = 0
    /\ Set(p, NoConn) /\ UNCHANGED <<alive, listener>>

\* What the server does for a phone without the phone.
ServerStep(p) ==
    AcceptStream(p) \/ TakeStream(p) \/ Accept(p) \/ Undeliverable(p) \/ SessionGone(p)
PhoneStep(p) == Dial(p) \/ Preface(p) \/ OpenStream(p) \/ EndStream(p) \/ HangUp(p)
MuxStep == RunEnds \/ \E p \in Phone : ServerStep(p) \/ PhoneStep(p) \/ PrefaceFails(p)

MuxOK ==
    /\ alive \in BOOLEAN /\ listener \in {"none", "open", "closed"}
    /\ conn \in [Phone -> Conn]
    /\ \A p \in Phone : conn[p].wait + conn[p].served <= conn[p].open

\* The server never holds more connections of one phone than the limit.
Bounded == \A p \in Phone : conn[p].wait + conn[p].served <= Limit
====================================================================================
