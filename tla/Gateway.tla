---------------------------------- MODULE Gateway ----------------------------------
(***************************************************************************)
(* The way of a phone to the server through the gateway: registration and  *)
(* outgoing tunnel (GatewayTunnel), and the streams of the session that    *)
(* the tunnel holds (MobileMux).                                           *)
(***************************************************************************)
EXTENDS Integers, GatewayTunnel, MobileMux

CONSTANT Scene      \* bound: what a behaviour is about, a subset of {"admin", "traffic"}

VARIABLE scene

vars == <<gateway, mux, scene>>

\* A behaviour about the traffic begins with a server that is registered.
Init ==
    /\ scene \in Scene /\ InitMux
    /\ \E st \in Starts : InitFrom(st) /\ (scene = "traffic" => st.settings.enabled /\ st.dir = "ready")

Administer ==
    /\ \/ Resume \/ Pause
       \/ scene = "admin" /\ \E replace \in BOOLEAN : Register(replace)
    /\ UNCHANGED <<mux, scene>>
StartUp == (Start \/ LoadLater) /\ UNCHANGED <<mux, scene>>
CallGoesOn == OpStep /\ UNCHANGED <<mux, scene>>
TunnelGoesOn ==
    /\ TunnelStep /\ UNCHANGED scene
    /\ IF tun.pc = "tell" THEN Listen ELSE UNCHANGED mux
NoConnection == DialFails /\ UNCHANGED <<mux, scene>>

\* ctx.Done: the server and its listener are closed.
Cancelled ==
    /\ tun.pc = "serve" /\ tun.stop /\ listener = "open" /\ CloseListener
    /\ UNCHANGED <<gateway, scene>>

\* Serve returns when the listener is closed, and the session with it.
ServeReturns ==
    /\ ServeEnds /\ listener = "closed" /\ UNCHANGED <<mux, scene>>

Drop == tun.pc = "serve" /\ Lose /\ UNCHANGED <<gateway, scene>>

\* The keep-alive request on the control stream fails: the session is given up.
KeepAliveFails ==
    /\ tun.pc = "serve" /\ listener = "open" /\ CloseListener /\ UNCHANGED <<gateway, scene>>

\* Serve takes streams until it has seen done.
Traffic ==
    /\ scene = "traffic" /\ UNCHANGED <<gateway, scene>>
    /\ \E p \in Phone : PhoneStep(p) \/ PrefaceFails(p)
Serves(p) ==
    /\ ServerStep(p) /\ UNCHANGED <<gateway, scene>>
    /\ conn'[p].served > conn[p].served => tun.pc = "serve"
RunReturns == RunEnds /\ UNCHANGED <<gateway, scene>>

Dies ==
    /\ scene = "admin" /\ Crash /\ UNCHANGED scene
    /\ alive' = FALSE /\ listener' = "none" /\ conn' = [p \in Phone |-> NoConn]

Next ==
    \/ Administer \/ StartUp \/ CallGoesOn \/ TunnelGoesOn \/ NoConnection \/ Cancelled
    \/ ServeReturns \/ Drop \/ KeepAliveFails \/ Traffic \/ RunReturns \/ Dies
    \/ \E p \in Phone : Serves(p)

\* What the tunnel does without the gateway: a dial ends by itself once it is cancelled.
TunnelAlone ==
    \/ TunnelGoesOn /\ tun.pc # "dial"
    \/ NoConnection /\ tun.stop
    \/ Cancelled \/ ServeReturns \/ RunReturns

\* Goroutines of the process are scheduled, and Enroll has a time limit.  A dial has none.
Spec ==
    /\ Init /\ [][Next]_vars
    /\ WF_vars(StartUp /\ ~up) /\ WF_vars(CallGoesOn) /\ WF_vars(TunnelAlone)
    /\ \A p \in Phone : WF_vars(Serves(p))

(***************************************************************************)
(* Properties.                                                             *)
(***************************************************************************)
\* Every variable of both components stays in its range.
TypeOK == GatewayOK /\ MuxOK /\ scene \in Scene

\* The gateway is asked at most once for an identifier, across failures, restarts and
\* saves that fail (gateway.go:255, TestGatewayRetryNeverReusesAttemptedUID).
AskedOnce == UidOnce

\* API and workers, which read gateway.json themselves, use one identity
\* (gateway.go:232-233).
OneIdentity == SameIdentity

\* No tunnel of a replaced or paused registration runs after the call that replaced
\* or paused it has been answered (gateway.go:192-203, :285-287).
NoOldTunnel == TunnelMatches

\* One phone holds at most Limit connections of the server (multiplex.go:79).
PhoneBounded == Bounded

\* An active registration is complete at every moment, whatever fails or crashes
\* (gateway.go:232).
AlwaysRegistered == [][Kept]_vars

\* A phone within its limit that stays keeps its connection while the session lasts,
\* whatever other phones do.
OthersKept ==
    [][\A p, q \in Phone :
         p # q /\ Serves(p) /\ conn[p].pc # "closed" /\ conn'[p].pc = "closed"
           => conn'[q] = conn[q]]_vars

\* Who runs is who is registered: one identity, no tunnel of a former one, and
\* no phone that takes more than its share.
OneRegistration == TypeOK /\ OneIdentity /\ NoOldTunnel /\ PhoneBounded

\* What works goes on working while others fail: the active registration while a
\* new one is tried, a phone while others come and go.
Undisturbed == AlwaysRegistered /\ OthersKept

\* Each call ends, also while the gateway is silent: the goroutine it waits for can always
\* report and return.
CallsEnd == op.pc # "idle" ~> op.pc = "idle"

Calm == <>[][~(Administer \/ NoConnection \/ Drop \/ KeepAliveFails \/ Dies)]_vars
\* The gateway answers: a tunnel that dials does not dial for ever.
Answered == tun.pc = "dial" ~> tun.pc # "dial"
Wanted == up /\ disk.enabled /\ mem.enabled /\ Ready(mem)
\* Once the network is back and the gateway answers, an enabled registration is connected,
\* and shown so (connector.go:317-336).
Reconnects == Calm /\ Answered => <>[](Wanted /\ op.pc = "idle" => tun.pc = "serve" /\ shown)

\* Neither the page of the settings nor the tunnel gets stuck.
GatewayLive == CallsEnd /\ Reconnects

\* Nothing of a session outlives it: each of its streams is closed in the end.
StreamsEnd ==
    \A p \in Phone : (conn[p].pc # "closed" /\ ~Carried(conn[p])) ~> ~(conn[p].pc # "closed" /\ ~Carried(conn[p]))
====================================================================================
