------------------------------ MODULE AlertOutbox ------------------------------
(***************************************************************************)
(* What the notification outbox promises: an alert waits until an          *)
(* announcement of it was accepted by a device, or until it is worthless   *)
(* (its object is closed, the owner's mode filters it out, or no device it *)
(* was meant for is left).  Batches, retries, expiry, summaries, several   *)
(* workers and crashes are the business of NotificationDispatch, which     *)
(* implements this specification.                                          *)
(***************************************************************************)
EXTENDS Naturals

CONSTANT Alert

VARIABLES
    queued,     \* alerts no batch has picked up
    outgoing,   \* alerts of the batch in flight that no device has accepted
    worthless,  \* alerts that may be forgotten
    answered    \* acceptances so far

outboxVars == <<queued, outgoing, worthless, answered>>

Init == queued = {} /\ outgoing = {} /\ worthless \in SUBSET Alert /\ answered = 0

Judge == worthless' \in SUBSET Alert

Raise(a) ==
    /\ queued' = queued \union {a} /\ Judge
    /\ UNCHANGED <<outgoing, answered>>

\* A batch picks up queued alerts, and may announce again what it had told.
Gather(picked, dropped) ==
    /\ dropped \subseteq worthless
    /\ queued' = queued \ (picked \union dropped)
    /\ outgoing' \in SUBSET Alert /\ outgoing \union picked \subseteq outgoing'
    /\ Judge /\ UNCHANGED answered

Prune(dropped) ==
    /\ dropped \subseteq worthless
    /\ outgoing' = outgoing \ dropped /\ Judge
    /\ UNCHANGED <<queued, answered>>

Announce ==
    /\ answered' \in Nat /\ answered' > answered
    /\ outgoing' \in SUBSET outgoing /\ Judge
    /\ UNCHANGED queued

Reconsider == Judge /\ UNCHANGED <<queued, outgoing, answered>>

Next ==
    \/ \E a \in Alert : Raise(a)
    \/ \E picked \in SUBSET queued, dropped \in SUBSET queued : Gather(picked, dropped)
    \/ \E dropped \in SUBSET outgoing : Prune(dropped)
    \/ Announce
    \/ Reconsider

Spec == Init /\ [][Next]_outboxVars
=============================================================================
