------------------------------ MODULE SourceSync ------------------------------
(***************************************************************************)
(* The worker's loop over the sources of correspondence: syncSources       *)
(* (worker.go) with its outer transaction and one inner transaction per    *)
(* source, the heartbeat beside it (source_heartbeat.go), the cursor of a  *)
(* mailbox (mail.go), the renewal of MTS Link tokens in a transaction of   *)
(* its own (mts_sync.go), and the owner's requests (admin.go,              *)
(* connectors.go, mts_auth.go).                                            *)
(*                                                                         *)
(* What another transaction may see changes only with a commit.  The row   *)
(* of a source is locked in three ways: KEY SHARE by the foreign key of a  *)
(* stored letter, NO KEY UPDATE by an UPDATE and by the heartbeat, UPDATE  *)
(* by the renewal, by SSO and by DELETE.                                   *)
(***************************************************************************)
EXTENDS Integers, Sequences, FiniteSets, SequencesExt

CONSTANTS
    Mail,           \* sources with a mailbox and a cursor (IMAP)
    Mts,            \* MTS Link sources: tokens, no cursor
    Worker,         \* processes running the loop
    Checker,        \* requests that test a connection
    Label,          \* the labels the owner may give each source, by rank in the order
                    \* of the database; labels may be equal, no label is the last rank
    Installation,   \* the sources and actors one may have: a set of sets
    Endpoint,       \* mail servers the owner may configure
    FirstValidity,  \* UIDVALIDITY of each endpoint's mailbox at first
    Op,             \* what may happen to each source: see Environment
    Stops,          \* the actors that may stop half-way
    Bodiless,       \* letters a mail server may hand out without a body
    MaxLetter,      \* bound: letters or transcripts of each source
    MaxRenumber,    \* bound: how often each source's UIDs change
    MaxPair,        \* bound: token pairs a provider issues
    MaxLabel,       \* bound: ranks of labels
    NoSource

Source == Mail \cup Mts
Actor == Worker \cup Checker

\* A letter is known by its Message-ID: here the order of its arrival.
Letter == Nat \ {0}

ASSUME SourceAssumption ==
    /\ Mail \cap Mts = {} /\ NoSource \notin Source
    /\ Worker \cap Checker = {}
    /\ Installation \subseteq SUBSET (Source \cup Actor)
    /\ DOMAIN Op = Source /\ Stops \subseteq Actor
    /\ MaxLabel \in Nat /\ Label \in [Source -> SUBSET (0..MaxLabel)]
    /\ Bodiless \subseteq Letter
    /\ Endpoint # {} /\ FirstValidity \in [Endpoint -> Nat \ {0}]
    /\ MaxLetter \in [Source -> Nat] /\ MaxRenumber \in [Source -> Nat]
    /\ MaxPair \in Nat \ {0}

VARIABLES
    row,        \* communication_sources: state, label, endpoint, stored token pair
    cursor,     \* source_cursors of the mailbox; endpoint is history
    events,     \* letters stored for the source
    status,     \* component_statuses of the source
    job,        \* what each worker and each test request is doing
    beat,       \* the heartbeat of each worker's import
    box,        \* the letters of each endpoint; a letter's position is its UID
    validity,   \* UIDVALIDITY of each endpoint
    issued,     \* the pair whose refresh token the provider takes
    live,       \* its access token has not expired
    lost,       \* history: a renewed pair never got to the database
    refused     \* history: the provider refused a refresh token

vars == <<row, cursor, events, status, job, beat, box, validity, issued, live, lost, refused>>
world == <<box, validity>>
provider == <<issued, live, lost, refused>>

NoCursor == [endpoint |-> CHOOSE e \in Endpoint : TRUE, validity |-> 0, last |-> 0]
Silent == [on |-> FALSE, writes |-> NoSource]

\* A worker between passes, a request that has not come.
Idle == [pc |-> "idle", labels |-> [s \in Source |-> 0], todo |-> {}, failed |-> {},
         src |-> NoSource,
         endpoint |-> NoCursor.endpoint, pair |-> 0, retry |-> FALSE,
         list |-> <<>>, got |-> {}, last |-> 0, validity |-> 0]

\* The inner transaction is open and holds the advisory lock of its source.
Inner == {"entered", "loading", "rejected", "exchanging", "exchanged", "panicking"}
PC == Inner \cup {"off", "idle", "listed", "waiting", "failing"}
TestPC == {"off", "idle", "checking", "rejected", "exchanging", "exchanged"}

Row == [state : {"enabled", "disabled", "gone"}, label : 0..MaxLabel, endpoint : Endpoint,
        pair : 1..MaxPair]
Cursor == [endpoint : Endpoint, validity : Nat, last : Nat]

Job == [pc : PC \cup TestPC, labels : [Source -> 0..MaxLabel], todo : SUBSET Source,
        failed : SUBSET Source, src : Source \cup {NoSource}, endpoint : Endpoint, pair : 0..MaxPair,
        retry : BOOLEAN, list : Seq(Letter), got : SUBSET (Endpoint \X Letter),
        last : Nat, validity : Nat]

TypeOK ==
    /\ row \in [Source -> Row]
    /\ cursor \in [Source -> Cursor]
    /\ events \in [Source -> SUBSET (Endpoint \X Letter)]
    /\ status \in [Source -> {"none", "BUSY", "OK", "ERROR"}]
    /\ job \in [Actor -> Job]
    /\ \A a \in Actor : job[a].pc \in IF a \in Worker THEN PC ELSE TestPC
    /\ beat \in [Worker -> [on : BOOLEAN, writes : Source \cup {NoSource}]]
    /\ box \in [Source -> [Endpoint -> Seq(Letter)]]
    /\ validity \in [Source -> [Endpoint -> Nat \ {0}]]
    /\ issued \in [Source -> 1..MaxPair]
    /\ live \in [Source -> BOOLEAN]
    /\ lost \subseteq Mts /\ refused \subseteq Mts

\* Sources an installation does not have are gone, actors it does not have are off.
Init ==
    /\ \E here \in Installation, label \in [Source -> 0..MaxLabel] :
        /\ \A s \in Source : label[s] \in Label[s]
        /\ row = [s \in Source |-> [state |-> IF s \in here THEN "enabled" ELSE "gone",
                                    label |-> label[s], endpoint |-> NoCursor.endpoint,
                                    pair |-> 1]]
        /\ job = [a \in Actor |-> IF a \in here THEN Idle ELSE [Idle EXCEPT !.pc = "off"]]
    /\ cursor = [s \in Source |-> NoCursor]
    /\ events = [s \in Source |-> {}]
    /\ status = [s \in Source |-> "none"]
    /\ beat = [w \in Worker |-> Silent]
    /\ box = [s \in Source |-> [e \in Endpoint |-> <<>>]]
    /\ validity = [s \in Source |-> FirstValidity]
    /\ issued = [s \in Source |-> 1]
    /\ live = [s \in Source |-> TRUE]
    /\ lost = {} /\ refused = {}

------------------------------------------------------------------------------
(* Locks on the row of a source.  An actor's transactions are distinct: the  *)
(* renewal of an import is refused by what the import itself holds.          *)

Importing(w, s) == job[w].src = s /\ job[w].pc \in Inner

\* A stored letter's foreign key.
Shares(a, s) == job[a].src = s /\ job[a].got # {}

\* An error the outer transaction has written, a beat of the heartbeat.
Keeps(a, s) ==
    \/ s \in job[a].failed
    \/ a \in Worker /\ beat[a].writes = s

\* Mutant of Owns: the renewal reads the row without FOR UPDATE.
OwnsNothing(a, s) == FALSE

\* The renewal of the tokens.
Owns(a, s) == job[a].src = s /\ job[a].pc \in {"exchanging", "exchanged"}

CanShare(s) == \A a \in Actor : ~Owns(a, s)
CanUpdate(s) == \A a \in Actor : ~Owns(a, s) /\ ~Keeps(a, s)
CanOwn(s) == \A a \in Actor : ~Owns(a, s) /\ ~Keeps(a, s) /\ ~Shares(a, s)

Goes(a, x) == job' = [job EXCEPT ![a] = x]

\* The inner transaction is over; the outer one goes on.
Listed(j, errors) == [Idle EXCEPT !.pc = "listed", !.labels = j.labels, !.todo = j.todo,
                                  !.failed = errors]

------------------------------------------------------------------------------
(* The loop *)

\* The outer transaction lists the enabled sources with their labels of now.
Listing(due) ==
    [Idle EXCEPT !.pc = "listed", !.todo = due,
                 !.labels = [s \in Source |-> IF s \in due THEN row[s].label ELSE 0]]

\* Those whose interval has passed are due.
Pass(w) ==
    /\ job[w].pc = "idle"
    /\ \E due \in SUBSET {s \in Source : row[s].state = "enabled"} :
        /\ due # {}
        /\ Goes(w, Listing(due))
    /\ UNCHANGED <<row, cursor, events, status, beat, world, provider>>

\* Mutant of NextInTurn: the sources come in any order.
AnyTurn(j, s) == s \in j.todo

\* They come in the order of the labels they were listed with, equal ones in any.
NextInTurn(j, s) == s \in j.todo /\ \A t \in j.todo : j.labels[s] <= j.labels[t]

\* The inner transaction of the next source begins.
Take(w) ==
    /\ job[w].pc = "listed"
    /\ \E s \in Source :
        /\ NextInTurn(job[w], s)
        /\ Goes(w, [job[w] EXCEPT !.pc = "waiting", !.src = s, !.todo = @ \ {s}])
    /\ UNCHANGED <<row, cursor, events, status, beat, world, provider>>

\* It gets the source's advisory lock, reads the row again and starts the heartbeat.
Enter(w) ==
    LET s == job[w].src IN
    /\ job[w].pc = "waiting"
    /\ \A v \in Worker : ~Importing(v, s)
    /\ IF row[s].state = "enabled"
       THEN /\ Goes(w, [job[w] EXCEPT !.pc = "entered", !.endpoint = row[s].endpoint,
                                       !.pair = row[s].pair])
            /\ beat' = [beat EXCEPT ![w].on = TRUE]
       ELSE /\ Goes(w, [job[w] EXCEPT !.pc = "failing"])
            /\ UNCHANGED beat
    /\ UNCHANGED <<row, cursor, events, status, world, provider>>

\* Mutant of ReadFrom: UIDVALIDITY is ignored.
ReadFromLast(c, v) == c.last

\* Where a mailbox is read from: a new UIDVALIDITY voids the cursor.
ReadFrom(c, v) == IF c.validity # 0 /\ c.validity # v THEN 0 ELSE c.last

\* imapSync selects the folder, reads the cursor and searches.
Select(w) ==
    LET s == job[w].src
        e == job[w].endpoint
        from == ReadFrom(cursor[s], validity[s][e]) IN
    /\ job[w].pc = "entered" /\ s \in Mail
    /\ Goes(w, [job[w] EXCEPT !.pc = "loading", !.last = from, !.validity = validity[s][e],
                              !.list = SubSeq(box[s][e], from + 1, Len(box[s][e]))])
    /\ UNCHANGED <<row, cursor, events, status, beat, world, provider>>

\* The provider takes the access token the actor has.
Accepted(a) == job[a].pair = issued[job[a].src] /\ live[job[a].src]

\* mtsSync lists the sessions and their transcripts.
ListTranscripts(w) ==
    LET s == job[w].src IN
    /\ job[w].pc = "entered" /\ s \in Mts /\ Accepted(w)
    /\ Goes(w, [job[w] EXCEPT !.pc = "loading", !.retry = FALSE,
                              !.list = box[s][job[w].endpoint]])
    /\ UNCHANGED <<row, cursor, events, status, beat, world, provider>>

Item(w) == <<job[w].endpoint, Head(job[w].list)>>
Known(w) == Item(w) \in events[job[w].src] \cup job[w].got

\* The head of the list is dealt with; the cursor to be follows it in a mailbox.
Advance(w, got) ==
    Goes(w, [job[w] EXCEPT !.list = Tail(@), !.got = got, !.retry = FALSE,
                           !.last = IF job[w].src \in Mail THEN @ + 1 ELSE 0])

\* A letter is stored unless it is there already.  One that comes without a body
\* is passed over, and a transcript may not be available yet.
Load(w) ==
    LET s == job[w].src IN
    /\ job[w].pc = "loading" /\ job[w].list # <<>>
    /\ \/ Known(w) /\ Advance(w, job[w].got)
       \/ s \in Mail /\ Head(job[w].list) \in Bodiless /\ Advance(w, job[w].got)
       \/ ~Known(w) /\ s \in Mts /\ Accepted(w) /\ Advance(w, job[w].got)
       \/ /\ ~Known(w) /\ (s \in Mail \/ Accepted(w))
          /\ row[s].state # "gone" /\ CanShare(s)
          /\ Advance(w, job[w].got \cup {Item(w)})
    /\ UNCHANGED <<row, cursor, events, status, beat, world, provider>>

\* Mutant of Joined: the heartbeat is cancelled and not waited for.
NotJoined(w) == TRUE

\* stopHeartbeat waits for a beat that is being written.
Joined(w) == beat[w].writes = NoSource

\* Everything is loaded: stop the heartbeat, store cursor, time and status, commit.
Close(w) ==
    LET s == job[w].src IN
    /\ job[w].pc = "loading" /\ job[w].list = <<>>
    /\ Joined(w)
    /\ row[s].state # "gone" /\ CanUpdate(s)
    /\ events' = [events EXCEPT ![s] = @ \cup job[w].got]
    /\ cursor' = IF s \in Mail
                 THEN [cursor EXCEPT ![s] = [endpoint |-> job[w].endpoint,
                                             validity |-> job[w].validity, last |-> job[w].last]]
                 ELSE cursor
    /\ status' = [status EXCEPT ![s] = "OK"]
    /\ beat' = [beat EXCEPT ![w].on = FALSE]
    /\ Goes(w, Listed(job[w], job[w].failed))
    /\ UNCHANGED <<row, world, provider>>

\* The mailbox fails, the row is gone, or a renewed token is rejected again.
Panic(w) ==
    /\ job[w].pc \in {"entered", "loading"}
    /\ Goes(w, [job[w] EXCEPT !.pc = "panicking"])
    /\ UNCHANGED <<row, cursor, events, status, beat, world, provider>>

\* The deferred calls: the heartbeat is joined, then the transaction rolled back.
Unwind(w) ==
    /\ job[w].pc = "panicking" /\ Joined(w)
    /\ Goes(w, [job[w] EXCEPT !.pc = "failing", !.got = {}, !.list = <<>>])
    /\ beat' = [beat EXCEPT ![w].on = FALSE]
    /\ UNCHANGED <<row, cursor, events, status, world, provider>>

\* The outer transaction writes the error and keeps the row; where the row is
\* gone it fails as a whole, with the errors of other sources.
Report(w) ==
    LET s == job[w].src IN
    /\ job[w].pc = "failing"
    /\ IF row[s].state = "gone"
       THEN Goes(w, Idle)
       ELSE CanUpdate(s) /\ Goes(w, Listed(job[w], job[w].failed \cup {s}))
    /\ UNCHANGED <<row, cursor, events, status, beat, world, provider>>

\* The outer transaction commits.
Finish(w) ==
    /\ job[w].pc = "listed" /\ job[w].todo = {}
    /\ status' = [s \in Source |-> IF s \in job[w].failed THEN "ERROR" ELSE status[s]]
    /\ Goes(w, Idle)
    /\ UNCHANGED <<row, cursor, events, beat, world, provider>>

------------------------------------------------------------------------------
(* The heartbeat: a transaction that locks the row, looks, and writes BUSY. *)

Beat(w) ==
    LET s == job[w].src IN
    /\ beat[w].on /\ Joined(w) /\ job[w].pc \in Inner /\ CanUpdate(s)
    /\ beat' = [beat EXCEPT ![w] = IF row[s].state = "enabled"
                                   THEN [on |-> TRUE, writes |-> s] ELSE Silent]
    /\ UNCHANGED <<row, cursor, events, status, job, world, provider>>

BeatCommit(w) ==
    /\ beat[w].writes # NoSource
    /\ status' = [status EXCEPT ![beat[w].writes] = "BUSY"]
    /\ beat' = [beat EXCEPT ![w].writes = NoSource]
    /\ UNCHANGED <<row, cursor, events, job, world, provider>>

------------------------------------------------------------------------------
(* Tokens of MTS Link: a call is rejected, the renewal runs in a transaction *)
(* of its own, the call is repeated once.                                    *)

\* The call fails: an import unwinds, a test answers.
Failed(a) == IF a \in Worker THEN [job[a] EXCEPT !.pc = "panicking"] ELSE Idle

\* Where the call that was rejected stood.
CallOf(a) ==
    IF a \in Checker THEN "checking"
    ELSE IF job[a].list = <<>> THEN "entered" ELSE "loading"

Calls(a) ==
    \/ job[a].pc \in {"entered", "checking"}
    \/ job[a].pc = "loading" /\ job[a].list # <<>> /\ ~Known(a)

Reject(a) ==
    /\ job[a].src \in Mts /\ Calls(a) /\ ~Accepted(a)
    /\ Goes(a, IF job[a].retry THEN Failed(a) ELSE [job[a] EXCEPT !.pc = "rejected"])
    /\ UNCHANGED <<row, cursor, events, status, beat, world, provider>>

\* SELECT ... FOR UPDATE: another actor may have renewed the pair meanwhile.
Rotate(a) ==
    LET s == job[a].src IN
    /\ job[a].pc = "rejected" /\ CanOwn(s)
    /\ \/ row[s].state = "gone" /\ Goes(a, Failed(a))
       \/ /\ row[s].state # "gone" /\ row[s].pair # job[a].pair
          /\ Goes(a, [job[a] EXCEPT !.pc = CallOf(a), !.pair = row[s].pair, !.retry = TRUE])
       \/ /\ row[s].state # "gone" /\ row[s].pair = job[a].pair
          /\ Goes(a, [job[a] EXCEPT !.pc = "exchanging"])
    /\ UNCHANGED <<row, cursor, events, status, beat, world, provider>>

\* AccountUcaas.Refresh; a refresh token is good for one exchange.  The answer,
\* or the call itself, may get lost.
Exchange(a) ==
    LET s == job[a].src IN
    /\ job[a].pc = "exchanging"
    /\ \/ /\ job[a].pair = issued[s] /\ issued[s] < MaxPair
          /\ issued' = [issued EXCEPT ![s] = @ + 1]
          /\ live' = [live EXCEPT ![s] = TRUE]
          /\ \/ /\ Goes(a, [job[a] EXCEPT !.pc = "exchanged", !.pair = issued[s] + 1])
                /\ UNCHANGED lost
             \/ /\ Goes(a, Failed(a))
                /\ lost' = lost \cup {s}
          /\ UNCHANGED refused
       \/ /\ refused' = IF job[a].pair # issued[s] THEN refused \cup {s} ELSE refused
          /\ Goes(a, Failed(a))
          /\ UNCHANGED <<issued, live, lost>>
    /\ UNCHANGED <<row, cursor, events, status, beat, world>>

\* The renewal commits; the call is repeated with the new pair.
Renew(a) ==
    /\ job[a].pc = "exchanged"
    /\ row' = [row EXCEPT ![job[a].src].pair = job[a].pair]
    /\ Goes(a, [job[a] EXCEPT !.pc = CallOf(a), !.retry = TRUE])
    /\ UNCHANGED <<cursor, events, status, beat, world, provider>>

\* POST .../test: a call of the provider outside any pass.
Test(c) ==
    /\ job[c].pc = "idle"
    /\ \E s \in Mts :
        /\ row[s].state # "gone"
        /\ Goes(c, [job[c] EXCEPT !.pc = "checking", !.src = s, !.pair = row[s].pair])
    /\ UNCHANGED <<row, cursor, events, status, beat, world, provider>>

\* It answers; the update of the row that follows leaves nothing modelled here.
TestEnds(c) ==
    /\ job[c].pc = "checking" /\ Accepted(c)
    /\ Goes(c, Idle)
    /\ UNCHANGED <<row, cursor, events, status, beat, world, provider>>

------------------------------------------------------------------------------
(* The owner, the providers, restarts *)

Delete(s) ==
    /\ row[s].state # "gone" /\ CanOwn(s)
    /\ row' = [row EXCEPT ![s].state = "gone"]
    /\ cursor' = [cursor EXCEPT ![s] = NoCursor]
    /\ events' = [events EXCEPT ![s] = {}]
    /\ status' = [status EXCEPT ![s] = "none"]
    /\ UNCHANGED <<job, beat, world, provider>>

\* PUT of a source: another endpoint, or switched on again, voids its cursors; its
\* label may become that of another one.
Configure(s, e, state, label) ==
    /\ row[s].state # "gone" /\ CanUpdate(s)
    /\ s \in Mail \/ e = row[s].endpoint
    /\ row' = [row EXCEPT ![s] = [@ EXCEPT !.endpoint = e, !.state = state, !.label = label]]
    /\ cursor' = IF e # row[s].endpoint \/ (row[s].state = "disabled" /\ state = "enabled")
                 THEN [cursor EXCEPT ![s] = NoCursor] ELSE cursor
    /\ UNCHANGED <<events, status, job, beat, world, provider>>

\* SSO: a new pair, whatever became of the one before, for a row that has not
\* changed since the ticket, which says whether the source is on afterwards.
Login(s, state) ==
    /\ s \in Mts /\ row[s].state # "gone" /\ CanOwn(s) /\ issued[s] < MaxPair
    /\ issued' = [issued EXCEPT ![s] = @ + 1]
    /\ live' = [live EXCEPT ![s] = TRUE]
    /\ row' = [row EXCEPT ![s] = [@ EXCEPT !.pair = issued[s] + 1, !.state = state]]
    /\ lost' = lost \ {s} /\ refused' = refused \ {s}
    /\ UNCHANGED <<cursor, events, status, job, beat, world>>

Expire(s) ==
    /\ s \in Mts /\ row[s].state # "gone" /\ live[s]
    /\ live' = [live EXCEPT ![s] = FALSE]
    /\ UNCHANGED <<row, cursor, events, status, job, beat, world, issued, lost, refused>>

Arrive(s, e) ==
    /\ row[s].state # "gone" /\ (s \in Mail \/ e = row[s].endpoint)
    /\ Len(box[s][e]) < MaxLetter[s]
    /\ box' = [box EXCEPT ![s][e] = Append(@, Len(@) + 1)]
    /\ UNCHANGED <<row, cursor, events, status, job, beat, validity, provider>>

\* The mail server numbers its letters anew.
Renumber(s, e) ==
    /\ s \in Mail /\ row[s].state # "gone"
    /\ validity[s][e] - FirstValidity[e] < MaxRenumber[s]
    /\ validity' = [validity EXCEPT ![s][e] = @ + 1]
    /\ box' = [box EXCEPT ![s][e] = Reverse(@)]
    /\ UNCHANGED <<row, cursor, events, status, job, beat, provider>>

\* A process stops, a client is gone: its transactions are rolled back.
Stop(a) ==
    /\ job[a].pc \notin {"off", "idle"}
    /\ lost' = IF job[a].pc = "exchanged" THEN lost \cup {job[a].src} ELSE lost
    /\ Goes(a, Idle)
    /\ beat' = IF a \in Worker THEN [beat EXCEPT ![a] = Silent] ELSE beat
    /\ UNCHANGED <<row, cursor, events, status, world, issued, live, refused>>

Loop(w) ==
    \/ Pass(w) \/ Take(w) \/ Enter(w) \/ Select(w) \/ ListTranscripts(w) \/ Load(w) \/ Close(w)
    \/ Unwind(w) \/ Report(w) \/ Finish(w)

Call(a) == Reject(a) \/ Rotate(a) \/ Exchange(a) \/ Renew(a)

Environment ==
    \/ \E s \in Source : "delete" \in Op[s] /\ Delete(s)
    \/ \E s \in Source, e \in Endpoint : \E l \in Label[s] :
            "configure" \in Op[s] /\ Configure(s, e, "enabled", l)
    \/ \E s \in Source :
            "disable" \in Op[s] /\ Configure(s, row[s].endpoint, "disabled", row[s].label)
    \/ \E s \in Source, state \in {"enabled", "disabled"} : "login" \in Op[s] /\ Login(s, state)
    \/ \E s \in Source : "expire" \in Op[s] /\ Expire(s)
    \/ \E s \in Source, e \in Endpoint : "renumber" \in Op[s] /\ Renumber(s, e)
    \/ \E a \in Actor : a \in Stops /\ Stop(a)
    \/ \E s \in Source, e \in Endpoint : Arrive(s, e)

Next ==
    \/ \E w \in Worker : Loop(w) \/ Panic(w) \/ Beat(w) \/ BeatCommit(w)
    \/ \E a \in Actor : Call(a)
    \/ \E c \in Checker : Test(c) \/ TestEnds(c)
    \/ Environment

Spec == Init /\ [][Next]_vars

\* A running worker takes its next step, a heartbeat commits, a renewal whose
\* row is free proceeds.
FairSpec ==
    /\ Spec
    /\ \A w \in Worker : WF_vars(Loop(w)) /\ WF_vars(BeatCommit(w))
    /\ \A a \in Actor : WF_vars(Call(a))

------------------------------------------------------------------------------
(* Properties *)

\* The cursor never passes a letter the server handed out and the loader did not
\* store: cursor and letters are one transaction, and a UIDVALIDITY that changed voids
\* the numbers.  A letter that came without a body is passed over: EveryLetter.
LettersKept ==
    \A s \in Mail :
        LET c == cursor[s]
            e == row[s].endpoint IN
        c.endpoint = e /\ c.validity = validity[s][e] =>
            \A i \in 1..c.last :
                box[s][e][i] \notin Bodiless => <<e, box[s][e][i]>> \in events[s]

\* "Stop and join before writing the final status so BUSY cannot overwrite it"
\* (source_heartbeat.go:11): BUSY appears only while an import of the source is open.
StatusFinal ==
    [][\A s \in Source : status'[s] = "BUSY" /\ status[s] # "BUSY"
        => \E w \in Worker : Importing(w, s)]_vars

\* "Serialize with deletion" (source_heartbeat.go:24): neither a heartbeat nor the
\* loop gives a deleted source a status, letters or a cursor again.
DeletedStaysSilent ==
    \A s \in Source : row[s].state = "gone" =>
        status[s] = "none" /\ events[s] = {} /\ cursor[s] = NoCursor

\* The status shown of a source is that of its last import, and a deleted one has none.
StatusKept == []DeletedStaysSilent /\ StatusFinal

\* Actors who meet an expired token together spend its refresh token once: the
\* provider refuses only after an answer or a process was lost on the way.
LoginKept == refused \subseteq lost

\* The outer transactions keep rows of failed sources while inner ones wait for
\* rows and advisory locks, and PostgreSQL does not see that an outer waits for
\* its inner: only the order of the labels can keep workers from a circle.
Awaits(w) ==
    LET s == job[w].src
        final == (job[w].pc = "loading" /\ job[w].list = <<>>) \/ job[w].pc = "failing" IN
    {v \in Worker \ {w} :
        \/ job[w].pc = "waiting" /\ Importing(v, s)
        \/ (final \/ job[w].pc = "rejected") /\ (Owns(v, s) \/ s \in job[v].failed)
        \/ job[w].pc = "rejected" /\ Shares(v, s)}

\* Sources a pass holds or works on.
Met(w) == (job[w].failed \cup {job[w].src}) \ {NoSource}

\* The passes in S read the same label of the same source, and another of another.
OneOrder(S) ==
    \A v, w \in S : \A x \in Met(v), y \in Met(w) :
        job[v].labels[x] = job[w].labels[y] <=> x = y

\* Workers whose passes agree on the order of their sources never wait for each other
\* in a circle (ORDER BY label, worker.go:594).  Labels that are equal, or renamed
\* between two passes, are what this does not cover: NeverACircle.
NoCircle ==
    \A S \in (SUBSET Worker) \ {{}} :
        OneOrder(S) => \E w \in S : Awaits(w) \cap S = {}

\* The same whatever the labels are.  The code does not keep it, a label is neither
\* unique nor fixed: README, "Limits of the code".
NeverACircle == \A S \in (SUBSET Worker) \ {{}} : \E w \in S : Awaits(w) \cap S = {}

\* Every letter the cursor has passed is stored.  The code does not keep it, the loader
\* skips a letter without a body (mail.go:420): README, "Limits of the code".
EveryLetter ==
    \A s \in Mail :
        LET c == cursor[s]
            e == row[s].endpoint IN
        c.endpoint = e /\ c.validity = validity[s][e] =>
            \A i \in 1..c.last : <<e, box[s][e][i]>> \in events[s]

\* preconfiguration.go:35: "A new endpoint needs a fresh synchronization cursor."
\* The code does not keep it: README, "Disagreements found".
FreshCursor == \A s \in Mail : cursor[s] # NoCursor => cursor[s].endpoint = row[s].endpoint

\* README.md:794: after a 401 or 403 the server renews the pair, stores it and
\* repeats the request: a rejected call does not stay rejected for ever.  The code
\* does not keep it: README, "Disagreements found".
Renewed == \A a \in Actor : job[a].pc = "rejected" ~> job[a].pc # "rejected"

=============================================================================
