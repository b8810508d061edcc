# A verification project for the AI secretary

TLA+ models of the server in `backend/` and of the setup engine in `windows/`, the TLC runs that check them on small
instances, and TLAPS proofs of their main invariants. Everything is translated
from the Go source and its SQL; paths below are relative to `src/` unless they
name a module. "Server file" means a file of `backend/internal/server/`.

Contents: [the system](#the-system) · [inventory](#inventory) ·
[modules](#modules) · [runs](#runs) · [fairness](#fairness) ·
[proofs](#proofs) · [disagreements found](#disagreements-found) ·
[limits of the code](#limits-of-the-code) · [not modelled](#not-modelled) · [plan](#plan)

## The system

A personal assistant. Loaders bring letters, invitations, meeting transcripts and
external tasks into PostgreSQL; a worker asks a language model about each of them
and stores tasks, delegations, summaries and meeting results; the owner works
with them in a web client and an Android application, and gets push
notifications. Two Go processes run the same binary, `serve` (HTTP) and
`worker`; a restart may overlap two of either. They share nothing but the
database, so all concurrency is the concurrency of transactions: READ COMMITTED,
row locks (`FOR UPDATE`, `SKIP LOCKED`, the `FOR KEY SHARE` of foreign keys), advisory
locks (726941831 for tasks and plans, 2026091101 for the model, one per source), unique keys, and statements with a status
guard.

* `Server.route` (server.go) wraps every changing handler into one transaction
  and adds the notifications it raised at the end. `Server.job` (worker.go) does
  the same for the loops of the worker.
* The worker's loops (`worker.go`, `Worker`) are: events, chat, meeting contexts,
  source synchronisation, maintenance, notifications. Each repeats one job.
* The hooks of `request.insert` and `request.update` (server.go) take the task
  lock before any write to `tasks`, and queue notifications.

## Inventory

For each part: its state; its operations; what is hard; what makes it correct.

**Notification outbox and dispatcher** (notification_policy.go,
notification_transport.go). State: `notification_queue`, one
`notification_policy_state` row, `notification_batches` with items and
deliveries. Operations: `queueNotification` inside business transactions;
`dispatchNotifications`, two transactions under the row lock of the policy
state, the second of which calls the provider while it is open. Hard: a call
that was taken but not answered, a process that dies between the call and the
commit, devices and settings that change between the transactions, expiry and
summaries. Correct when an alert is neither lost nor repeated, an id means one
content, and pushes respect the interval and quiet hours.

**Tasks, reminders, plan of the day** (tasks.go, worker.go `maintenance`).
State: `tasks`, `reminders`, `daily_plans` with items. Operations: create,
PATCH, confirm, complete, reject, list (which ranks), plan, reminders; the
analysis adds and marks tasks; maintenance makes the first plan of the day and
rings reminders; deleting a source cascades. Hard: statuses are read before the
task lock is taken, the analysis asks the model between its reading and its
writing, a rejection locks reminder rows before the task lock. Correct when the
plan lists the active tasks, nothing rings for a closed task, the owner's
decisions stand, and nobody waits in a circle.

**Queue of events** (worker.go `processEvent` and `analyzeEvent`,
reconciliation.go). State: `communication_events` with `analysis_state`,
attempts and times. Operations: load, change, claim, analyse, retry, give up,
take over after 15 minutes, reconcile with saved filters, requeue for a saved
identity, requeue replies (delegations.go). Hard: the claim and the analysis are
two transactions and the failure a third; workers die; rows change meanwhile.
Correct when one worker analyses an event at a time, a stored result is about
the stored content, an event notifies once, and each event gets its turn.

**Model client, chat queue, contexts of meetings** (llm.go, worker.go `processChat`
and `processContext`, archive.go). State: advisory lock 2026091101, taken on a second
connection of the pool while the caller keeps its own; `chat_requests`;
`meeting_contexts` with fingerprint and times. Operations: a call with its attempts;
ask, claim and answer in one transaction, a failure written afterwards without a guard;
press the button, generate, refresh, view, reset by a changed meeting, announce. Hard:
callers hold rows, the task lock and connections while they wait for one more;
archives and meetings change while the model answers; late failures. Correct when no
circle of connections and locks forms, a committed answer stays, each question gets
its turn, and what is shown rests on nothing hidden or outdated.

**Source synchronisation** (worker.go `syncSources`, mail.go, exchange.go,
mts_sync.go, mts_auth.go, connectors.go, source_heartbeat.go). State:
`communication_sources`, `source_cursors`, component status, the tokens a provider
takes. Operations: `syncSources`, one transaction that lists the sources and one
inside it per source; the heartbeat, a transaction beside each import; the renewal
of MTS Link tokens, a transaction inside an import or a connection test; PUT, DELETE
and SSO. Hard: transactions of one process that wait for each other where PostgreSQL
cannot see it; the heartbeat commits beside the import; a refresh token is good
once; UIDVALIDITY; sources deleted or changed under an import. Correct when the
cursor never passes a letter that was not stored, a status outlives neither its
import nor its source, tokens are renewed once and nobody waits for ever.

**Live updates** (system.go, mobileclient/client.go, realtime.js, 0021.sql). State:
the listener's connection, a bounded channel per socket under `live.mu`, a batch per
socket, one kept event in the mobile library. Operations: triggers notify at COMMIT,
listen, publish, register, batch, write, poll. Hard: full channels are emptied for one
"all", the listener reconnects while sockets come and go, the lock is held while
sending. Correct when each change reaches each open client and `publish` never waits.

**Diagnostic reports** (diagnostic_reports.go, diagnostic_delivery.go,
gatewaylink/diagnostics.go). State: drafts in memory under `reports.Lock`,
`diagnostic_reports`, the report at the gateway. Operations: create, prepare, edit,
cancel, send, deliver, poll, delete. Hard: goroutines work on copies of a draft and
write it back; answers of the gateway are lost or late; the process restarts. Correct
when nothing leaves the server unchecked and unconfirmed, and nothing accepted is lost.

**Temporary corrections** (llm_temporary_corrections.go,
llm_temporary_correction_routes.go, diagnostic_recommendations.go). State: rules with
status, text and revision; offers. Operations: receive offers statement by statement;
apply, decline, disable; every call of the model reviews all rules. Hard: all of them
read a rule, decide, and write it later. Correct when a rule has the text the user
agreed to, and one he switched off stays off.

**Gateway** (gateway.go, gatewaylink/connector.go, gatewaylink/multiplex.go). State:
gateway.json, a directory per identity, settings in memory, the goroutine of the
tunnel, the session's listener and the streams of each phone. Operations: register,
register again, pause, resume; dial, serve, reconnect; accept, hand over, close. Hard:
each save and removal may fail, the process may die in between, a pause waits for a
goroutine that wants its lock, streams are delivered while the listener closes. Correct
when an identifier is used once, the active registration is whole at every moment, no
old tunnel survives, calls end, and the tunnel comes back.

**Windows setup engine** (windows/internal/setup, windows/installer.iss). State: files
of secrets, PostgreSQL cluster and schema, certificates, marks of the installation,
services. Operations: prepare (back up), remove, copy, configure, uninstall. Hard: any
command may fail, Windows may restart, and each run begins where the last one broke off.
Correct when data is migrated only after a backup, keys are never replaced under data,
the marks are true, nothing half-configured runs, and repeating leads to the end.

**External tasks** (external.go). State: events of type external_task and their
tasks. Hard: late batches, `close_missing` read before the lock.

**Delegated assignments** (delegations.go, assignment.go and their helpers).
State: `delegations` and their results. Hard: replies analysed before the
assignment is known are queued again.

**Others, without state of this kind:** search, subjects and identity matching;
contracts and domain arithmetic; configuration, preconfiguration and the setup
wizard; mobile identity, QR codes and certificates; document parser; the Android, web
and browser clients; macOS scripts. See `components` in PROJECT.json for each.

## Modules

| module | what it is |
| --- | --- |
| `NotificationDispatch` | the outbox and the two transactions of the dispatcher |
| `AlertOutbox` | what the outbox promises; `NotificationDispatch` implements it |
| `TaskLifecycle` | tasks, reminders and plan under concurrent transactions |
| `EventAnalysis` | the queue of events, its workers, loaders and owner |
| `SourceSync` | the loop over the sources, heartbeats, cursors, tokens and the owner |
| `LiveUpdates` | from the trigger of a table to the screen of a client |
| `Generation` | calls of the model, questions, contexts of meetings, and the pool they share |
| `DiagnosticReports` | a report from its draft to the gateway |
| `Corrections` | rules offered in the replies to a report |
| `Support` | the composition of the two: the row whose deletion takes the offers with it |
| `GatewayTunnel` | registration and the outgoing tunnel |
| `MobileMux` | the streams of phones inside one session of the tunnel |
| `Gateway` | the composition of the two: the session whose end is the listener's |
| `WindowsSetup` | installer and setup engine with their failures |
| `..._proofs` | theorems about `NotificationDispatch`, `TaskLifecycle`, `EventAnalysis`, `SourceSync`, `Support`, `Gateway`, `WindowsSetup`; `Shown_proofs` those about `LiveUpdates` and `Generation` |
| `MC...` | instances of each for TLC: functions a .cfg cannot write, symmetry |

`map` in PROJECT.json names the source lines of every definition. Definitions
whose comment starts with "Mutant" are altered copies of another definition;
no specification uses them: each shows that a property notices the alteration.

### NotificationDispatch

Variables `queue`, `batch`, `nextSend` are the tables; `tx[w]` is the second
transaction of worker `w` while it talks to the provider; `targets`, `relevant`,
`mode`, `quietOn`, `now` are the world; `sent`, `receipts`, `lastPush` record
what happened.

| code | action |
| --- | --- |
| `queueNotification` | `queueNotification` |
| first transaction: nothing but retention | `PreparePostponed` |
| ... nothing to send or no device | `PrepareNothing` |
| ... new batch / summary of an expired one | `PrepareBatch` / `PrepareSummary` |
| second transaction: worthless batch, no transport | `DeliverMoot`, `DeliverWithoutTransport` |
| ... its reads, each call, its commit, its loss | `DeliverBegin`, `Send`, `DeliverCommit`, `DeliverAbort` |

The first transaction has no outside effect and holds the row lock throughout,
so it is one step. A call may be taken and not answered; only answered calls are
marked. Abstractions: one object has one row and is relevant or not whatever the
kind (the code's tests by kind change `relevant` only by the same outside events);
the column `historical` is always false, as `queueNotification` returns before
it could store anything else; ids are pairs of device and serial number
instead of UUIDs; `created_at` order of batches is the order of their numbers.

`AlertOutbox` knows only alerts that are queued or outgoing and a counter of
acceptances. The refinement maps the queue's rows to `queued`, the items of a
batch that no device has accepted to `outgoing`, and everything the dispatcher
may forget to `worthless`.

### TaskLifecycle

An actor is a request, the analysis or the maintenance job; `tx[a]` is its open
transaction. Every transaction first reads, then waits for the task lock
(`LockFree`), and the rest is one unit, because nobody else writes tasks or plans
until it ends. `Commit` makes its writes visible, `Abort` drops them (client
gone, model failed, process stopped, deadlock detected). The analysis keeps the
lock while it asks the model about delegations (`step = "locked"`).

| code | actions |
| --- | --- |
| POST, PATCH, confirm, complete, reject, GET tasks, GET plan | `CreateTask` ... `TodayPlan`, then `RequestWrite` or `RequestGone`, then `Commit` |
| reject's UPDATE of reminders before the lock | `RejectReminders` |
| `analyzeEvent` | `AnalysisRead`, `AnalysisWrite`, `AnalysisRebuild`, `Commit` |
| `maintenance` | `MaintenanceBegin`, `MaintenanceRing`, `Commit` |
| DELETE of a source, midnight, the clock | `DeleteSource`, `NewDay`, `PlanTimeComes`, `ReminderComesDue` |

Abstractions: one reminder per task; due dates and the due-soon and overdue
marks, ranking scores and limits are left out (a plan is the set of active tasks);
the external API's writes are PATCHes; a plan for another date is no plan.

### EventAnalysis

`state`, `attempts`, `due`, `stale`, `content`, `result`, `analyzed`, `byModel`
are columns of `communication_events`; times are reduced to the two comparisons
the query makes (`due`, `stale`). `content` counts versions, `result` is the version
the stored analysis is about. `work[w]` is what a worker does, `RowLocked` the row
lock of its second transaction, `excluded` the events the saved filters match.

| code | actions |
| --- | --- |
| claim, first transaction | `Claim` |
| select the claimed event, locked | `Open`, `LetGo` |
| `analyzeEvent`, commit | `Skip`, `Commit` |
| failure, then its statement | `Fail`, then `ScheduleRetry`, `GiveUp`, `CannotSchedule` |
| a worker dies | `Crash` |
| loaders | `Arrive`, `Change`, `ExternalChange` |
| PUT settings | `SaveFilters` (`reconcileFilters`), `SaveIdentity` (`requeueIdentity`) |

Abstractions: IGNORED and SKIPPED are one state; which events filters match, which
become the owner's with new names and which replies are requeued are free choices;
what an analysis extracts, de-duplicates or adds as evidence is left out; an
outdated archive is one whose `semantic_version` is below 2; deleting a source is
left out. `Kind` is fixed: a letter that changes keeps being a letter or an invitation,
although the loader rewrites `event_type` too (mail.go:327); no property tells a letter
that became an invitation from one that was one from the start.

### SourceSync

`row`, `cursor`, `events` and `status` are what other transactions see of a source: its
row (state, endpoint, stored token pair), its cursor, the letters stored for it, its
component status. `job[a]` is what a worker or a connection test is doing: `todo` and
`failed` belong to the outer transaction, the rest (`src`, the row as it was read,
`list` still to load, `got` stored so far, `last`) to the inner one. `beat[w]` is the
heartbeat, `writes` its open transaction. `box` and `validity` are the mailboxes,
`issued` and `live` the pair MTS Link takes; `lost` and `refused` are history. A row has the
label the owner gave it, as a rank in the order of the database; a pass keeps the labels it
was listed with, and takes equal ones in any order. `Bodiless` are letters that a server
hands out without a body: `Load` passes them over.
Locks are not variables: `Shares`, `Keeps` and `Owns` say who holds the row in which
mode, and `CanShare`, `CanUpdate`, `CanOwn` whether a mode can be had.

| code | actions |
| --- | --- |
| `syncSources`, outer transaction: list, next source, error, commit | `Pass`, `Take`, `Report`, `Finish` |
| inner transaction: advisory lock and row, final writes and commit | `Enter`, `Close` |
| `imapSync`, `mtsSync`: select or list, then each letter | `Select`, `ListTranscripts`, `Load` |
| a panic and the deferred calls | `Panic`, `Unwind` |
| `sourceHeartbeat`: lock and look, commit | `Beat`, `BeatCommit` |
| `mtsJSON`: 401 or 403, `FOR UPDATE`, Refresh, commit | `Reject`, `Rotate`, `Exchange`, `Renew` |
| POST of a connection test | `Test`, `TestEnds` |
| DELETE and PUT of a source, SSO | `Delete`, `Configure`, `Login` |
| servers and processes | `Arrive`, `Renumber`, `Expire`, `Stop` |

Abstractions: one folder per mailbox; a letter is its Message-ID, its position in `box`
the UID, and no letter is older than the first synchronisation reaches back; which
sources are due is any non-empty set of enabled ones, so intervals and the time of the last error are left out; every heartbeat may come at any moment of the
import, the one that opens it included, and one that cannot get the row gives up (its
five seconds) by not happening; an MTS source keeps its base_url (a PUT that changes it
must bring new tokens) and gets tokens by SSO only; a letter already stored is not
updated; the Exchange cursor, which is a time, is left out; a preconfigured source, which
DELETE only switches off, behaves as a deleted one; the update of the row after a
connection test changes columns that are not modelled. `Installation` lists the sources
and actors that exist in one behaviour, so that one run covers several small systems.

### LiveUpdates

`stale[c]` is what client `c` has not read again since it changed; `pg`, `conn`,
`listener`, `ready`, `ticks` are the listening goroutine, `pub` the call of `publish`
that holds `live.mu`, `sock`, `ch`, `batch` one socket's goroutine, `wire`, `box` and
`offline` the client's side.

| code | actions |
| --- | --- |
| triggers of 0021.sql | `Commit` |
| `listenChanges` | `Listen`, `SetReady`, `PublishAll`, `WaitForNotification`, `Tick`, `Disconnect`, `Unlisten` |
| `publish` | `Publish`, then for each subscriber `PutTopic`, or `Drain` and `PutAll` |
| `realtime` | `Accept`, `Join`, `FirstAll`, `Collect`, `BatchEnds`, `Write`, `TickerCloses`, `Close`, `Leave`; `DialFails` |
| realtime.js / mobileclient | `BrowserReads`, `Poll` / `MobileNotes`, `NextEvent` |

Abstractions: a topic is changed or not; deduplication in one transaction is one
notification; pings, limits of clients and the text of events are left out.

### Generation

`call[k]` is what a caller does: it wants the second connection (`begin`), waits there
for the model (`lock`), has it (`model`), waits for a row or the lock of plans with one
connection (`wait`), or has been rolled back and must record its failure (`failed`).
`Connections(p)` counts the connections of a process; it is never more than the pool
gives out. `said` keeps what the last view or notice said of a context.

| code | actions |
| --- | --- |
| `llmAttempt` | `Connect`, `LockModel`, `Truncated`, `Unreachable`, `Malformed`, `Timeout` |
| `archiveAnswer` | `Selected`, `Answered` |
| POST of a question, `processChat` | `Ask`, `StartChat`, `Answered`, `RecordChat` or `RecordLost`, `BackoffEnds` |
| `processContext` | `StartContext`, `Answered`, `RecordContext` |
| `meetingContext`, refresh | `Visit`, `ShowContext` |
| `maintenance` | `StartMaintenance`, `Maintain`, `NotifyDue`, `RefreshDue` |
| task from text, stream | `StartAuthor`, `Formalized`, `WriteTask`; `OpenStream` |
| loaders, analysis, clock, crash | `Change`, `Hide`, `MeetingEnds`, `Crash` |

Abstractions: a transaction that only waits for locks is one step at its end, as it
shows nothing before; what retrieval gives the model is any set of records that are not
hidden; an answer fits or does not; times are none, later or due. The claim of a context
and the meeting it joins are read in one statement.

### DiagnosticReports, Corrections, Support

A content is a version of the draft and the edits a request added to it. `draft` is the
memory, `preparing`, `patch`, `sender[s]`, `delivery[k]`, `poll`, `removal` are the goroutines and
requests that hold copies, `report` the row, `gw` the gateway's. `checked`, `approved`, `got`,
`accepted` are history; `stale` says that an edit was written over a draft it had not
read. In `Corrections`, `row` and `offer` are the tables, `inbox` the replies of support,
`rcv`, `apply`, `disable`, `call` who has read and not yet written, `prompt` the rule the last
call took, `held` the rules support suspended.

| code | actions |
| --- | --- |
| POST, retry, PATCH, cancel, expiry of a draft | `CreateDraft`, `RetryDraft`, `PatchRead`, `PatchFailed`, `PatchWrite`, `CancelDraft`, `ExpireDraft` |
| `prepareDiagnosticDraftAsync` | `Prepared` |
| `sendDiagnosticDraftAsync` | `Send`, `SendRead`, `SendUnchecked`, `SendHidMore`, `SendChecked`, `SendInsert`, `SendNotQueued`, `SendForget` |
| `deliverDiagnostic` and technical reports | `TechnicalSupport`, `RetryDelivery`, `DeliverRead`, `DeliverSend`, `DeliverAnswer`, `DeliverFailed` |
| listing and deleting | `PollRead`, `PollWrite`, `RemoveAtGateway`, `RemoveRow` |
| `receiveDiagnosticRecommendations` | `Open`, `ReceivePending`, `ReceiveRead`, `ReceiveWrite` |
| apply, decline, disable | `ApplyRead`, `ApplyWrite`, `Decline`, `DisableRead`, `DisableWrite` |
| `llmConfig` with its review of the rules | `ReadConfig`, `llmConfig` |

`Support` runs both in one state; `RemoveRow` and `Restart` act on both. A behaviour is
about the report or about its replies (`Scene`), since between the two only that row and
the restart are shared. Abstractions: the redaction of personal data is a check that a
content has passed or not; the gateway's states are three; one report, one type of
request.

### GatewayTunnel, MobileMux, Gateway

`disk` is gateway.json, `dirs` the identities' directories, `mem`, `loaded`, `cancel`, `shown` the
fields under `g.mu`, `op` the call that holds `opMu`, `tun` the goroutine of `Run`, `posts` what
has reached the gateway under each identifier. In `MobileMux`, `alive` is the session, `listener`
its listener, `conn[p]` the stream that carries a phone, with the inner streams it
has open, waiting at `Accept` and served.

| code | actions |
| --- | --- |
| `startGateway`, GET | `Start`, `LoadLater` |
| `registerGateway` | `Register`, `Post`, `Issue` or `EnrollFails`, `GiveUp`, `GiveUpUnsaved`, `KeepActive`, `Discard`; `Switch`, `SwitchFails`, `Switched`, `Clean` |
| pause, resume | `Pause`, `Paused`, `Resume` |
| `Run` and `session` | `ReadFiles`, `DialOut`, `TellUp`, `ServeEnds`, `TellDown`, `Backoff`, and `DialFails`, `KeepAliveFails`, `Cancelled` |
| `newMobileListener`, `run`, `Close` | `Listen`, `AcceptStream`, `RunEnds`, `CloseListener` |
| `acceptMobile`, `Accept`, `deliver` | `Preface`, `PrefaceFails`, `TakeStream`, `Accept`, `Undeliverable`, `SessionGone` |
| `dialInner`, `Request`, `Close` of the phone | `Dial`, `OpenStream`, `EndStream`, `HangUp` |

`Gateway` lets the tunnel's `tell` create the listener, its end close it, and `Serve` take
streams until it has seen `done`. A behaviour is about the administrator and failures or
about traffic. Facts the model keeps: a failed save leaves memory and file apart; a
generated identifier whose first save fails lives in memory only; a dial that the
gateway does not answer goes on until it is cancelled; `Run` that returns
because files are missing leaves `g.cancel` set; a crash during issuance leaves a complete
directory nothing names; more than `Limit` inner streams close all of the phone's; the
worker reads gateway.json itself. Abstractions: certificates are present or not; a save
writes beside and renames, so it happens or fails.

### WindowsSetup

`conn`, `public`, `secret`, `cluster`, `schema`, `certs` are the data directory, `enc` the key the data
was encrypted with, `saved` whether the newest backup holds all that was written,
`installed` and `phase` the marks, `files`, `exes`, `svc`, `auto` the program and its services,
`parts` the four things by which the installer knows a program (pg_dump.exe, its own helper,
the key of the uninstaller in the registry, the uninstaller with its log), `run` the installer
with its step `pc`, its place `i` in a loop over the services, the services that ran (`was`),
those whose start or stop failed (`lost`) and those the restore passed over (`late`). `halted` is
history: what a failed Configure could stop.

| code | actions |
| --- | --- |
| installer.iss | `Begin`, `Delete`, `Copy`, `NoHelper`, `Uninstall` |
| `Prepare` | `HotBackup`, `ColdBackup`, `Quieten`, `StartDatabase`, `BackUp`, `StopDatabase`, `Mark`, `Restore`, `Restored`, `Refuse` |
| `Remove` | `Remove`, `Removed` |
| `Configure` | `CheckRuntime`, `Reconfigure`, `Options`, `Secret`, `StopAll`, `Register`, `InitDb`, `Install`, `StartServer`, `Role`, `Base`, `Migrate`, `StartParser`, `StartApi`, `Certificates`, `Issued`, `StartProxy`, `StartWorker`, `Done`; `Break`, `StopFailed`, `Failed` |
| Windows, the owner, the server | `Restart`, `Stops`, `LoseSecret`, `Write` |

Every command may fail (`Fault`). A stop that fails may go on after the installer has given
up: the service is "stopping", which `serviceState` calls running, until `Stops`. A service
brings up what it needs (`Needs`, the dependencies of ServiceXML), and nothing starts on what
is still stopping. A restart ends the installer, starts the services that Windows starts, with
what they need, and may leave initdb's directory, the certificates, the copying or the deletion
of the program half done. A failed installer takes back the files it was copying (Inno Setup);
one that Windows ended does not.
Abstractions: of the program's files only the parts above matter; each version has its own
schema revision; a migration is one transaction; the Caddyfile exists with whole
certificates; services do not stop by themselves; deletions that Windows puts off until a
restart (`PendingFileRenameOperations`), where the installer asks for the restart, are left out.

## Runs

| run | question | bounds |
| --- | --- | --- |
| nd_rows | are rows, provider and history consistent, whatever devices and workers do? | 1 object, 2 devices that come and go, 2 workers, time 0..5, 2 batches or summaries |
| nd_outbox | is an alert kept until told, are pushes spaced? | 1 object, 1 device that comes and goes, 1 worker, 2 kinds, 2 modes, quiet hours, changing settings and relevance, time 0..4, 2 serials |
| tl_plan | is the committed plan the set of active tasks? are closed tasks left alone by reminders? | 1 mail and 1 manual task, 2 requests that create, complete and reject; reminders |
| tl_live | does every request end, does the plan appear? | 1 mail task, 1 request, every operation but create, source deleted |
| ea_queue | one analyst, fresh result, one announcement, invitations kept | a letter and an invitation, 2 workers, 2 versions, attempts up to 1 |
| ea_live | does each message get its turn, does a dead worker's claim end? | an outgoing letter, its answer and an external task, 1 worker, attempts up to 2 |
| ss_import | is every letter with a body loaded that the cursor passes, do statuses end with their import and source, are tokens renewed once, do workers whose passes agree on the order of the sources never wait in a circle? | a mailbox with 2 letters, one of which may come without a body, and 2 workers; 2 mailboxes and 2 workers that may stop, the second label before or equal to the first, renamed at any time; MTS Link with 1 transcript, 1 worker and 1 connection test, 3 token pairs |
| lu_live | is every change on its way to every open client, and does it arrive? | 1 topic beside status and all, 1 tab or application, channels of 2, a full refresh every 2 ticks, 1 change |
| support | does only what was checked and confirmed leave, is nothing accepted lost but by a restart before it is stored, do rules follow the user? | 1 report with 2 goroutines that send and 1 delivery, 2 versions, 2 sends; 2 rules, 2 texts, 2 replies or changes of settings (of the instructions, of the model, back again), 2 revisions, 1 open transaction of the user, 1 call |
| gen | do all calls, questions and contexts end, and rest on what is true when they are shown? | 2 questions, 1 meeting of 2 versions, 1 event, 1 task; pools of 2 connections in 3 processes; 2 attempts of a cut-off answer; four casts (below) |
| gw | is there one registration, whole at every moment? do calls and reconnections end? | 5 identifiers, 2 faults (failed saves, failed removals, crashes), 2 phones, one with the old application, 2 streams each |
| ws | is data safe, and does the newest version get installed in the end? | 2 versions, 2 faults (failed commands, slow stops, restarts, lost files), fresh and used computers, with and without a proxy |

These runs pass, and they are all the runs of PROJECT.json. The other configurations belong to
[disagreements found](#disagreements-found): TLC ends each with a counterexample. Deadlock checking is off
everywhere: the clocks and counters stop at their bounds, and an installer or a queue may
have nothing left to do.

Why the bounds suffice. In nd_rows two serials let a batch expire and be told again
under new ids, and time 0..5 holds the interval (2), the life of a notice (2), a
retry (1), quiet hours (4..5) and the minutes in between; two devices are needed for
one that accepts and one that fails, two workers for an overlap. In nd_outbox time 0..4
holds two acceptances of the shorter interval and the first quiet minute. `TTL = 2` and
`Interval` 2 and 3 keep the order of the code's five minutes and fifteen. In tl_plan two
tasks and two requests beside analysis and maintenance are one writer more than any
of the races needs: a reader, a writer that commits in between, and the lock holder.
The properties there speak of one task at a time, or of the plan against all of them.
In ea_queue a second worker is what a take-over needs; a third would wait for the same
row. `MaxAttempts` caps a counter that the code does not; attempts matter only in the
order of the queue, which ea_live checks with two values. `MaxContent = 2` allows one
change between claim and commit.
In ss_import two letters are what a cursor needs to pass one and stop before the other;
a mailbox is renumbered once, which reverses its UIDs; two workers are an overlap of a
restart, and two mailboxes the least that two outer transactions can lock crosswise.
The letters of those two matter to none of the locks involved, nor do deletions, so they have
none; two ranks of labels put the second mailbox before the first or beside it, where either
may come first (`MCOp` says what happens to which source). Three token pairs let a pair be
renewed, lost and replaced by SSO. More of a kind would act on rows and locks of their own.
In lu_live a channel of 2 is the smallest `publish` can refill without waiting (16 in the
code; the proofs hold for every capacity above 1), one commit and the status ticks fill
it; clients share nothing but the lock that `publish` holds, and the proofs cover any
number.
In support two senders are a repeated request beside a first one; two versions and two
sends let an edit cross a send and another edit; two rules are the least that can be
several for a type, two revisions what an approval and a later text need. `MaxOpen = 1`
keeps one transaction of the user open beside the receiver and the call.
In gen a pool of 2 is full with one caller that holds a row and one that holds the plan,
where the code has at least four connections (pgxpool: the larger of 4 and the number of
CPUs) and as many kinds of callers. `Cast` divides the actors: two questions and a dying
worker; two workers and a question; the loops, a task from text and a stream in one pool;
a meeting that changes, its contexts, maintenance and a visitor.
In gw two faults are a failed save and a crash after it, five identifiers a registration,
its repetition and those the failed attempts use up; `Limit = 2` stands for 32, and the
phone may open one stream more. In ws two faults are a failure and a failure of what
repairs it, a stop that is late, or a restart; two versions are an upgrade, and a downgrade that is refused.

What the properties say. Each type invariant that is proved is not run again; the others
are a part of a run's invariant.

* `StableNotice`, `AcceptedWasSent`, `NoResend`: the two transactions
  of two workers, lost answers and renewals never mix up ids or acceptances.
* `Spacing`: two acceptances of a device are an interval of some mode apart.
* `QuietAtProvider`: no notice is handed over that lives into quiet hours; true only
  while the settings stand still, as in nd_rows: the stored expiry of a batch does not
  follow quiet hours set after it was prepared (ND_quiet.cfg).
* `AlertKept`: refinement of `AlertOutbox`. An alert may be forgotten when its object is
  closed or filtered out, and when every device its batch was for is gone: an attempt
  drops their deliveries and completes a batch that has none left (notification_policy.go:244-258).
* `PlanMatches`, `RingsOpenTask`: what the task lock buys.
* `EveryRequestEnds`, `PlanReady`: no circle of locks, and the plan does appear.
* `OneAnalyst`, `FreshResult`, `AnnouncedOnce`, `InvitationKept`: what the row lock,
  the guards and the order inside `analyzeEvent` buy.
* `FirstTurn`, `ClaimEnds`: the queue's order is fair, abandoned claims are taken over.
* `LettersKept`: cursor and letters are one transaction and UIDVALIDITY is compared, so
  no restart, failure, deletion or renumbering makes an import skip a letter. A letter that
  comes without a body is skipped by the code itself, and excepted.
* `StatusKept` = `StatusFinal` (the heartbeat is joined before the final status) and
  `DeletedStaysSilent` (it locks the row before it looks): BUSY never stays and nothing of
  a deleted source comes back.
* `LoginKept`: the renewal reads the pair again under the row lock, so two who meet an
  expired token spend its refresh token once.
* `NoCircle`: an outer transaction keeps the rows of sources that failed while its
  inner one waits for the next source; passes that take their sources in one order cannot
  make a circle. That they do take them in one order is a premise (`OneOrder`), which equal
  labels and a rename between two passes break.
* `SignalKept`, `EventuallyFresh`: a full channel loses topics but never the fact that
  something changed; a lost connection of the listener is followed by "all".
* `OnlyApproved`, `DeliveryKept`: copies of a draft are written back late, and still what
  is stored was checked with its edits, each accepted report is a draft or a row until the
  user deletes it, unless a restart dropped it before its INSERT (`dropped`), a draft that is
  prepared or sent has a goroutine that will say how it ended, and what is shown as received
  was accepted with that content. All this holds however copies are written back; only
  `ApprovedOnly`, that the stored text is the one confirmed, is stated for behaviours in which
  no edit was written over a draft it had not read (`stale`), since it is false otherwise.
* `ConsentMatches`, `ManualStays`: approvals belong to one text and revision; switched off
  stays off, whatever the other readers of the row write later.
* `Truthful`: no answer cites what was hidden before it was asked or what the model was
  not given, no view or notice of today shows an outdated context as up to date, and the
  pool is never exceeded.
* `FinalKept`: a committed answer changes only through a second worker whose failure is
  recorded late. `EveryCallEnds`, `EveryQuestionEnds`: the circle of pool, model lock, rows and
  plan lock is always broken by the timeout of an attempt, and questions take turns.
* `AskedOnce`: an identifier reaches the gateway once, whatever fails. `OneRegistration`:
  memory, file and tunnel agree, no phone exceeds its share. `Undisturbed`: neither failing
  registrations nor other phones disturb what works (that phones do not disturb each other is
  plain from the code: a connection is a listener's own). `GatewayLive`: calls end even if the
  gateway never answers a dial, and when the network calms down and dials are answered an
  enabled registration is connected. `StreamsEnd`: no stream outlives
  its session.
* `KeysMatch`: see the comment in `WindowsSetup`. `MarksTrue`: the marks are true, and what a
  failed Configure could stop stays stopped, also when Windows restarts; what could not be
  stopped, or not be set to start by hand, goes on with all it needs. `UpgradeSafe`: data is
  migrated only after a backup of all of it, and a failed backup starts again what had been
  running, except a service whose start fails as well (`lost`) and one that is passed over
  because its stop, or that of something it needs, is not over yet (`late`). `Completes`: with a
  user who repeats, and removes the program when the backup fails, the newest version is
  installed unless something is `Damaged` that only a backup repairs, or the deleting or
  copying of a program was cut off where no repetition gets out (`Stuck`).

## Fairness

`TaskLifecycle!FairSpec`: PostgreSQL queues the waiters of a lock and grants it in
turn, so a transaction whose lock is free again and again gets it (SF on each
request's steps and on the steps of maintenance); each call of the model has a timeout,
so the analysis gets on (SF on its end). Nothing is assumed of new requests, of the
owner or of the clock. SF on `MaintenanceBegin` and its commit says that a job which
is repeated every half minute does not fail for ever.

`EventAnalysis!FairSpec`: a running loop takes its next step (WF on `EventsLoop`), and
time passes (WF on `BackoffEnds` and `ClaimAges`). No fairness says that the model
succeeds or that workers stop dying: `FirstTurn` holds although a letter fails for
ever. `ClaimEnds` has the premise `Recovered`: what is taken, opened and analysed
again and again is in the end taken, opened and finished. Without it an event whose
analysis kills every worker stays in PROCESSING, as it does in the code. The premise
also speaks of taking because attempts are capped here: in the code a loser of the order
has fewer attempts than its rival sooner or later, at the cap the two are equal.

`SourceSync!FairSpec`: a running worker takes its next step (WF on `Loop`), a heartbeat
commits, and a renewal whose row is free goes on (WF on `Call`). It is stated for
`Renewed`, which fails although all of this is granted: the renewal is never enabled.

`LiveUpdates!FairSpec`: the listener retries every second, timers fire, goroutines run (WF);
Go's select chooses at random among what is ready and a channel serves its senders in
turn, so a socket collects and registers in the end (SF on `Collect` and `Opens`). Clients
read what arrives and poll when offline (WF).

`Generation!Fairness`: each attempt of a call ends by its timeout at the latest
(WF on `Timeout`); loops claim and record (WF), time passes (WF on `BackoffEnds`); waiters for
row locks and for the lock of plans are served in turn (SF on `WriteTask`, `ShowContext`,
`Maintain`). Nothing says that the model answers: `EveryCallEnds` holds when it never
does. `EveryQuestionEnds` has the premise `Recovers`: calls of the chat loops stop failing
and processes stop dying in the end.

`Gateway!Spec`: the process starts again, goroutines run, Enroll has a time limit of thirty
seconds (WF). The dial of the tunnel has none: `Run` clears the client's `Timeout`
(connector.go:302) and dials with a context without a deadline (:341). So `TunnelAlone`, the
steps that are fair, leaves out the end of a dial unless the tunnel is being stopped.
`Reconnects` has two premises: `Calm`, administrator, network and process are quiet from
some moment on, and `Answered`, no dial lasts for ever. `CallsEnd` needs neither.

`WindowsSetup`: a running installer takes its next step (WF). `PatientSpec` adds what the
user does: begins the newest version again (SF) while it is not complete, and removes the
program when the backup of its data fails (SF). Nothing says that commands stop failing;
faults are bounded. Nothing says that a slow stop ends either, except in `ReportedSpec`, under
which the disagreement `RepeatWorks` is found, so that it is not found for that reason.

Notifications have no liveness property: the code promises none, as an unreachable
provider, quiet hours or a mode may hold an alert back for ever. Neither have contexts of
meetings: one that always fails is taken first again by every turn,
and only the end of its call is promised.

## Proofs

tlapm proves for any number of objects, devices, workers, tasks, requests, events,
sources, clients, versions and faults:

* `NotificationDispatch_proofs`: `TypeCorrect`, `OneOpenBatchAlways`,
  `StableNoticeAlways`, `AcceptedWasSentAlways`, `NoResendAlways`, `SpacingAlways`,
  `QuietAtProviderAlways`, `AlertKeptAlways`. Assumptions: the
  module's (`KindAssumption`, `TimeAssumption`). Types alone are not inductive:
  an open transaction writes to the batch it read, so that batch must still
  exist. `RowsInv` adds that the row lock has one holder (`OneTx`), that the batch it
  works on is open (`OneOpenBatch`) and that what it counts as answered is still
  undelivered (`TxOwnsRows`). `SpacingAlways` rests on `SpacingInv`: nothing is prepared before
  `next_send_at`, so while a row waits, an interval has passed since its device's last push, and
  an attempt's own `next` is an interval after every answer it has counted.
  `QuietAtProviderAlways` has the hypothesis that the settings stand still (`SettingsStand`);
  `ClearInv` says that the expiry of an open batch was cut at the start of quiet hours, and
  `NotYetQuiet` that no minute before that start is quiet, for quiet hours over midnight too.
  `AlertKeptAlways` is the refinement, for any devices that come and go: every action maps to
  a step of `AlertOutbox` or to a stutter. `OutboxInv` adds that a batch that names an
  object carries nothing else, and that an attempt calls only devices it found; with `IdsInv`
  each commit that counts an answer adds a receipt. `IdsInv` adds that ids in tables and histories come from
  serials already drawn and belong to one batch (`IdsDrawn`, `IdsUnique`), that the
  provider knows an undelivered row's id only with that row's present content
  (`PendingStable`), and that an answer counted by an open attempt was sent
  (`AnswersSent`). Preparing excludes an open transaction by the lock, and a summary's
  ids use a serial nobody has seen: these two facts carry most steps.
* `TaskLifecycle_proofs`: `TypeCorrect`, `PlanMatchesAlways`, `RingsOpenTaskAlways`.
  The invariant `LockInv` adds that the lock has one holder
  (`OneHolder`), that the plan a holder will commit is the set of active tasks under its
  own writes, that a holder who commits no plan writes no task unless no plan exists,
  that the tasks it rings for are open (all in `Fit`), and what the loops of the worker run
  (`WorkerFit`).
* `EventAnalysis_proofs`: `TypeCorrect`, `OneAnalystAlways`, `FreshResultAlways`,
  `AnnouncedOnceAlways`, `InvitationKeptAlways`. Assumption: `EventAssumption`. The invariant
  adds `Held` (an event being analysed is in PROCESSING and its content is the one seen, because every other writer waits for the
  row lock or skips it) and `Told` (an event notified at most once, and if it did
  then `analyzed` is set; a worker that will notify has an event never announced). For
  invitations `KeptInv` adds `Spared`: no worker holds the decision to skip one.
* `SourceSync_proofs`: `TypeCorrect`, `DeletedStaysSilentAlways`, `StatusFinalAlways`,
  `StatusKeptAlways` (the two together), `LoginKeptAlways`, `NoCircleAlways`, `LettersKeptAlways`. Assumption: `SourceAssumption`. `SilentInv` adds `Heard` (a
  heartbeat runs beside an import, and the row it has locked is there) and `Reported`
  (so is the row of a written error): both hold because DELETE waits for those locks.
  `LoginInv` adds that the row of a renewal has one owner (`OneOwner`), that the owner's
  pair is the stored one before the exchange and the issued one after it (`Holds`), and
  that the newest pair is in the row, with that owner, or lost (`Paired`): a refusal
  needs a stored pair that is not the newest, and then it was lost. `NoCircle` follows from
  the order of the labels (`Ordered`: what a pass has failed with stands before what it works
  on, by the labels it was listed with): among workers that agree (`OneOrder`) the source
  whose label is last is held by an import that waits for nobody. `LettersKeptAlways` speaks of
  letters that come with a body and has the hypothesis
  `Apart`, that no two servers give one mailbox the same UIDVALIDITY, which one server
  always meets and without which it is false (disagreement 5). `MailInv` says which letters a
  cursor covers (`Cursored`) and that the letters an import has listed are those after the
  cursor it read (`Aligned`).
* `Shown_proofs` about `LiveUpdates`: `TypeCorrect`, `PublisherFreeAlways`,
  `SignalKeptAlways`. Assumption: `LiveAssumption`, which has channels of at least two. `Emptied` says what a channel can hold
  between `Drain` and "all", at most the socket's own first "all", so there is room. `SignalKept`
  is inductive together with the types and `Emptied`: each step that removes a signal
  either hands it on, or leaves an "all" behind, or closes the client.
* `Shown_proofs` about `Generation`: `TruthfulAlways`, `FinalKeptAlways`. Assumption:
  `GenerationAssumption`: finitely many callers, each in one role, as the goroutines of the
  code are. `GInv` adds what a caller owns while it calls the model (`Owned`): for a question
  it holds the PENDING row alone, by the session's lock, and was given nothing excluded when it
  asked; for a context it holds a title between the row's fingerprint and the present version.
  `Failing` says that a failure to be recorded concerns a row still PENDING, unless a second
  loop runs; `Answers` and `Summaries` say what a final answer and a stored context rest on
  (`Sound`: what a fresh row is about lies between its fingerprint and the meeting's version),
  and since a view first brings the fingerprint up to date, what it shows is current
  (`SaidIsCurrent`). `Roomy` counts connections, which is why callers are finite.
* `Support_proofs`: `OnlyApprovedAlways`, `DeliveryKeptAlways`, `ConsentMatchesAlways`,
  `ManualStaysAlways`. Assumption: `SupportAssumption`. The invariant has a half for each
  component. `Delivering` adds that every copy a sender or a delivery holds was checked
  (`Valid`); that nothing has left the memory before the row is inserted, and row, deliveries
  and gateway speak of one content (`RowFirst`, `OneContent`), until the user deletes the row;
  that an accepted report has a row or a draft unless a restart took it (`Said`); and, for
  `ApprovedOnly` alone, that one sender at a time works on what the user confirmed (`OneSender`,
  `Asked`) as long as no edit was written over a draft it had not read. `Consent` adds the order of
  revisions: a rule and an open transaction are never ahead of the offer (`Behind`), and
  what the receiver has read of an offer still holds when it writes (`Reading`).
* `Gateway_proofs`: `AskedOnceAlways`, `OneRegistrationAlways`, `UndisturbedAlways`.
  Assumptions: `GatewayAssumption`, `MuxAssumption`. A crash forgets the call in progress,
  so `TunnelInv` says what files and directories alone tell the next one: identifiers not
  given out have no trace (`Numbered`), one that was asked for has a directory (`Noted`), and
  only a complete registration has a directory of its own by name (`Filed`). `Agreed`
  relates memory and file, `Registering` what the call in progress has written, and
  `Tunnelling` whose identity the goroutine holds. `MuxInv` adds that a stream carries
  nothing before its preface (`Bare`).
* `WindowsSetup_proofs`: `KeysMatchAlways`, `MarksTrueAlways`, `UpgradeSafeAlways`. Assumption:
  `WindowsSetupAssumption`. `KeysMatch` alone is not inductive: `Secret` makes a
  missing key while there is no cluster, which is harmless only because nothing is encrypted
  and no password is set before there is one (`Unmade`); `Write` encrypts only beside a running
  server, which runs only over a whole cluster (`Over`); and the installer comes to the
  password of the role only with a cluster (`Placed`). A step that touches neither keys nor
  cluster is `Apart`, and most steps are. For the marks and the upgrade `Sound` says what the
  place of the installer tells of the services it has stopped, deleted or started (`Alive`,
  `Noted`, `Stopped`: what a failed Configure has stopped is not started by Windows, and
  neither is anything that needs it), of the backup (`Quieted`: from the backup to the new
  files nobody writes) and of schema, database and certificates (`Grounded`, `Marked`). That
  a restore can start what it has noted rests on `Backed`: what runs, and what was running when
  the preparation noted it, has its wrapper and its data, and so has all it needs.

Each module proves that `Init` implies the invariant, that every action keeps it,
with one step per action, and combines the two with PTL.

Only model-checked: all liveness, as fairness and ENABLED are beyond the prover. Every
safety property of the runs is a theorem, and the runs check it as well, on their instances.
Two have a hypothesis that the runs' instances meet: `SettingsStand` for
`QuietAtProvider`, `Apart` for `LettersKept`. What a property excepts is part of its
definition (`Bodiless`, `OneOrder`, `dropped`, `stale`, `lost`, `late`) and listed above.

## Disagreements found

Statements of the repository that its code does not keep. Each is a property of its own with a
configuration as small as shows it, and TLC ends with a counterexample: run
`tlc -config SU_lost.cfg MCSupport`, or another of the last column with the MC module of its
component. None of these properties is claimed, so none of them is in a run of PROJECT.json.

| | statement | what the code does | property | configuration |
| --- | --- | --- | --- | --- |
| 1 | README.md:48: the final decision about a task is the owner's | worker.go:342, the open tasks are read before the model is asked: a task the owner completes meanwhile is set to POSSIBLY_COMPLETED | `TaskLifecycle!UserDecides` | TL_final.cfg |
| 2 | README.md:91-92: reject answers 409 for a completed task | tasks.go:188, the check precedes the lock: a completion in between becomes CANCELLED | `TaskLifecycle!RejectKeepsCompleted` | TL_reject.cfg |
| 3 | EXTERNAL_TASK_API.md:4-5: the model is not called for external tasks | reconciliation.go:24, saved filters queue every SKIPPED event they do not match | `EventAnalysis!ExternalNeverAsked` | EA_external.cfg |
| 4 | README.md:794-795: a call MTS Link rejects renews the tokens and is repeated | mts_sync.go:55, the renewal locks the source's row in a second transaction, while the import that waits for it in Go may hold the row by a foreign key: neither ever ends | `SourceSync!Renewed`, under `FairSpec` | SS_renewed.cfg |
| 5 | preconfiguration.go:35: a new endpoint needs a fresh cursor | mail.go:432, an import that read the old settings stores the old server's cursor after the PUT removed it | `SourceSync!FreshCursor` | SS_cursor.cfg |
| 6 | docs/llm-prompt-corrections.md:46-47: a revision with a new text suspends the old rule until the user agrees | llm_temporary_corrections.go:110, the review of the next call that read the row before sets it active again | `Support!Suspended` | SU_suspended.cfg |
| 7 | docs/diagnostic-reporting.md:48-51: after the sending a report has a lasting id and stays queued when something fails | diagnostic_delivery.go:234, the request is answered while the report is a draft in memory: a restart before its INSERT (:164) forgets it | `Support!NeverLost` | SU_lost.cfg |
| 8 | docs/diagnostic-reporting.md:168-169: exactly the approved version is sent | diagnostic_reports.go:760, an edit that was being checked writes its copy over the draft that is being sent | `Support!SentAsApproved` | SU_approved.cfg |
| 9 | REQUIREMENTS.md:187: checking an unchanged cache again creates no notification | worker.go:576, requested_at stays set, so each refresh announces the context again | `Generation!OneNoticePerRequest` | GE_notice.cfg |
| 10 | windows/languages/custom-messages.iss:120-121: after fixing the error, run the installer again | engine.go:325, the repeated run backs up what a broken one left, and cannot: a database service that is not registered, a database that does not exist | `WindowsSetup!RepeatWorks`, under `ReportedSpec` | WS_repeat.cfg |
| 11 | windows/README.md:165: installing an older version is forbidden | installed.json is written last (engine.go:251): after a failed upgrade that migrated, the older installer is accepted | `WindowsSetup!NeverOlder` | WS_older.cfg |
| 12 | windows/README.md:189: after a failed backup the previous services are started again | engine.go:310, a service whose stop took longer than 90 seconds counts as running (platform_windows.go:37-40), is not started, and stops | `WindowsSetup!AllResumed` | WS_resumed.cfg |
| 13 | README.md:1024-1025: a push lives at the provider no longer than until quiet hours begin | notification_policy.go:249, the expiry stored with the batch is sent, also when quiet hours were switched on or moved since | `NotificationDispatch!QuietAtProvider`, with changing settings | ND_quiet.cfg |

Met without a property, since they are matters of content: saved filters miss an
event under analysis (REQUIREMENTS.md:86); contexts asked for by button are not taken first
(REQUIREMENTS.md:180; worker.go:568 orders by starts_at); contexts of future meetings are refreshed
(REQUIREMENTS.md:182); loading a context may wait for the model, because it waits for the row
that `processContext` holds (REQUIREMENTS.md:192).

## Limits of the code

Behaviours that no document excludes, that the models have, and that the properties therefore
except or make a premise.

| where | what happens | how the models treat it |
| --- | --- | --- |
| mail.go:420 | a letter that comes without a body is skipped and the cursor moves past it | `Bodiless`; `LettersKept` excepts such letters, `SourceSync!EveryLetter` does not and is false in the instance of ss_import |
| worker.go:594 | labels may be equal or missing (0004.sql:12, 0025.sql:4) and be renamed between two passes (admin.go:136, :148): two overlapping workers may take two failing sources in opposite orders and wait for each other for ever | `Label`, and the label is a part of the row; `NoCircle` is about workers that agree (`OneOrder`), `SourceSync!NeverACircle` is about all and is false in the instance of ss_import |
| connector.go:302, :341 | a gateway that accepts the connection and stays silent holds the dial for ever, and nothing retries | `DialOut` and `DialFails` are not fair; `Answered` is a premise of `Reconnects`, which is false without it |
| diagnostic_delivery.go:234 | a report is in memory only until its INSERT | `Restart` sets `dropped`; `NotLost` excepts it, disagreement 7 |
| llm_temporary_correction_routes.go:18-28 | Disable answers manual_disabled although its comparison with the status failed and nothing was updated | the answer is not modelled; `ManualStays` begins with the update |
| worker.go:555 | a late failure of a second worker overwrites a committed answer | `FinalKept` allows this and nothing else |
| engine.go:307-316 | a restore passes over what is still stopping, and what needs it | `late`; excepted in `Resumed`, disagreement 12 |
| engine.go:144-156 | a service that cannot be stopped, or be set to start by hand, goes on or starts with Windows | `lost`; `halted` leaves it out, with what it needs |
| installer.iss:168-195, :308-344, :382 | a restart while the program is deleted or copied leaves an uninstaller without its key, log or helper, or a part of a program over saved data | `Stuck`; excepted in `Completes` |

## Not modelled

The language model, IMAP, Exchange, MTS Link, Firebase, the gateway server and
PostgreSQL are outside: they answer, fail or stay silent. Texts, matching, ranking,
redaction and formatting are data no property here tells apart.

* Sequential, nothing runs beside them: configuration, preconfiguration and the setup
  wizard, contracts and domain arithmetic, QR codes, identity keys and signatures.
* Without state of their own between requests: document parser, search.
* Clients: Android, web, browser extension. The part that keeps a connection, and with it
  an order of events, is in `LiveUpdates` and `MobileMux`.
* Parts of what is modelled: due dates and ranking of tasks; the matching of invitations and
  the results of meetings; delegations beyond the requeueing of replies; batches of the external API
  (`close_missing` and the stale check); the Exchange cursor, which is a time, and
  several folders; certificates of the gateway and their renewal; requests' contents of the
  model client.

Hazards without a property are listed with the reason in PROJECT.json.

## Plan

Done: `NotificationDispatch` with `AlertOutbox`, `TaskLifecycle`, `EventAnalysis`, `SourceSync`,
`LiveUpdates`, `Generation` (lock order, questions, contexts), `Support`, `Gateway`, `WindowsSetup`.

Proofs next: that `LiveUpdates` refines the abstract specification named below; the safety
steps that the liveness properties lean on (a waiter stays in line until it is served, a lock's
holder is never a waiter), as theorems of their own; and the invariants of the models to come.

Models next: `ExternalTasks` (batches, the stale check, `close_missing` beside the owner's
requests, composed with `TaskLifecycle`'s statuses); the time cursor of Exchange and a second
folder in `SourceSync`; the renewal of certificates beside a running tunnel in `GatewayTunnel`;
an abstract specification of live updates (a client is fresh or will be told) that
`LiveUpdates` refines.
