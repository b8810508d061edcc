------------------------------- MODULE GatewayTunnel -------------------------------
(***************************************************************************)
(* Registration of the server at the gateway and the outgoing tunnel       *)
(* (server/gateway.go, gatewaylink/connector.go).  gateway.json names an   *)
(* identity, whose keys and certificates are in a directory of its own; a  *)
(* registration fills a new directory and then lets gateway.json name it.  *)
(* One goroutine keeps the tunnel of the active identity.                  *)
(***************************************************************************)
EXTENDS Integers

CONSTANTS
    MaxId,      \* bound: identifiers newID gives
    MaxFault    \* bound: failed saves, failed removals and crashes

ASSUME GatewayAssumption == MaxId \in Nat \ {0} /\ MaxFault \in Nat

VARIABLES
    disk,       \* gateway.json
    dirs,       \* the directory of each identity: none, partial, or ready (with the QR)
    mem,        \* settings of the running process
    loaded,     \* gatewayLoad has succeeded
    cancel,     \* a tunnel was started and not stopped: g.cancel # nil
    shown,      \* g.connected
    op,         \* the registration or the pause that holds opMu
    tun,        \* the goroutine of gatewaylink.Run
    up,         \* the process runs
    posts,      \* at the gateway: requests that reached it, for each identifier
    last,       \* identifiers given so far
    faults      \* faults so far

registry == <<disk, dirs, mem, loaded, cancel, op, posts, last, faults, up>>
gateway == <<registry, shown, tun>>

Id == 1 .. MaxId
Legacy == 0     \* DATA_DIR/gateway, the directory of old registrations
Settings == [id : 0 .. MaxId, isolated : BOOLEAN, enabled : BOOLEAN]
NoSettings == [id |-> 0, isolated |-> FALSE, enabled |-> FALSE]
NoOp == [pc |-> "idle", next |-> NoSettings, prev |-> NoSettings, ready |-> FALSE]
Ops == [pc : {"idle", "enroll", "asked", "failed", "issued", "discard", "pause", "switch", "clean"},
        next : Settings, prev : Settings, ready : BOOLEAN]
Off == [pc |-> "off", dir |-> Legacy, stop |-> FALSE]
Tunnel == [pc : {"off", "load", "dial", "tell", "serve", "gone", "backoff"},
           dir : 0 .. MaxId, stop : BOOLEAN]

\* gatewaySettingsDir
Dir(s) == IF s.isolated THEN s.id ELSE Legacy
Ready(s) == s.id # 0 /\ dirs[Dir(s)] = "ready"

\* Mutant: gatewayStopLocked waits for the goroutine with g.mu held.
UnlockedButStop == op.pc \notin {"discard", "clean", "pause", "switch"}
\* g.mu: a call keeps it while it removes a directory, and gives it up while it waits
\* for the gateway and for the old tunnel.
Unlocked == op.pc \notin {"discard", "clean"}
Free == up /\ loaded /\ op.pc = "idle"

\* gateway.json is written beside and renamed: a save happens or it fails.
SaveOk(s) == disk' = s /\ UNCHANGED faults
SaveFails == faults < MaxFault /\ faults' = faults + 1 /\ UNCHANGED disk

\* gatewayRunLocked with settings m and directories d.
Spawn(m) ==
    IF m.enabled /\ m.id # 0 /\ dirs[Dir(m)] = "ready"
    THEN cancel' = TRUE /\ tun' = [pc |-> "load", dir |-> Dir(m), stop |-> FALSE]
    ELSE UNCHANGED <<cancel, tun>>
RunLocked(m) == IF cancel THEN UNCHANGED <<cancel, tun>> ELSE Spawn(m)

\* An installation that is not registered, a registration of the old kind, complete
\* or interrupted, and one of the new kind.
Registration(isolated, enabled, d) ==
    [settings |-> [id |-> 1, isolated |-> isolated, enabled |-> enabled], dir |-> d]
Starts ==
    {[settings |-> NoSettings, dir |-> "none"], Registration(FALSE, FALSE, "partial"),
     Registration(FALSE, TRUE, "ready"), Registration(TRUE, TRUE, "ready")}

InitFrom(st) ==
    /\ disk = st.settings
    /\ dirs = [d \in 0 .. MaxId |->
                 IF d = Dir(st.settings) /\ st.dir # "none" THEN st.dir ELSE "none"]
    /\ mem = NoSettings /\ loaded = FALSE /\ cancel = FALSE /\ shown = FALSE
    /\ op = NoOp /\ tun = Off /\ up = FALSE
    /\ last = st.settings.id
    /\ posts = [i \in Id |-> IF i = st.settings.id THEN 1 ELSE 0]
    /\ faults = 0

(***************************************************************************)
(* The process.                                                            *)
(***************************************************************************)
\* gatewayLoad of a process that has not loaded: the file, or a new identifier.
LoadFile ==
    /\ disk.id # 0 /\ mem' = disk /\ loaded' = TRUE
    /\ UNCHANGED <<disk, last, faults>>
Generate ==
    /\ disk.id = 0 /\ mem.id = 0 /\ last < MaxId
    /\ mem' = [NoSettings EXCEPT !.id = last + 1] /\ last' = last + 1
    /\ \/ SaveOk(mem') /\ loaded' = TRUE
       \/ SaveFails /\ UNCHANGED loaded
\* A second call after a failed save keeps the identifier, which is not on disk.
KeepGenerated ==
    /\ disk.id = 0 /\ mem.id # 0 /\ loaded' = TRUE
    /\ UNCHANGED <<disk, mem, last, faults>>
Load == ~loaded /\ (LoadFile \/ Generate \/ KeepGenerated)

\* startGateway; an error of the load leaves the tunnel off.
Start ==
    /\ ~up /\ up' = TRUE /\ Load
    /\ IF loaded' THEN RunLocked(mem') ELSE UNCHANGED <<cancel, tun>>
    /\ UNCHANGED <<dirs, shown, op, posts>>

\* Any other call loads, and starts nothing.
LoadLater ==
    /\ up /\ op.pc = "idle" /\ Load
    /\ UNCHANGED <<dirs, cancel, shown, op, tun, posts, up>>

\* The process ends at any point; files and the gateway stay as they are.
Crash ==
    /\ up /\ faults < MaxFault /\ faults' = faults + 1
    /\ up' = FALSE /\ mem' = NoSettings /\ loaded' = FALSE /\ cancel' = FALSE
    /\ shown' = FALSE /\ op' = NoOp /\ tun' = Off
    /\ UNCHANGED <<disk, dirs, posts, last>>

(***************************************************************************)
(* PUT /admin/gateway: pause and resume.                                   *)
(***************************************************************************)
Resume ==
    /\ Free /\ Ready(mem) /\ mem' = [mem EXCEPT !.enabled = TRUE]
    /\ \/ SaveOk(mem') /\ RunLocked(mem')
       \/ SaveFails /\ UNCHANGED <<cancel, tun>>
    /\ UNCHANGED <<dirs, loaded, shown, op, posts, last, up>>

\* gatewayStopLocked cancels and waits for the goroutine.
Pause ==
    /\ Free /\ Ready(mem) /\ mem' = [mem EXCEPT !.enabled = FALSE]
    /\ \/ /\ SaveOk(mem')
          /\ IF cancel THEN op' = [op EXCEPT !.pc = "pause"] /\ tun' = [tun EXCEPT !.stop = TRUE]
                       ELSE UNCHANGED <<op, tun>>
          /\ shown' = (shown /\ cancel)
       \/ SaveFails /\ UNCHANGED <<op, tun, shown>>
    /\ UNCHANGED <<dirs, loaded, cancel, posts, last, up>>

\* Mutant: the stop does not wait for the goroutine.
StoppedSoon == tun.stop \/ tun.pc = "off"
Stopped == tun.pc = "off"

Paused ==
    /\ op.pc = "pause" /\ Stopped
    /\ cancel' = FALSE /\ shown' = FALSE /\ op' = NoOp
    /\ UNCHANGED <<disk, dirs, mem, loaded, tun, posts, last, faults, up>>

(***************************************************************************)
(* registerGateway.                                                        *)
(***************************************************************************)
\* Mutant: the directory of an interrupted attempt is not looked for.
UsedHere(replace) == replace \/ (~Ready(mem) /\ dirs[Dir(mem)] # "none")
\* The identifier of the attempt: the saved one if nothing was ever asked for it.
Used(replace) == replace \/ (~Ready(mem) /\ dirs[Dir(mem)] # "none") \/ dirs[mem.id] # "none"

Register(replace) ==
    /\ Free /\ (Ready(mem) => replace) /\ last + 2 <= MaxId
    /\ LET id == IF Used(replace) THEN last + 1 ELSE mem.id IN
       /\ last' = IF id = mem.id THEN last ELSE id
       /\ op' = [pc |-> "enroll", prev |-> mem, ready |-> Ready(mem),
                 next |-> [id |-> id, isolated |-> TRUE, enabled |-> TRUE]]
       /\ dirs' = [dirs EXCEPT ![id] = "partial"]
    /\ UNCHANGED <<disk, mem, loaded, cancel, shown, tun, posts, faults, up>>

To(pc) == op' = [op EXCEPT !.pc = pc]
enrolling == <<disk, mem, loaded, cancel, shown, tun, last, faults, up>>

\* Enroll: the request reaches the gateway, which issues once for an identifier.
Post ==
    /\ op.pc = "enroll" /\ posts' = [posts EXCEPT ![op.next.id] = @ + 1]
    /\ To(IF posts[op.next.id] > 0 THEN "failed" ELSE "asked")
    /\ UNCHANGED <<enrolling, dirs>>

\* Enroll: the answer arrives and the files are written, the QR last.
Issue ==
    /\ op.pc = "asked" /\ To("issued") /\ dirs' = [dirs EXCEPT ![op.next.id] = "ready"]
    /\ UNCHANGED <<enrolling, posts>>

\* Enroll: no connection, no answer, a refused or a wrong one, 40 seconds are over,
\* or a file cannot be written.
EnrollFails ==
    op.pc \in {"enroll", "asked"} /\ To("failed") /\ UNCHANGED <<enrolling, dirs, posts>>

\* Mutant: the active registration's identifier is given up too.
GiveUpAlways ==
    /\ op.pc = "failed"
    /\ last' = last + 1 /\ mem' = [mem EXCEPT !.id = last + 1]
    /\ SaveOk(mem') /\ To("discard")
    /\ UNCHANGED <<dirs, loaded, cancel, shown, tun, posts, up>>
\* Without an active registration the failed attempt's identifier is given up.
GiveUp ==
    /\ op.pc = "failed" /\ ~op.ready
    /\ last' = last + 1 /\ mem' = [mem EXCEPT !.id = last + 1]
    /\ SaveOk(mem') /\ To("discard")
    /\ UNCHANGED <<dirs, loaded, cancel, shown, tun, posts, up>>
\* If that cannot be saved, the directory stays and marks the identifier as used.
GiveUpUnsaved ==
    /\ op.pc = "failed" /\ ~op.ready /\ SaveFails /\ op' = NoOp
    /\ UNCHANGED <<dirs, mem, loaded, cancel, shown, tun, posts, last, up>>
KeepActive ==
    /\ op.pc = "failed" /\ op.ready /\ To("discard")
    /\ UNCHANGED <<enrolling, dirs, posts>>

\* os.RemoveAll, whose error is ignored.
Remove(d) ==
    \/ dirs' = [dirs EXCEPT ![d] = "none"] /\ UNCHANGED faults
    \/ faults < MaxFault /\ faults' = faults + 1 /\ UNCHANGED dirs

Discard ==
    /\ op.pc = "discard" /\ Remove(op.next.id) /\ op' = NoOp
    /\ UNCHANGED <<disk, mem, loaded, cancel, shown, tun, posts, last, up>>

\* Mutant: the new tunnel is started while the old one ends by itself.
SwitchOver ==
    /\ op.pc = "issued" /\ mem' = op.next /\ SaveOk(op.next)
    /\ RunLocked(op.next) /\ To("clean") /\ shown' = FALSE
    /\ UNCHANGED <<dirs, loaded, posts, last, up>>
\* gateway.json names the new identity; the old tunnel is stopped.
Switch ==
    /\ op.pc = "issued" /\ mem' = op.next /\ SaveOk(op.next)
    /\ IF cancel
       THEN tun' = [tun EXCEPT !.stop = TRUE] /\ To("switch") /\ UNCHANGED <<cancel, shown>>
       ELSE Spawn(op.next) /\ To("clean") /\ shown' = FALSE
    /\ UNCHANGED <<dirs, loaded, posts, last, up>>

\* The new identity cannot be saved: the settings of before are back, and the new
\* directory stays, its identifier has been used.
Unsaved == mem' = op.prev
SwitchFails ==
    /\ op.pc = "issued" /\ SaveFails /\ Unsaved /\ op' = NoOp
    /\ UNCHANGED <<dirs, loaded, cancel, shown, tun, posts, last, up>>

Switched ==
    /\ op.pc = "switch" /\ Stopped
    /\ shown' = FALSE /\ Spawn(mem) /\ To("clean")
    /\ UNCHANGED <<disk, dirs, mem, loaded, posts, last, faults, up>>

\* The directory of the old identity is removed.
Clean ==
    /\ op.pc = "clean" /\ op' = NoOp
    /\ IF Dir(op.prev) = op.next.id THEN UNCHANGED <<dirs, faults>> ELSE Remove(Dir(op.prev))
    /\ UNCHANGED <<disk, mem, loaded, cancel, shown, tun, posts, last, up>>

(***************************************************************************)
(* gatewaylink.Run.                                                        *)
(***************************************************************************)
Becomes(pc) == tun' = [tun EXCEPT !.pc = pc]

\* Run reads the files of its directory; without them it returns.
ReadFiles ==
    /\ tun.pc = "load" /\ Becomes(IF dirs[tun.dir] = "ready" THEN "dial" ELSE "off")
    /\ UNCHANGED <<registry, shown>>

\* session: the websocket, the multiplexer and the control stream.  The dial has no time
\* limit: it ends when the gateway answers, the connection breaks or the tunnel is stopped.
DialOut == tun.pc = "dial" /\ Becomes("tell") /\ UNCHANGED <<registry, shown>>
DialFails == tun.pc = "dial" /\ Becomes("gone") /\ UNCHANGED <<registry, shown>>

\* status(true), status(false) wait for g.mu.
TellUp ==
    /\ tun.pc = "tell" /\ Unlocked /\ shown' = TRUE /\ Becomes("serve")
    /\ UNCHANGED registry
TellDown ==
    /\ tun.pc = "gone" /\ Unlocked /\ shown' = FALSE
    /\ Becomes(IF tun.stop THEN "off" ELSE "backoff")
    /\ UNCHANGED registry

\* Serve has returned.
ServeEnds == tun.pc = "serve" /\ Becomes("gone") /\ UNCHANGED <<registry, shown>>

\* The next attempt, after a second at first and half a minute at last.
Backoff ==
    /\ tun.pc = "backoff" /\ Becomes(IF tun.stop THEN "off" ELSE "dial")
    /\ UNCHANGED <<registry, shown>>

OpStep ==
    \/ Paused \/ Post \/ Issue \/ EnrollFails \/ GiveUp \/ GiveUpUnsaved \/ KeepActive
    \/ Discard \/ Switch \/ SwitchFails \/ Switched \/ Clean
TunnelStep == ReadFiles \/ DialOut \/ TellUp \/ TellDown \/ Backoff

(***************************************************************************)
(* Properties of the registration.                                         *)
(***************************************************************************)
GatewayOK ==
    /\ disk \in Settings /\ mem \in Settings /\ op \in Ops /\ tun \in Tunnel
    /\ dirs \in [0 .. MaxId -> {"none", "partial", "ready"}]
    /\ loaded \in BOOLEAN /\ cancel \in BOOLEAN /\ shown \in BOOLEAN /\ up \in BOOLEAN
    /\ posts \in [Id -> 0 .. 2] /\ last \in 0 .. MaxId /\ faults \in 0 .. MaxFault

\* The gateway is asked at most once for an identifier.
UidOnce == \A i \in Id : posts[i] <= 1

\* Without a call in progress the process uses the identity gateway.json names.
SameIdentity == Free /\ Ready(mem) => disk.id = mem.id /\ disk.isolated = mem.isolated

\* A tunnel is never left behind: with g.cancel nil no goroutine runs, and between
\* calls one that runs is of the active identity.
TunnelMatches ==
    /\ ~cancel => tun.pc = "off" /\ ~shown
    /\ op.pc = "idle" /\ tun.pc # "off" => tun.dir = Dir(mem) /\ ~tun.stop
    /\ op.pc = "idle" /\ tun.pc # "off" => mem.enabled \/ disk.enabled

\* A complete registration named by gateway.json is followed by a complete one.
Kept == dirs[Dir(disk)] = "ready" => dirs'[Dir(disk')] = "ready"
====================================================================================
