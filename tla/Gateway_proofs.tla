----------------------------- MODULE Gateway_proofs -----------------------------
(***************************************************************************)
(* Theorems about Gateway for every number of identifiers, faults, phones  *)
(* and streams.                                                            *)
(*                                                                         *)
(* That the gateway is asked once for an identifier is not inductive: a    *)
(* crash forgets the call in progress, so a later call must be able to     *)
(* tell from the file and the directories alone which identifiers are      *)
(* used (Numbered, Noted), and what is loaded must agree with the file     *)
(* (Agreed, Filed).  TunnelInv says so, with what the call in progress     *)
(* has written and which identity the tunnel's goroutine holds.            *)
(***************************************************************************)
EXTENDS Gateway, TLAPS

-----------------------------------------------------------------------------
(* The inductive invariant *)

\* Where a registration is while its directory is being filled.

Filling == {"enroll", "asked", "failed", "issued"}

\* s and t name the same identity.
Same(s, t) == s.id = t.id /\ s.isolated = t.isolated

\* Only a complete registration has a directory of its own by name, and a server
\* that was never registered has none.
Filed ==
    /\ disk.id = 0 => disk = NoSettings /\ dirs[Legacy] = "none"
    /\ mem.isolated => mem.id # 0 /\ dirs[mem.id] = "ready"
    /\ disk.isolated => disk.id # 0 /\ dirs[disk.id] = "ready"

\* An identifier that was not given out has no directory and was never sent.
Numbered ==
    /\ mem.id <= last /\ disk.id <= last
    /\ \A i \in Id : i > last => posts[i] = 0 /\ dirs[i] = "none"
    /\ UidOnce

\* The gateway was asked for s: a directory says so.
Noted(s) == s.id # 0 /\ posts[s.id] # 0 => dirs[s.id] # "none" \/ dirs[Dir(s)] # "none"

\* What the process has loaded is what the file says, or an identifier it could not save.
Agreed ==
    /\ ~up => ~loaded
    /\ ~loaded => ~cancel /\ op.pc = "idle" /\ ~mem.isolated /\ ~mem.enabled
    /\ loaded => mem.id # 0 /\ (Same(mem, disk) \/ (disk = NoSettings /\ ~mem.isolated))

\* The call in progress.
Registering ==
    LET n == op.next IN
    /\ op.pc \in Filling =>
        /\ n.id \in 1..last /\ n.isolated /\ n.enabled /\ dirs[n.id] # "none"
        /\ mem = op.prev /\ (op.ready <=> Ready(mem)) /\ (op.ready => n.id # mem.id)
    /\ op.pc \in Filling \ {"issued"} => last < MaxId
    /\ op.pc = "enroll" => posts[n.id] = 0
    /\ op.pc = "issued" => dirs[n.id] = "ready"
    /\ op.pc = "discard" => n.id # 0 /\ n.id # mem.id /\ n.id # disk.id
    /\ op.pc \in {"switch", "clean"} => n.isolated /\ n.enabled /\ mem = n /\ disk = n

\* The goroutine of the tunnel: unless a call stops it, of the active identity.
Tunnelling ==
    /\ ~cancel => tun.pc = "off" /\ ~shown
    /\ op.pc \notin {"pause", "switch"} /\ tun.pc # "off" =>
        tun.dir = Dir(mem) /\ ~tun.stop /\ disk.enabled /\ Ready(mem)

TunnelInv ==
    /\ GatewayOK /\ Filed /\ Numbered /\ Noted(mem) /\ Noted(disk)
    /\ Agreed /\ Registering /\ Tunnelling

-----------------------------------------------------------------------------
(* Types of what an action writes *)

\* Registrations that a call or a load writes.
LEMMA SettingsType ==
    /\ NoSettings \in Settings
    /\ \A s \in Settings, b \in BOOLEAN : [s EXCEPT !.enabled = b] \in Settings
    /\ \A i \in 0..MaxId, s \in Settings : [s EXCEPT !.id = i] \in Settings
    /\ \A i \in 0..MaxId, b, c \in BOOLEAN : [id |-> i, isolated |-> b, enabled |-> c] \in Settings
<1>1. NoSettings \in Settings
  BY GatewayAssumption DEF Settings, NoSettings
<1>2. ASSUME NEW s \in Settings, NEW b \in BOOLEAN PROVE [s EXCEPT !.enabled = b] \in Settings
  BY DEF Settings
<1>3. ASSUME NEW i \in 0..MaxId, NEW s \in Settings PROVE [s EXCEPT !.id = i] \in Settings
  BY DEF Settings
<1>4. ASSUME NEW i \in 0..MaxId, NEW b \in BOOLEAN, NEW c \in BOOLEAN
      PROVE  [id |-> i, isolated |-> b, enabled |-> c] \in Settings
  BY DEF Settings
<1> QED
  BY <1>1, <1>2, <1>3, <1>4

\* Goroutines that a call starts or tells to stop.
LEMMA TunnelTypes ==
    /\ Off \in Tunnel
    /\ \A t \in Tunnel : [t EXCEPT !.stop = TRUE] \in Tunnel
    /\ \A d \in 0..MaxId : [pc |-> "load", dir |-> d, stop |-> FALSE] \in Tunnel
<1>1. Off \in Tunnel
  BY GatewayAssumption DEF Tunnel, Off, Legacy
<1>2. ASSUME NEW t \in Tunnel PROVE [t EXCEPT !.stop = TRUE] \in Tunnel
  BY DEF Tunnel
<1>3. ASSUME NEW d \in 0..MaxId PROVE [pc |-> "load", dir |-> d, stop |-> FALSE] \in Tunnel
  BY DEF Tunnel
<1> QED
  BY <1>1, <1>2, <1>3

\* The directory of a registration.
LEMMA DirType ==
    ASSUME NEW s \in Settings
    PROVE  Dir(s) \in 0..MaxId
BY GatewayAssumption DEF Settings, Dir, Legacy

\* gatewayRunLocked keeps the types.
LEMMA SpawnType ==
    ASSUME tun \in Tunnel, cancel \in BOOLEAN, NEW m \in Settings, Spawn(m) \/ RunLocked(m)
    PROVE  tun' \in Tunnel /\ cancel' \in BOOLEAN
<1>1. CASE UNCHANGED <<cancel, tun>>
  BY <1>1
<1>2. CASE cancel' = TRUE /\ tun' = [pc |-> "load", dir |-> Dir(m), stop |-> FALSE]
  BY <1>2, DirType, TunnelTypes
<1> QED
  BY <1>1, <1>2 DEF Spawn, RunLocked

\* gatewayLoad: what the process has afterwards.
LEMMA LoadResult ==
    ASSUME TunnelInv, Load
    PROVE  /\ mem' \in Settings /\ disk' \in Settings /\ loaded' \in BOOLEAN
           /\ ~mem'.isolated \/ mem' = disk
           /\ ~loaded' => ~mem'.isolated /\ ~mem'.enabled
           /\ loaded' => mem'.id # 0 /\ (Same(mem', disk') \/ (disk' = NoSettings /\ ~mem'.isolated))
<1>1. disk \in Settings /\ mem \in Settings /\ last \in 0..MaxId /\ ~loaded /\ ~mem.isolated /\ ~mem.enabled
  BY DEF TunnelInv, GatewayOK, Agreed, Load
<1>2. CASE LoadFile
  BY <1>1, <1>2 DEF LoadFile, Same
<1>3. CASE Generate
  <2>1. last + 1 \in 0..MaxId /\ last + 1 # 0
    BY <1>1, <1>3, GatewayAssumption DEF Generate
  <2>2. mem' = [NoSettings EXCEPT !.id = last + 1] /\ mem' \in Settings
    BY <1>3, <2>1, SettingsType DEF Generate
  <2>3. mem'.id = last + 1 /\ mem'.isolated = FALSE /\ mem'.enabled = FALSE
    BY <2>2 DEF NoSettings
  <2>4. CASE SaveOk(mem') /\ loaded' = TRUE
    BY <2>1, <2>2, <2>3, <2>4 DEF SaveOk, Same
  <2>5. CASE SaveFails /\ UNCHANGED loaded
    <3>1. disk' = disk /\ loaded' = loaded
      BY <2>5 DEF SaveFails
    <3>2. ~loaded' /\ loaded' \in BOOLEAN
      BY Zenon, <1>1, <3>1 DEF TunnelInv, GatewayOK
    <3> QED
      BY <1>1, <2>2, <2>3, <3>1, <3>2
  <2> QED
    BY <1>3, <2>4, <2>5 DEF Generate
<1>4. CASE KeepGenerated
  <2>1. disk = NoSettings
    BY <1>4 DEF KeepGenerated, TunnelInv, Filed
  <2> QED
    BY <1>1, <1>4, <2>1 DEF KeepGenerated
<1> QED
  BY <1>2, <1>3, <1>4 DEF Load

-----------------------------------------------------------------------------
(* Every step of the registration and of the tunnel keeps TunnelInv. *)
(* The process starts, loads what it could not, or dies. *)

\* An identifier that could not be saved is loaded or drawn again.
LEMMA LoadLaterSafe ==
    ASSUME TunnelInv, LoadLater
    PROVE  TunnelInv'
<1>1. (disk \in Settings /\ mem \in Settings)'
  BY LoadResult DEF LoadLater
<1>2. (loaded \in BOOLEAN /\ cancel \in BOOLEAN /\ shown \in BOOLEAN /\ up \in BOOLEAN)'
  <2>1. loaded' \in BOOLEAN /\ UNCHANGED <<cancel, shown, up>>
    BY LoadResult DEF LoadLater
  <2> QED
    BY <2>1 DEF TunnelInv, GatewayOK
<1>3. (/\ op \in Ops
       /\ tun \in Tunnel
       /\ dirs \in [0 .. MaxId -> {"none", "partial", "ready"}]
       /\ posts \in [Id -> 0 .. 2]
       /\ last \in 0 .. MaxId
       /\ faults \in 0 .. MaxFault)'
  BY GatewayAssumption DEF TunnelInv, GatewayOK, LoadLater, Load, LoadFile, Generate,
     KeepGenerated, SaveOk, SaveFails
<1>4. Registering'
  BY GatewayAssumption DEF LoadLater, Registering, Filling
<1>5. Filed'
  BY GatewayAssumption DEF TunnelInv, LoadLater, Load, LoadFile, Generate, KeepGenerated,
     SaveOk, SaveFails, Filed, GatewayOK, Settings, Tunnel
<1>6. Numbered'
  BY GatewayAssumption DEF TunnelInv, LoadLater, Load, LoadFile, Generate, KeepGenerated,
     SaveOk, SaveFails, Numbered, UidOnce, GatewayOK, Id, NoSettings
<1>7. Tunnelling'
  BY GatewayAssumption DEF TunnelInv, LoadLater, Load, Tunnelling, Agreed
<1>8. (Noted(mem) /\ Noted(disk))'
  BY GatewayAssumption DEF TunnelInv, LoadLater, Load, LoadFile, Generate, KeepGenerated,
     SaveOk, SaveFails, Noted, GatewayOK, Id, NoSettings, Numbered
<1>9. Agreed'
  <2>1. Load /\ ~loaded /\ up
    BY DEF LoadLater, Load
  <2>2. op' = op /\ cancel' = cancel /\ up' = up
    BY DEF LoadLater
  <2>3. op'.pc = "idle" /\ ~cancel' /\ up'
    BY <2>1, <2>2 DEF TunnelInv, Agreed
  <2> QED
    BY <2>1, <2>3, LoadResult DEF Agreed, Same
<1> QED
  BY <1>1, <1>2, <1>3, <1>4, <1>5, <1>6, <1>7, <1>8, <1>9 DEF TunnelInv, GatewayOK

\* A process starts: it loads gateway.json and runs the tunnel of what it finds.
LEMMA StartSafe ==
    ASSUME TunnelInv, Start
    PROVE  TunnelInv'
<1>1. (disk \in Settings /\ mem \in Settings)'
  BY LoadResult DEF Start
<1>2. (tun \in Tunnel /\ cancel \in BOOLEAN)'
  <2>1. mem' \in Settings /\ tun \in Tunnel /\ cancel \in BOOLEAN
    BY <1>1 DEF TunnelInv, GatewayOK
  <2>2. UNCHANGED <<cancel, tun>> \/ Spawn(mem') \/ RunLocked(mem')
    BY DEF Start
  <2> QED
    BY <2>1, <2>2, SpawnType
<1>3. (loaded \in BOOLEAN /\ shown \in BOOLEAN /\ up \in BOOLEAN)'
  <2>1. loaded' \in BOOLEAN /\ shown' = shown /\ up' = TRUE
    BY LoadResult DEF Start
  <2> QED
    BY <2>1 DEF TunnelInv, GatewayOK
<1>4. (/\ op \in Ops
       /\ dirs \in [0 .. MaxId -> {"none", "partial", "ready"}]
       /\ posts \in [Id -> 0 .. 2]
       /\ last \in 0 .. MaxId
       /\ faults \in 0 .. MaxFault)'
  BY GatewayAssumption DEF TunnelInv, GatewayOK, Start, Load, LoadFile, Generate,
     KeepGenerated, SaveOk, SaveFails
<1>5. Filed'
  BY GatewayAssumption DEF TunnelInv, Start, Load, LoadFile, Generate, KeepGenerated,
     SaveOk, SaveFails, Filed, GatewayOK, Settings
<1>6. Numbered'
  BY GatewayAssumption DEF TunnelInv, Start, Load, LoadFile, Generate, KeepGenerated,
     SaveOk, SaveFails, Numbered, UidOnce, GatewayOK, Id, NoSettings
<1>7. Registering'
  BY GatewayAssumption DEF TunnelInv, Start, Registering, Filling, Agreed
<1>8. Tunnelling'
  BY GatewayAssumption DEF TunnelInv, Start, Load, LoadFile, Generate, KeepGenerated,
     SaveOk, RunLocked, Spawn, Tunnelling, Ready, Agreed
<1>9. (Noted(mem) /\ Noted(disk))'
  BY GatewayAssumption DEF TunnelInv, Start, Load, LoadFile, Generate, KeepGenerated,
     SaveOk, SaveFails, Noted, GatewayOK, Id, NoSettings, Numbered
<1>10. Agreed'
  <2>1. Load /\ ~loaded /\ op' = op /\ up' /\ (~loaded' => cancel' = cancel)
    BY DEF Start, Load
  <2>2. op'.pc = "idle" /\ ~cancel
    BY <2>1 DEF TunnelInv, Agreed
  <2>3. ~loaded' => ~cancel'
    BY <2>1, <2>2
  <2> QED
    BY <2>1, <2>2, <2>3, LoadResult DEF Agreed, Same
<1> QED
  BY <1>1, <1>2, <1>3, <1>4, <1>5, <1>6, <1>7, <1>8, <1>9, <1>10 DEF TunnelInv, GatewayOK

\* A crash forgets the call and the goroutine, and what was not saved.
LEMMA CrashSafe ==
    ASSUME TunnelInv, Crash
    PROVE  TunnelInv'
<1>1. (loaded \in BOOLEAN /\ cancel \in BOOLEAN /\ shown \in BOOLEAN /\ up \in BOOLEAN)'
  BY Zenon DEF Crash, TunnelInv, GatewayOK
<1>2. (/\ disk \in Settings
       /\ dirs \in [0 .. MaxId -> {"none", "partial", "ready"}]
       /\ posts \in [Id -> 0 .. 2]
       /\ last \in 0 .. MaxId
       /\ faults \in 0 .. MaxFault)'
  BY GatewayAssumption DEF TunnelInv, GatewayOK, Crash
<1>3. (mem \in Settings /\ op \in Ops)'
  BY GatewayAssumption DEF Crash, Settings, Ops, NoSettings, NoOp
<1>4. (tun \in Tunnel)'
  BY GatewayAssumption DEF Crash, Tunnel, Off, Legacy
<1>5. Agreed'
  BY GatewayAssumption DEF Crash, Agreed, NoSettings, NoOp
<1>6. Filed'
  BY GatewayAssumption DEF TunnelInv, Crash, Filed, NoSettings
<1>7. (Noted(mem) /\ Noted(disk))'
  BY GatewayAssumption DEF TunnelInv, Crash, Noted, NoSettings
<1>8. Numbered'
  BY GatewayAssumption DEF TunnelInv, Crash, Numbered, UidOnce, GatewayOK, NoSettings
<1>9. Registering'
  BY GatewayAssumption DEF Crash, Registering, Filling, NoOp
<1>10. Tunnelling'
  BY GatewayAssumption DEF Crash, Tunnelling, Off
<1> QED
  BY <1>1, <1>2, <1>3, <1>4, <1>5, <1>6, <1>7, <1>8, <1>9, <1>10 DEF TunnelInv, GatewayOK

-----------------------------------------------------------------------------
(* The owner resumes and pauses the tunnel *)

\* gatewayResume saves the switch before it runs the tunnel.
LEMMA ResumeSafe ==
    ASSUME TunnelInv, Resume
    PROVE  TunnelInv'
<1>1. (disk \in Settings /\ mem \in Settings)'
  <2>1. disk \in Settings /\ mem \in Settings
    BY DEF TunnelInv, GatewayOK
  <2>2. disk' \in {disk, mem'} /\ mem' = [mem EXCEPT !.enabled = TRUE]
    BY DEF Resume, SaveOk, SaveFails
  <2> QED
    BY <2>1, <2>2, SettingsType
<1>2. (tun \in Tunnel /\ cancel \in BOOLEAN)'
  <2>1. mem' \in Settings /\ tun \in Tunnel /\ cancel \in BOOLEAN
    BY <1>1 DEF TunnelInv, GatewayOK
  <2>2. UNCHANGED <<cancel, tun>> \/ Spawn(mem') \/ RunLocked(mem')
    BY DEF Resume
  <2> QED
    BY <2>1, <2>2, SpawnType
<1>3. (loaded \in BOOLEAN /\ shown \in BOOLEAN /\ up \in BOOLEAN)'
  BY DEF TunnelInv, GatewayOK, Resume
<1>4. (/\ op \in Ops
       /\ dirs \in [0 .. MaxId -> {"none", "partial", "ready"}]
       /\ posts \in [Id -> 0 .. 2]
       /\ last \in 0 .. MaxId
       /\ faults \in 0 .. MaxFault)'
  BY GatewayAssumption DEF TunnelInv, GatewayOK, Resume, SaveOk, SaveFails
<1>5. Registering'
  BY GatewayAssumption DEF Resume, Free, Registering, Filling
<1>6. Agreed'
  BY GatewayAssumption DEF TunnelInv, Resume, Free, SaveOk, SaveFails, Agreed, Same,
     GatewayOK, Settings
<1>7. (Noted(mem) /\ Noted(disk))'
  BY GatewayAssumption DEF TunnelInv, Resume, SaveOk, SaveFails, Noted, Dir, GatewayOK,
     Settings, Tunnel
<1>8. Numbered'
  BY GatewayAssumption DEF TunnelInv, Resume, SaveOk, SaveFails, Numbered, UidOnce,
     GatewayOK, Settings
<1>9. Tunnelling'
  BY GatewayAssumption DEF TunnelInv, Resume, SaveOk, SaveFails, RunLocked, Spawn,
     Tunnelling, Ready, Dir, GatewayOK, Settings
<1>10. Filed'
  BY GatewayAssumption DEF TunnelInv, Resume, Free, SaveOk, SaveFails, RunLocked, Filed,
     GatewayOK, Settings, Agreed
<1> QED
  BY <1>1, <1>2, <1>3, <1>4, <1>5, <1>6, <1>7, <1>8, <1>9, <1>10 DEF TunnelInv, GatewayOK

\* gatewayPause saves the switch and waits for the goroutine, which is told to stop.
LEMMA PauseSafe ==
    ASSUME TunnelInv, Pause
    PROVE  TunnelInv'
<1>1. (disk \in Settings /\ mem \in Settings)'
  <2>1. disk \in Settings /\ mem \in Settings
    BY DEF TunnelInv, GatewayOK
  <2>2. disk' \in {disk, mem'} /\ mem' = [mem EXCEPT !.enabled = FALSE]
    BY DEF Pause, SaveOk, SaveFails
  <2> QED
    BY <2>1, <2>2, SettingsType
<1>2. (tun \in Tunnel)'
  <2>1. tun \in Tunnel /\ tun' \in {tun, [tun EXCEPT !.stop = TRUE]}
    BY DEF TunnelInv, GatewayOK, Pause
  <2> QED
    BY <2>1, TunnelTypes
<1>3. (/\ op \in Ops
       /\ dirs \in [0 .. MaxId -> {"none", "partial", "ready"}]
       /\ loaded \in BOOLEAN
       /\ cancel \in BOOLEAN
       /\ shown \in BOOLEAN
       /\ up \in BOOLEAN
       /\ posts \in [Id -> 0 .. 2]
       /\ last \in 0 .. MaxId
       /\ faults \in 0 .. MaxFault)'
  BY GatewayAssumption DEF TunnelInv, GatewayOK, Pause, SaveOk, SaveFails, Ops
<1>4. Agreed'
  BY GatewayAssumption DEF TunnelInv, Pause, SaveOk, SaveFails, Agreed, Same, GatewayOK,
     Settings
<1>5. (Noted(mem) /\ Noted(disk))'
  BY GatewayAssumption DEF TunnelInv, Pause, SaveOk, SaveFails, Noted, Dir, GatewayOK,
     Settings, Tunnel
<1>6. Numbered'
  BY GatewayAssumption DEF TunnelInv, Pause, SaveOk, SaveFails, Numbered, UidOnce,
     GatewayOK, Settings
<1>7. Registering'
  BY GatewayAssumption DEF TunnelInv, Pause, Free, Registering, Filling, GatewayOK, Ops
<1>8. Tunnelling'
  BY GatewayAssumption DEF TunnelInv, Pause, SaveFails, Tunnelling, Ready, Dir, GatewayOK,
     Ops
<1>9. Filed'
  BY GatewayAssumption DEF TunnelInv, Pause, Free, SaveOk, SaveFails, Filed, GatewayOK,
     Settings, Agreed
<1> QED
  BY <1>1, <1>2, <1>3, <1>4, <1>5, <1>6, <1>7, <1>8, <1>9 DEF TunnelInv, GatewayOK

\* The goroutine has gone: the call of gatewayPause returns.
LEMMA PausedSafe ==
    ASSUME TunnelInv, Paused
    PROVE  TunnelInv'
<1>1. (loaded \in BOOLEAN /\ cancel \in BOOLEAN /\ shown \in BOOLEAN /\ up \in BOOLEAN)'
  BY Zenon DEF Paused, TunnelInv, GatewayOK
<1>2. (/\ disk \in Settings
       /\ mem \in Settings
       /\ tun \in Tunnel
       /\ dirs \in [0 .. MaxId -> {"none", "partial", "ready"}]
       /\ posts \in [Id -> 0 .. 2]
       /\ last \in 0 .. MaxId
       /\ faults \in 0 .. MaxFault)'
  BY GatewayAssumption DEF TunnelInv, GatewayOK, Paused
<1>3. (op \in Ops)'
  BY GatewayAssumption DEF Paused, Ops, Settings, NoSettings, NoOp
<1>4. (Filed /\ Numbered /\ Noted(mem) /\ Noted(disk) /\ Agreed /\ Tunnelling)'
  BY GatewayAssumption DEF TunnelInv, Paused, Stopped, Filed, Numbered, UidOnce, Noted,
     Agreed, Tunnelling
<1>5. Registering'
  BY GatewayAssumption DEF Paused, Registering, Filling, NoOp
<1> QED
  BY <1>1, <1>2, <1>3, <1>4, <1>5 DEF TunnelInv, GatewayOK

-----------------------------------------------------------------------------
(* The owner registers the server *)

\* A registration takes an identifier without a history, and fills its directory.
LEMMA RegisterSafe ==
    ASSUME TunnelInv, NEW replace \in BOOLEAN, Register(replace)
    PROVE  TunnelInv'
<1>1. (/\ disk \in Settings
       /\ mem \in Settings
       /\ tun \in Tunnel
       /\ loaded \in BOOLEAN
       /\ cancel \in BOOLEAN
       /\ shown \in BOOLEAN
       /\ up \in BOOLEAN
       /\ posts \in [Id -> 0 .. 2]
       /\ last \in 0 .. MaxId
       /\ faults \in 0 .. MaxFault)'
  BY GatewayAssumption DEF TunnelInv, GatewayOK, Register
<1>2. (dirs \in [0 .. MaxId -> {"none", "partial", "ready"}])'
  BY GatewayAssumption DEF TunnelInv, GatewayOK, Register, Settings
<1>3. (op \in Ops)'
  BY GatewayAssumption DEF TunnelInv, GatewayOK, Register, Ops, Settings, Ready
<1>4. (Noted(mem) /\ Noted(disk) /\ Agreed)'
  BY GatewayAssumption DEF TunnelInv, Register, Free, Noted, Agreed
<1>5. Numbered'
  BY GatewayAssumption DEF TunnelInv, Register, Numbered, UidOnce, GatewayOK, Settings, Id
<1>6. Filed'
  BY GatewayAssumption DEF TunnelInv, Register, Free, Used, Filed, GatewayOK, Agreed,
     Legacy, Numbered
<1>7. Registering'
  BY GatewayAssumption DEF TunnelInv, Register, Free, Used, Registering, Ready, Dir,
     GatewayOK, Settings, Id, Agreed, Filed, Numbered, Noted
<1>8. Tunnelling'
  BY GatewayAssumption DEF TunnelInv, Register, Free, Used, Tunnelling, Ready, Dir, Legacy,
     GatewayOK, Numbered
<1> QED
  BY <1>1, <1>2, <1>3, <1>4, <1>5, <1>6, <1>7, <1>8 DEF TunnelInv, GatewayOK

\* The one request to the gateway for this identifier.
LEMMA PostSafe ==
    ASSUME TunnelInv, Post
    PROVE  TunnelInv'
<1>1. (posts \in [Id -> 0 .. 2])'
  BY GatewayAssumption DEF TunnelInv, GatewayOK, Post, Id, Registering, Filling
<1>2. (loaded \in BOOLEAN /\ cancel \in BOOLEAN /\ shown \in BOOLEAN /\ up \in BOOLEAN)'
  BY GatewayAssumption DEF TunnelInv, GatewayOK, Post, enrolling
<1>3. (op \in Ops /\ tun \in Tunnel)'
  BY GatewayAssumption DEF TunnelInv, GatewayOK, Post, To, enrolling, Ops
<1>4. (/\ disk \in Settings
       /\ mem \in Settings
       /\ dirs \in [0 .. MaxId -> {"none", "partial", "ready"}]
       /\ last \in 0 .. MaxId
       /\ faults \in 0 .. MaxFault)'
  BY GatewayAssumption DEF TunnelInv, GatewayOK, Post, enrolling
<1>5. (Filed /\ Agreed /\ Registering /\ Tunnelling)'
  BY GatewayAssumption DEF TunnelInv, Post, To, enrolling, Filed, Agreed, Registering,
     Filling, Ready, Tunnelling
<1>6. (Noted(mem) /\ Noted(disk))'
  BY GatewayAssumption DEF TunnelInv, Post, enrolling, Noted, Registering, Filling
<1>7. Numbered'
  BY GatewayAssumption DEF TunnelInv, Post, enrolling, Numbered, UidOnce, Registering,
     Filling
<1> QED
  BY <1>1, <1>2, <1>3, <1>4, <1>5, <1>6, <1>7 DEF TunnelInv, GatewayOK

\* The certificate is written: the directory is complete before anything names it.
LEMMA IssueSafe ==
    ASSUME TunnelInv, Issue
    PROVE  TunnelInv'
<1>1. (loaded \in BOOLEAN /\ cancel \in BOOLEAN /\ shown \in BOOLEAN /\ up \in BOOLEAN)'
  BY GatewayAssumption DEF TunnelInv, GatewayOK, Issue, enrolling
<1>2. (op \in Ops /\ tun \in Tunnel)'
  BY GatewayAssumption DEF TunnelInv, GatewayOK, Issue, To, enrolling, Ops
<1>3. (/\ disk \in Settings
       /\ mem \in Settings
       /\ dirs \in [0 .. MaxId -> {"none", "partial", "ready"}]
       /\ posts \in [Id -> 0 .. 2]
       /\ last \in 0 .. MaxId
       /\ faults \in 0 .. MaxFault)'
  BY GatewayAssumption DEF TunnelInv, GatewayOK, Issue, To, enrolling, Settings, Id
<1>4. (Noted(mem) /\ Noted(disk) /\ Agreed /\ Tunnelling)'
  BY GatewayAssumption DEF TunnelInv, Issue, enrolling, Noted, Agreed, Tunnelling, Ready
<1>5. Filed'
  BY GatewayAssumption DEF TunnelInv, Issue, enrolling, Filed, Registering, Filling
<1>6. Numbered'
  BY GatewayAssumption DEF TunnelInv, Issue, enrolling, Numbered, UidOnce, Registering,
     Filling
<1>7. Registering'
  BY GatewayAssumption DEF TunnelInv, Issue, To, enrolling, Registering, Filling, Ready,
     Dir, Legacy, GatewayOK, Filed
<1> QED
  BY <1>1, <1>2, <1>3, <1>4, <1>5, <1>6, <1>7 DEF TunnelInv, GatewayOK

\* The request or the write of the certificate fails.
LEMMA EnrollFailsSafe ==
    ASSUME TunnelInv, EnrollFails
    PROVE  TunnelInv'
<1>1. (loaded \in BOOLEAN /\ cancel \in BOOLEAN /\ shown \in BOOLEAN /\ up \in BOOLEAN)'
  BY GatewayAssumption DEF TunnelInv, GatewayOK, EnrollFails, enrolling
<1>2. (op \in Ops /\ tun \in Tunnel)'
  BY GatewayAssumption DEF TunnelInv, GatewayOK, EnrollFails, To, enrolling, Ops
<1>3. (/\ disk \in Settings
       /\ mem \in Settings
       /\ dirs \in [0 .. MaxId -> {"none", "partial", "ready"}]
       /\ posts \in [Id -> 0 .. 2]
       /\ last \in 0 .. MaxId
       /\ faults \in 0 .. MaxFault)'
  BY GatewayAssumption DEF TunnelInv, GatewayOK, EnrollFails, enrolling
<1>4. (/\ Filed
       /\ Numbered
       /\ Noted(mem)
       /\ Noted(disk)
       /\ Agreed
       /\ Registering
       /\ Tunnelling)'
  BY GatewayAssumption DEF TunnelInv, EnrollFails, To, enrolling, Filed, Numbered, UidOnce,
     Noted, Agreed, Registering, Filling, Ready, Tunnelling
<1> QED
  BY <1>1, <1>2, <1>3, <1>4 DEF TunnelInv, GatewayOK

\* Without an active registration the identifier of the failed attempt is given up.
LEMMA GiveUpSafe ==
    ASSUME TunnelInv, GiveUp
    PROVE  TunnelInv'
<1>1. (/\ op \in Ops
       /\ tun \in Tunnel
       /\ dirs \in [0 .. MaxId -> {"none", "partial", "ready"}]
       /\ loaded \in BOOLEAN
       /\ cancel \in BOOLEAN
       /\ shown \in BOOLEAN
       /\ up \in BOOLEAN
       /\ posts \in [Id -> 0 .. 2]
       /\ faults \in 0 .. MaxFault)'
  BY GatewayAssumption DEF TunnelInv, GatewayOK, GiveUp, SaveOk, To, Ops, Tunnel, Id
<1>2. (disk \in Settings /\ mem \in Settings /\ last \in 0 .. MaxId)'
  BY GatewayAssumption DEF TunnelInv, GatewayOK, GiveUp, SaveOk, Settings, Registering,
     Filling
<1>3. (Agreed /\ Registering)'
  BY GatewayAssumption DEF TunnelInv, GiveUp, SaveOk, To, Agreed, Same, GatewayOK,
     Registering, Filling
<1>4. Numbered'
  BY GatewayAssumption DEF TunnelInv, GiveUp, SaveOk, Numbered, UidOnce, GatewayOK, Id
<1>5. Filed'
  BY GatewayAssumption DEF TunnelInv, GiveUp, SaveOk, Filed, GatewayOK, Registering,
     Filling, Ready, Dir
<1>6. Tunnelling'
  BY GatewayAssumption DEF TunnelInv, GiveUp, Tunnelling, Registering, Filling
<1>7. (Noted(mem) /\ Noted(disk))'
  BY GatewayAssumption DEF TunnelInv, GiveUp, SaveOk, Noted, GatewayOK, Id, Registering,
     Filling, Numbered
<1> QED
  BY <1>1, <1>2, <1>3, <1>4, <1>5, <1>6, <1>7 DEF TunnelInv, GatewayOK

\* That identifier could not be saved: the old one stays, and its directory tells.
LEMMA GiveUpUnsavedSafe ==
    ASSUME TunnelInv, GiveUpUnsaved
    PROVE  TunnelInv'
<1>1. (/\ disk \in Settings
       /\ mem \in Settings
       /\ tun \in Tunnel
       /\ dirs \in [0 .. MaxId -> {"none", "partial", "ready"}]
       /\ loaded \in BOOLEAN
       /\ cancel \in BOOLEAN
       /\ shown \in BOOLEAN
       /\ up \in BOOLEAN
       /\ posts \in [Id -> 0 .. 2]
       /\ last \in 0 .. MaxId
       /\ faults \in 0 .. MaxFault)'
  BY GatewayAssumption DEF TunnelInv, GatewayOK, GiveUpUnsaved, SaveFails
<1>2. (op \in Ops)'
  BY GatewayAssumption DEF GiveUpUnsaved, Ops, Settings, NoSettings, NoOp
<1>3. (Filed /\ Numbered /\ Noted(mem) /\ Noted(disk) /\ Agreed /\ Tunnelling)'
  BY GatewayAssumption DEF TunnelInv, GiveUpUnsaved, SaveFails, Filed, Numbered, UidOnce,
     Noted, Agreed, Tunnelling, Ready
<1>4. Registering'
  BY GatewayAssumption DEF GiveUpUnsaved, Registering, Filling, NoOp
<1> QED
  BY <1>1, <1>2, <1>3, <1>4 DEF TunnelInv, GatewayOK

\* A failed registration leaves the active one as it was.
LEMMA KeepActiveSafe ==
    ASSUME TunnelInv, KeepActive
    PROVE  TunnelInv'
<1>1. (loaded \in BOOLEAN /\ cancel \in BOOLEAN /\ shown \in BOOLEAN /\ up \in BOOLEAN)'
  BY GatewayAssumption DEF TunnelInv, GatewayOK, KeepActive, enrolling
<1>2. (op \in Ops /\ tun \in Tunnel)'
  BY GatewayAssumption DEF TunnelInv, GatewayOK, KeepActive, To, enrolling, Ops
<1>3. (/\ disk \in Settings
       /\ mem \in Settings
       /\ dirs \in [0 .. MaxId -> {"none", "partial", "ready"}]
       /\ posts \in [Id -> 0 .. 2]
       /\ last \in 0 .. MaxId
       /\ faults \in 0 .. MaxFault)'
  BY GatewayAssumption DEF TunnelInv, GatewayOK, KeepActive, enrolling
<1>4. (Filed /\ Numbered /\ Noted(mem) /\ Noted(disk) /\ Agreed /\ Tunnelling)'
  BY GatewayAssumption DEF TunnelInv, KeepActive, enrolling, Filed, Numbered, UidOnce,
     Noted, Agreed, Tunnelling, Ready
<1>5. Registering'
  BY GatewayAssumption DEF TunnelInv, KeepActive, To, enrolling, Registering, Filling,
     NoSettings, Agreed, Same
<1> QED
  BY <1>1, <1>2, <1>3, <1>4, <1>5 DEF TunnelInv, GatewayOK

\* The directory of a failed registration is removed, never the active one.
LEMMA DiscardSafe ==
    ASSUME TunnelInv, Discard
    PROVE  TunnelInv'
<1>1. (loaded \in BOOLEAN /\ cancel \in BOOLEAN /\ shown \in BOOLEAN /\ up \in BOOLEAN)'
  BY GatewayAssumption DEF TunnelInv, GatewayOK, Discard
<1>2. (op \in Ops /\ tun \in Tunnel)'
  BY GatewayAssumption DEF TunnelInv, GatewayOK, Discard, Ops, Settings, NoSettings, NoOp
<1>3. (/\ disk \in Settings
       /\ mem \in Settings
       /\ dirs \in [0 .. MaxId -> {"none", "partial", "ready"}]
       /\ posts \in [Id -> 0 .. 2]
       /\ last \in 0 .. MaxId
       /\ faults \in 0 .. MaxFault)'
  BY GatewayAssumption DEF TunnelInv, GatewayOK, Discard, Remove
<1>4. Agreed'
  BY GatewayAssumption DEF TunnelInv, Discard, Agreed
<1>5. Numbered'
  BY GatewayAssumption DEF TunnelInv, Discard, Remove, Numbered, UidOnce, GatewayOK, Id
<1>6. Registering'
  BY GatewayAssumption DEF Discard, Registering, Filling, NoOp
<1>7. Filed'
  BY GatewayAssumption DEF TunnelInv, Discard, Remove, Filed, GatewayOK, Settings,
     Registering, Legacy
<1>8. (Noted(mem) /\ Noted(disk))'
  BY GatewayAssumption DEF TunnelInv, Discard, Remove, Noted, Dir, Legacy, GatewayOK,
     Settings, Registering
<1>9. Tunnelling'
  BY GatewayAssumption DEF TunnelInv, Discard, Remove, Tunnelling, Ready, Dir, Legacy,
     GatewayOK, Settings, Registering
<1> QED
  BY <1>1, <1>2, <1>3, <1>4, <1>5, <1>6, <1>7, <1>8, <1>9 DEF TunnelInv, GatewayOK

\* The new identity is saved, and only then used.
LEMMA SwitchSafe ==
    ASSUME TunnelInv, Switch
    PROVE  TunnelInv'
<1>1. (tun \in Tunnel)'
  <2>1. tun \in Tunnel /\ cancel \in BOOLEAN /\ op.next \in Settings
    BY DEF TunnelInv, GatewayOK, Ops
  <2>2. tun' = [tun EXCEPT !.stop = TRUE] \/ Spawn(op.next)
    BY DEF Switch
  <2> QED
    BY <2>1, <2>2, TunnelTypes, SpawnType
<1>2. (cancel \in BOOLEAN)'
  <2>1. tun \in Tunnel /\ cancel \in BOOLEAN /\ op.next \in Settings
    BY DEF TunnelInv, GatewayOK, Ops
  <2>2. UNCHANGED cancel \/ Spawn(op.next)
    BY DEF Switch
  <2> QED
    BY <2>1, <2>2, SpawnType
<1>3. (loaded \in BOOLEAN /\ shown \in BOOLEAN /\ up \in BOOLEAN)'
  <2>1. loaded' = loaded /\ up' = up /\ (shown' = shown \/ shown' = FALSE)
    BY DEF Switch
  <2> QED
    BY Zenon, <2>1 DEF TunnelInv, GatewayOK
<1>4. (/\ op \in Ops
       /\ dirs \in [0 .. MaxId -> {"none", "partial", "ready"}]
       /\ posts \in [Id -> 0 .. 2]
       /\ last \in 0 .. MaxId
       /\ faults \in 0 .. MaxFault)'
  BY GatewayAssumption DEF TunnelInv, GatewayOK, Switch, SaveOk, To, Ops
<1>5. (disk \in Settings /\ mem \in Settings)'
  BY GatewayAssumption DEF TunnelInv, GatewayOK, Switch, SaveOk, Ops
<1>6. Registering'
  BY GatewayAssumption DEF TunnelInv, Switch, SaveOk, To, Registering, Filling, GatewayOK,
     Ops
<1>7. Tunnelling'
  BY GatewayAssumption DEF TunnelInv, Switch, SaveOk, Spawn, To, Tunnelling, Ready,
     GatewayOK, Ops
<1>8. Agreed'
  BY GatewayAssumption DEF TunnelInv, Switch, SaveOk, Agreed, Same, Registering, Filling
<1>9. Filed'
  BY GatewayAssumption DEF TunnelInv, Switch, SaveOk, Filed, Registering, Filling
<1>10. (Noted(mem) /\ Noted(disk))'
  BY GatewayAssumption DEF TunnelInv, Switch, SaveOk, Noted, Registering
<1>11. Numbered'
  BY GatewayAssumption DEF TunnelInv, Switch, SaveOk, Numbered, UidOnce, Registering,
     Filling
<1> QED
  BY <1>1, <1>2, <1>3, <1>4, <1>5, <1>6, <1>7, <1>8, <1>9, <1>10, <1>11 DEF TunnelInv,
     GatewayOK

\* The new identity could not be saved: the active one stays.
LEMMA SwitchFailsSafe ==
    ASSUME TunnelInv, SwitchFails
    PROVE  TunnelInv'
<1>1. (/\ disk \in Settings
       /\ tun \in Tunnel
       /\ dirs \in [0 .. MaxId -> {"none", "partial", "ready"}]
       /\ loaded \in BOOLEAN
       /\ cancel \in BOOLEAN
       /\ shown \in BOOLEAN
       /\ up \in BOOLEAN
       /\ posts \in [Id -> 0 .. 2]
       /\ last \in 0 .. MaxId
       /\ faults \in 0 .. MaxFault)'
  BY GatewayAssumption DEF TunnelInv, GatewayOK, SwitchFails, SaveFails
<1>2. (mem \in Settings)'
  BY GatewayAssumption DEF TunnelInv, GatewayOK, SwitchFails, Unsaved, Ops
<1>3. (op \in Ops)'
  BY GatewayAssumption DEF SwitchFails, Ops, Settings, NoSettings, NoOp
<1>4. Registering'
  BY GatewayAssumption DEF SwitchFails, Registering, Filling, NoOp
<1>5. Agreed'
  BY GatewayAssumption DEF TunnelInv, SwitchFails, SaveFails, Unsaved, Agreed, Registering,
     Filling
<1>6. Filed'
  BY GatewayAssumption DEF TunnelInv, SwitchFails, SaveFails, Unsaved, Filed, Registering,
     Filling
<1>7. (Noted(mem) /\ Noted(disk))'
  BY GatewayAssumption DEF TunnelInv, SwitchFails, SaveFails, Unsaved, Noted, Registering,
     Filling
<1>8. Numbered'
  BY GatewayAssumption DEF TunnelInv, SwitchFails, SaveFails, Unsaved, Numbered, UidOnce,
     Registering, Filling
<1>9. Tunnelling'
  BY GatewayAssumption DEF TunnelInv, SwitchFails, SaveFails, Unsaved, Tunnelling, Ready,
     Registering, Filling
<1> QED
  BY <1>1, <1>2, <1>3, <1>4, <1>5, <1>6, <1>7, <1>8, <1>9 DEF TunnelInv, GatewayOK

\* The tunnel of the former identity has gone, that of the new one runs.
LEMMA SwitchedSafe ==
    ASSUME TunnelInv, Switched
    PROVE  TunnelInv'
<1>1. (tun \in Tunnel /\ cancel \in BOOLEAN)'
  <2>1. tun \in Tunnel /\ cancel \in BOOLEAN /\ mem \in Settings
    BY DEF TunnelInv, GatewayOK
  <2> QED
    BY <2>1, SpawnType DEF Switched
<1>2. (loaded \in BOOLEAN /\ shown \in BOOLEAN /\ up \in BOOLEAN)'
  BY Zenon DEF TunnelInv, GatewayOK, Switched
<1>3. (/\ disk \in Settings
       /\ mem \in Settings
       /\ op \in Ops
       /\ dirs \in [0 .. MaxId -> {"none", "partial", "ready"}]
       /\ posts \in [Id -> 0 .. 2]
       /\ last \in 0 .. MaxId
       /\ faults \in 0 .. MaxFault)'
  BY GatewayAssumption DEF TunnelInv, GatewayOK, Switched, Stopped, Spawn, To, Settings,
     Ops, Id
<1>4. (Filed /\ Numbered /\ Noted(mem) /\ Noted(disk) /\ Agreed /\ Registering)'
  BY GatewayAssumption DEF TunnelInv, Switched, To, Filed, Numbered, UidOnce, Noted, Agreed,
     Registering, Filling
<1>5. Tunnelling'
  BY GatewayAssumption DEF TunnelInv, Switched, Stopped, Spawn, Tunnelling, Ready,
     Registering
<1> QED
  BY <1>1, <1>2, <1>3, <1>4, <1>5 DEF TunnelInv, GatewayOK

\* The directory of the former identity is removed.
LEMMA CleanSafe ==
    ASSUME TunnelInv, Clean
    PROVE  TunnelInv'
<1>1. (loaded \in BOOLEAN /\ cancel \in BOOLEAN /\ shown \in BOOLEAN /\ up \in BOOLEAN)'
  BY GatewayAssumption DEF TunnelInv, GatewayOK, Clean
<1>2. (op \in Ops /\ tun \in Tunnel)'
  BY GatewayAssumption DEF TunnelInv, GatewayOK, Clean, Ops, Settings, NoSettings, NoOp
<1>3. (/\ disk \in Settings
       /\ mem \in Settings
       /\ dirs \in [0 .. MaxId -> {"none", "partial", "ready"}]
       /\ posts \in [Id -> 0 .. 2]
       /\ last \in 0 .. MaxId
       /\ faults \in 0 .. MaxFault)'
  BY GatewayAssumption DEF TunnelInv, GatewayOK, Clean, Remove
<1>4. Agreed'
  BY GatewayAssumption DEF TunnelInv, Clean, Agreed
<1>5. Numbered'
  BY GatewayAssumption DEF TunnelInv, Clean, Remove, Numbered, UidOnce, GatewayOK, Id
<1>6. Registering'
  BY GatewayAssumption DEF Clean, Registering, Filling, NoOp
<1>7. Filed'
  BY GatewayAssumption DEF TunnelInv, Clean, Remove, Filed, GatewayOK, Settings, Registering
<1>8. (Noted(mem) /\ Noted(disk))'
  BY GatewayAssumption DEF TunnelInv, Clean, Remove, Noted, Dir, GatewayOK, Settings,
     Registering
<1>9. Tunnelling'
  BY GatewayAssumption DEF TunnelInv, Clean, Remove, Tunnelling, Ready, Dir, GatewayOK,
     Settings, Registering
<1> QED
  BY <1>1, <1>2, <1>3, <1>4, <1>5, <1>6, <1>7, <1>8, <1>9 DEF TunnelInv, GatewayOK

-----------------------------------------------------------------------------
(* The goroutine of the tunnel *)

\* The goroutine reads the files of its directory.
LEMMA ReadFilesSafe ==
    ASSUME TunnelInv, ReadFiles
    PROVE  TunnelInv'
<1>1. (loaded \in BOOLEAN /\ cancel \in BOOLEAN /\ shown \in BOOLEAN /\ up \in BOOLEAN)'
  BY GatewayAssumption DEF TunnelInv, GatewayOK, ReadFiles, registry
<1>2. (op \in Ops /\ tun \in Tunnel)'
  BY GatewayAssumption DEF TunnelInv, GatewayOK, ReadFiles, Becomes, registry, Tunnel
<1>3. (/\ disk \in Settings
       /\ mem \in Settings
       /\ dirs \in [0 .. MaxId -> {"none", "partial", "ready"}]
       /\ posts \in [Id -> 0 .. 2]
       /\ last \in 0 .. MaxId
       /\ faults \in 0 .. MaxFault)'
  BY GatewayAssumption DEF TunnelInv, GatewayOK, ReadFiles, registry
<1>4. (/\ Filed
       /\ Numbered
       /\ Noted(mem)
       /\ Noted(disk)
       /\ Agreed
       /\ Registering
       /\ Tunnelling)'
  BY GatewayAssumption DEF TunnelInv, ReadFiles, Becomes, registry, Filed, Numbered,
     UidOnce, Noted, Agreed, Registering, Ready, Tunnelling
<1> QED
  BY <1>1, <1>2, <1>3, <1>4 DEF TunnelInv, GatewayOK

\* It dials the gateway.
LEMMA DialOutSafe ==
    ASSUME TunnelInv, DialOut
    PROVE  TunnelInv'
<1>1. (loaded \in BOOLEAN /\ cancel \in BOOLEAN /\ shown \in BOOLEAN /\ up \in BOOLEAN)'
  BY GatewayAssumption DEF TunnelInv, GatewayOK, DialOut, registry
<1>2. (op \in Ops /\ tun \in Tunnel)'
  BY GatewayAssumption DEF TunnelInv, GatewayOK, DialOut, Becomes, registry, Tunnel
<1>3. (/\ disk \in Settings
       /\ mem \in Settings
       /\ dirs \in [0 .. MaxId -> {"none", "partial", "ready"}]
       /\ posts \in [Id -> 0 .. 2]
       /\ last \in 0 .. MaxId
       /\ faults \in 0 .. MaxFault)'
  BY GatewayAssumption DEF TunnelInv, GatewayOK, DialOut, registry
<1>4. (/\ Filed
       /\ Numbered
       /\ Noted(mem)
       /\ Noted(disk)
       /\ Agreed
       /\ Registering
       /\ Tunnelling)'
  BY GatewayAssumption DEF TunnelInv, DialOut, Becomes, registry, Filed, Numbered, UidOnce,
     Noted, Agreed, Registering, Ready, Tunnelling
<1> QED
  BY <1>1, <1>2, <1>3, <1>4 DEF TunnelInv, GatewayOK

\* It cannot reach the gateway.
LEMMA DialFailsSafe ==
    ASSUME TunnelInv, DialFails
    PROVE  TunnelInv'
<1>1. (loaded \in BOOLEAN /\ cancel \in BOOLEAN /\ shown \in BOOLEAN /\ up \in BOOLEAN)'
  BY GatewayAssumption DEF TunnelInv, GatewayOK, DialFails, registry
<1>2. (op \in Ops /\ tun \in Tunnel)'
  BY GatewayAssumption DEF TunnelInv, GatewayOK, DialFails, Becomes, registry, Tunnel
<1>3. (/\ disk \in Settings
       /\ mem \in Settings
       /\ dirs \in [0 .. MaxId -> {"none", "partial", "ready"}]
       /\ posts \in [Id -> 0 .. 2]
       /\ last \in 0 .. MaxId
       /\ faults \in 0 .. MaxFault)'
  BY GatewayAssumption DEF TunnelInv, GatewayOK, DialFails, registry
<1>4. (/\ Filed
       /\ Numbered
       /\ Noted(mem)
       /\ Noted(disk)
       /\ Agreed
       /\ Registering
       /\ Tunnelling)'
  BY GatewayAssumption DEF TunnelInv, DialFails, Becomes, registry, Filed, Numbered,
     UidOnce, Noted, Agreed, Registering, Ready, Tunnelling
<1> QED
  BY <1>1, <1>2, <1>3, <1>4 DEF TunnelInv, GatewayOK

\* It reports that it is connected.
LEMMA TellUpSafe ==
    ASSUME TunnelInv, TellUp
    PROVE  TunnelInv'
<1>1. (loaded \in BOOLEAN /\ cancel \in BOOLEAN /\ shown \in BOOLEAN /\ up \in BOOLEAN)'
  BY GatewayAssumption DEF TunnelInv, GatewayOK, TellUp, registry
<1>2. (op \in Ops /\ tun \in Tunnel)'
  BY GatewayAssumption DEF TunnelInv, GatewayOK, TellUp, Becomes, registry, Tunnel
<1>3. (/\ disk \in Settings
       /\ mem \in Settings
       /\ dirs \in [0 .. MaxId -> {"none", "partial", "ready"}]
       /\ posts \in [Id -> 0 .. 2]
       /\ last \in 0 .. MaxId
       /\ faults \in 0 .. MaxFault)'
  BY GatewayAssumption DEF TunnelInv, GatewayOK, TellUp, registry
<1>4. (/\ Filed
       /\ Numbered
       /\ Noted(mem)
       /\ Noted(disk)
       /\ Agreed
       /\ Registering
       /\ Tunnelling)'
  BY GatewayAssumption DEF TunnelInv, TellUp, Becomes, registry, Filed, Numbered, UidOnce,
     Noted, Agreed, Registering, Ready, Tunnelling
<1> QED
  BY <1>1, <1>2, <1>3, <1>4 DEF TunnelInv, GatewayOK

\* It reports that it has lost the connection.
LEMMA TellDownSafe ==
    ASSUME TunnelInv, TellDown
    PROVE  TunnelInv'
<1>1. (loaded \in BOOLEAN /\ cancel \in BOOLEAN /\ shown \in BOOLEAN /\ up \in BOOLEAN)'
  BY Zenon DEF TellDown, registry, TunnelInv, GatewayOK
<1>2. (/\ disk \in Settings
       /\ mem \in Settings
       /\ op \in Ops
       /\ tun \in Tunnel
       /\ dirs \in [0 .. MaxId -> {"none", "partial", "ready"}]
       /\ posts \in [Id -> 0 .. 2]
       /\ last \in 0 .. MaxId
       /\ faults \in 0 .. MaxFault)'
  BY GatewayAssumption DEF TunnelInv, GatewayOK, TellDown, Becomes, registry, Settings, Ops,
     Tunnel, Id
<1>3. (/\ Filed
       /\ Numbered
       /\ Noted(mem)
       /\ Noted(disk)
       /\ Agreed
       /\ Registering
       /\ Tunnelling)'
  BY GatewayAssumption DEF TunnelInv, TellDown, Becomes, registry, Filed, Numbered, UidOnce,
     Noted, Agreed, Registering, Ready, Tunnelling
<1> QED
  BY <1>1, <1>2, <1>3 DEF TunnelInv, GatewayOK

\* The session has ended.
LEMMA ServeEndsSafe ==
    ASSUME TunnelInv, ServeEnds
    PROVE  TunnelInv'
<1>1. (loaded \in BOOLEAN /\ cancel \in BOOLEAN /\ shown \in BOOLEAN /\ up \in BOOLEAN)'
  BY GatewayAssumption DEF TunnelInv, GatewayOK, ServeEnds, registry
<1>2. (op \in Ops /\ tun \in Tunnel)'
  BY GatewayAssumption DEF TunnelInv, GatewayOK, ServeEnds, Becomes, registry, Tunnel
<1>3. (/\ disk \in Settings
       /\ mem \in Settings
       /\ dirs \in [0 .. MaxId -> {"none", "partial", "ready"}]
       /\ posts \in [Id -> 0 .. 2]
       /\ last \in 0 .. MaxId
       /\ faults \in 0 .. MaxFault)'
  BY GatewayAssumption DEF TunnelInv, GatewayOK, ServeEnds, registry
<1>4. (/\ Filed
       /\ Numbered
       /\ Noted(mem)
       /\ Noted(disk)
       /\ Agreed
       /\ Registering
       /\ Tunnelling)'
  BY GatewayAssumption DEF TunnelInv, ServeEnds, Becomes, registry, Filed, Numbered,
     UidOnce, Noted, Agreed, Registering, Ready, Tunnelling
<1> QED
  BY <1>1, <1>2, <1>3, <1>4 DEF TunnelInv, GatewayOK

\* It waits and tries again, or stops.
LEMMA BackoffSafe ==
    ASSUME TunnelInv, Backoff
    PROVE  TunnelInv'
<1>1. (/\ disk \in Settings
       /\ mem \in Settings
       /\ op \in Ops
       /\ tun \in Tunnel
       /\ dirs \in [0 .. MaxId -> {"none", "partial", "ready"}]
       /\ loaded \in BOOLEAN
       /\ cancel \in BOOLEAN
       /\ shown \in BOOLEAN
       /\ up \in BOOLEAN
       /\ posts \in [Id -> 0 .. 2]
       /\ last \in 0 .. MaxId
       /\ faults \in 0 .. MaxFault)'
  BY GatewayAssumption DEF TunnelInv, GatewayOK, Backoff, Becomes, registry, Settings, Ops,
     Tunnel, Id
<1>2. (/\ Filed
       /\ Numbered
       /\ Noted(mem)
       /\ Noted(disk)
       /\ Agreed
       /\ Registering
       /\ Tunnelling)'
  BY GatewayAssumption DEF TunnelInv, Backoff, Becomes, registry, Filed, Numbered, UidOnce,
     Noted, Agreed, Registering, Ready, Tunnelling
<1> QED
  BY <1>1, <1>2 DEF TunnelInv, GatewayOK

-----------------------------------------------------------------------------
(* The invariant of the registration and of the tunnel *)
\* The state of an installation that the process has not been started on.
LEMMA TunnelInit ==
    ASSUME NEW st \in Starts, InitFrom(st)
    PROVE  TunnelInv
<1> DEFINE Fits(t) ==
             /\ t.settings \in Settings /\ t.dir \in {"none", "partial", "ready"}
             /\ t.settings.isolated => t.settings.id # 0 /\ t.dir = "ready"
             /\ t.settings.id = 0 => t.settings = NoSettings /\ t.dir = "none"
             /\ t.settings.id # 0 => t.dir # "none"
<1>1. Fits(st)
  <2>1. CASE st = [settings |-> NoSettings, dir |-> "none"]
    BY <2>1, SettingsType DEF NoSettings
  <2>2. ASSUME NEW i \in BOOLEAN, NEW e \in BOOLEAN, NEW d \in {"partial", "ready"},
               i => d = "ready"
        PROVE  Fits(Registration(i, e, d))
    <3>1. [id |-> 1, isolated |-> i, enabled |-> e] \in Settings
      BY SettingsType, GatewayAssumption
    <3> QED
      BY <2>2, <3>1 DEF Registration
  <2>3. \/ st = [settings |-> NoSettings, dir |-> "none"]
        \/ \E i \in BOOLEAN, e \in BOOLEAN, d \in {"partial", "ready"} :
              (i => d = "ready") /\ st = Registration(i, e, d)
    BY DEF Starts
  <2> QED
    BY <2>1, <2>2, <2>3
<1>2. (disk \in Settings /\ mem \in Settings /\ last \in 0 .. MaxId /\ faults \in 0 .. MaxFault)
  BY <1>1, GatewayAssumption, SettingsType DEF InitFrom, Settings
<1>3. op \in Ops /\ tun \in Tunnel
  BY SettingsType, TunnelTypes DEF InitFrom, NoOp, Ops
<1>4. dirs \in [0 .. MaxId -> {"none", "partial", "ready"}] /\ posts \in [Id -> 0 .. 2]
  BY <1>1 DEF InitFrom
<1>5. loaded \in BOOLEAN /\ cancel \in BOOLEAN /\ shown \in BOOLEAN /\ up \in BOOLEAN
  BY DEF InitFrom
<1>6. GatewayOK
  BY <1>2, <1>3, <1>4, <1>5 DEF GatewayOK
<1>7. Filed
  <2>1. disk.id = 0 => disk = NoSettings /\ dirs[Legacy] = "none"
    BY <1>1, GatewayAssumption DEF InitFrom, Legacy
  <2>2. ~mem.isolated
    BY DEF InitFrom, NoSettings
  <2>3. disk.isolated => disk.id # 0 /\ dirs[disk.id] = "ready"
    BY <1>1, <1>2 DEF InitFrom, Dir, Settings
  <2> QED
    BY <2>1, <2>2, <2>3 DEF Filed
<1>8. Numbered
  <2>1. mem.id <= last /\ disk.id <= last
    BY <1>1 DEF InitFrom, NoSettings, Settings
  <2>2. \A i \in Id : posts[i] = (IF i = last THEN 1 ELSE 0)
    BY DEF InitFrom
  <2>3. ASSUME NEW i \in Id, i > last PROVE dirs[i] = "none"
    BY <1>1, <2>3, GatewayAssumption DEF InitFrom, Id, Dir, Legacy, Settings
  <2> QED
    BY <1>2, <2>1, <2>2, <2>3 DEF Numbered, UidOnce, Id
<1>9. Noted(mem) /\ Noted(disk)
  BY <1>1, GatewayAssumption DEF InitFrom, Noted, Dir, Legacy, NoSettings, Settings, Id
<1>10. Agreed /\ Registering /\ Tunnelling
  BY DEF InitFrom, Agreed, Registering, Tunnelling, NoOp, Off, NoSettings, Filling
<1> QED
  BY <1>6, <1>7, <1>8, <1>9, <1>10 DEF TunnelInv

\* A step that leaves the registration and the tunnel alone.
LEMMA TunnelStutter ==
    ASSUME TunnelInv, UNCHANGED gateway
    PROVE  TunnelInv'
<1>1. GatewayOK'
  BY DEF TunnelInv, GatewayOK, gateway, registry
<1>2. (Filed /\ Numbered /\ Noted(mem) /\ Noted(disk))'
  BY DEF TunnelInv, Filed, Numbered, UidOnce, Noted, Dir, gateway, registry
<1>3. (Agreed /\ Registering /\ Tunnelling)'
  BY DEF TunnelInv, Agreed, Same, Registering, Tunnelling, Ready, Dir, gateway, registry
<1> QED
  BY <1>1, <1>2, <1>3 DEF TunnelInv

-----------------------------------------------------------------------------
(* The multiplexer: every step of a phone keeps MuxInv *)

\* A stream that has not shown its preface carries nothing.
Bare == \A p \in Phone : conn[p].pc # "run" => conn[p].open = 0

MuxInv == MuxOK /\ Bounded /\ Bare

\* What conn holds after a step of one phone.
LEMMA SetType ==
    ASSUME MuxInv, NEW p \in Phone, NEW c \in Conn, Set(p, c),
           c.wait + c.served <= c.open, c.wait + c.served <= Limit, c.pc # "run" => c.open = 0,
           alive' \in BOOLEAN, listener' \in {"none", "open", "closed"}
    PROVE  MuxInv' /\ \A q \in Phone \ {p} : conn'[q] = conn[q]
BY DEF MuxInv, MuxOK, Bounded, Bare, Set

\* A stream that the server takes, and one that ends.
LEMMA TakenType ==
    ASSUME NEW c \in Conn, c.served + 1 \in 0 .. Limit + 1
    PROVE  /\ [c EXCEPT !.wait = 0, !.served = @ + 1] \in Conn
           /\ [c EXCEPT !.wait = 0, !.served = @ + 1].open = c.open
           /\ [c EXCEPT !.wait = 0, !.served = @ + 1].pc = c.pc
           /\ [c EXCEPT !.wait = 0, !.served = @ + 1].wait = 0
           /\ [c EXCEPT !.wait = 0, !.served = @ + 1].served = c.served + 1
<1>1. [c EXCEPT !.wait = 0] \in Conn
  <2>1. 0 \in 0 .. 1
    OBVIOUS
  <2> QED
    BY <2>1 DEF Conn
<1> QED
  BY <1>1 DEF Conn

LEMMA EndedType ==
    ASSUME NEW c \in Conn, c.served - 1 \in 0 .. Limit + 1, c.open - 1 \in 0 .. Limit + 1
    PROVE  /\ [c EXCEPT !.served = @ - 1, !.open = @ - 1] \in Conn
           /\ [c EXCEPT !.served = @ - 1, !.open = @ - 1].open = c.open - 1
           /\ [c EXCEPT !.served = @ - 1, !.open = @ - 1].pc = c.pc
           /\ [c EXCEPT !.served = @ - 1, !.open = @ - 1].wait = c.wait
           /\ [c EXCEPT !.served = @ - 1, !.open = @ - 1].served = c.served - 1
BY DEF Conn

\* A session without streams.
LEMMA NoStream == NoConn \in Conn /\ NoConn.wait = 0 /\ NoConn.served = 0 /\ NoConn.open = 0
BY MuxAssumption DEF NoConn, Conn

\* No session at all.
LEMMA Empty ==
    /\ alive = FALSE /\ listener = "none" /\ conn = [p \in Phone |-> NoConn] => MuxInv
    /\ alive' = FALSE /\ listener' = "none" /\ conn' = [p \in Phone |-> NoConn] => MuxInv'
<1>1. 0 + 0 <= 0 /\ 0 + 0 <= Limit
  BY MuxAssumption
<1>2. ASSUME alive = FALSE, listener = "none", conn = [p \in Phone |-> NoConn] PROVE MuxInv
  <2>1. (\A p \in Phone : conn[p] = NoConn) /\ conn \in [Phone -> Conn]
    BY <1>2, NoStream
  <2>2. MuxOK
    BY <1>1, <1>2, <2>1, NoStream DEF MuxOK
  <2> QED
    BY <1>1, <2>1, <2>2, NoStream DEF MuxInv, Bounded, Bare
<1>3. ASSUME alive' = FALSE, listener' = "none", conn' = [p \in Phone |-> NoConn] PROVE MuxInv'
  <2>1. (\A p \in Phone : conn'[p] = NoConn) /\ conn' \in [Phone -> Conn]
    BY <1>3, NoStream
  <2>2. MuxOK'
    BY <1>1, <1>3, <2>1, NoStream DEF MuxOK
  <2> QED
    BY <1>1, <2>1, <2>2, NoStream DEF MuxInv, Bounded, Bare
<1> QED
  BY <1>2, <1>3

\* Every step of a phone or of the server for it sets that phone's stream alone, to one
\* that is within the limit.
LEMMA PhoneSafe ==
    ASSUME MuxInv, NEW p \in Phone, ServerStep(p) \/ PhoneStep(p) \/ PrefaceFails(p)
    PROVE  MuxInv' /\ \A q \in Phone \ {p} : conn'[q] = conn[q]
<1> DEFINE Good(c) == /\ c \in Conn /\ c.wait + c.served <= c.open /\ c.wait + c.served <= Limit
                      /\ c.pc # "run" => c.open = 0
<1>1. Good(conn[p])
  BY DEF MuxInv, MuxOK, Bounded, Bare
<1>2. Good(NoConn)
  BY MuxAssumption DEF NoConn, Conn
<1>3. alive \in BOOLEAN /\ listener \in {"none", "open", "closed"}
  BY DEF MuxInv, MuxOK
<1>4. CASE Dial(p)
  <2> DEFINE c == [NoConn EXCEPT !.pc = "backlog", !.mine = TRUE]
  <2>1. c \in Conn
    BY <1>2 DEF Conn
  <2>2. c.open = 0 /\ c.wait = 0 /\ c.served = 0
    BY DEF NoConn
  <2>3. Good(c)
    BY <2>1, <2>2, MuxAssumption
  <2> QED
    BY <1>3, <1>4, <2>3, SetType DEF Dial
<1>5. CASE AcceptStream(p)
  <2>1. Good([conn[p] EXCEPT !.pc = "peek"])
    BY <1>1, <1>5 DEF Conn, AcceptStream
  <2> QED
    BY <1>3, <1>5, <2>1, SetType DEF AcceptStream
<1>6. CASE Preface(p)
  <2>1. Good([conn[p] EXCEPT !.pc = "run"])
    BY <1>1 DEF Conn
  <2>2. Good([conn[p] EXCEPT !.pc = "run", !.open = 1, !.wait = 1])
    <3>1. conn[p].open = 0 /\ conn[p].wait = 0 /\ conn[p].served = 0
      BY <1>1, <1>6 DEF Conn, Preface
    <3>2. 1 \in 0 .. Limit + 1 /\ 1 \in 0 .. 1 /\ 1 + 0 <= 1 /\ 1 + 0 <= Limit
      BY MuxAssumption
    <3> QED
      BY <1>1, <3>1, <3>2 DEF Conn
  <2>3. PICK c : Good(c) /\ Set(p, c) /\ UNCHANGED <<alive, listener>>
    BY <1>6, <2>1, <2>2 DEF Preface
  <2> QED
    BY <1>3, <2>3, SetType
<1>7. CASE OpenStream(p)
  <2>1. Good([conn[p] EXCEPT !.open = @ + 1])
    BY <1>1, <1>7, MuxAssumption DEF Conn, OpenStream
  <2> QED
    BY <1>3, <1>7, <2>1, SetType DEF OpenStream
<1>8. CASE TakeStream(p)
  <2>1. conn[p].open <= Limit => Good([conn[p] EXCEPT !.wait = 1])
    BY <1>1, <1>8, MuxAssumption DEF Conn, TakeStream, Unseen
  <2>2. PICK c : Good(c) /\ Set(p, c) /\ UNCHANGED <<alive, listener>>
    BY <1>1, <1>2, <1>8, <2>1, MuxAssumption DEF TakeStream, Conn
  <2> QED
    BY <1>3, <2>2, SetType
<1>9. CASE Accept(p)
  <2> DEFINE c == [conn[p] EXCEPT !.wait = 0, !.served = @ + 1]
  <2>1. Good(c)
    <3>1. conn[p].wait = 1 /\ conn[p].served \in Nat /\ conn[p].served + 1 <= Limit
      BY <1>1, <1>9, MuxAssumption DEF Conn, Accept
    <3>2. conn[p].served + 1 \in 0 .. Limit + 1
      BY <3>1, MuxAssumption
    <3>3. c \in Conn /\ c.open = conn[p].open /\ c.pc = conn[p].pc /\ c.wait = 0 /\ c.served = conn[p].served + 1
      BY <1>1, <3>2, TakenType
    <3> QED
      BY <1>1, <1>9, <3>1, <3>3, MuxAssumption DEF Conn
  <2> QED
    BY <1>3, <1>9, <2>1, SetType DEF Accept
<1>10. CASE EndStream(p)
  <2> DEFINE c == [conn[p] EXCEPT !.served = @ - 1, !.open = @ - 1]
  <2>1. Good(c)
    <3>1. /\ conn[p].served - 1 \in 0 .. Limit + 1 /\ conn[p].open - 1 \in 0 .. Limit + 1
          /\ conn[p].served \in Nat /\ conn[p].open \in Nat /\ conn[p].wait \in Nat
      BY <1>1, <1>10, MuxAssumption DEF Conn, EndStream
    <3>2. c \in Conn /\ c.open = conn[p].open - 1 /\ c.pc = conn[p].pc /\ c.wait = conn[p].wait /\ c.served = conn[p].served - 1
      BY <1>1, <3>1, EndedType
    <3> QED
      BY <1>1, <3>1, <3>2, MuxAssumption
  <2>2. PICK d : Good(d) /\ Set(p, d) /\ UNCHANGED <<alive, listener>>
    BY <1>2, <1>10, <2>1 DEF EndStream
  <2> QED
    BY <1>3, <2>2, SetType
<1>11. CASE HangUp(p) \/ SessionGone(p) \/ Undeliverable(p) \/ PrefaceFails(p)
  BY <1>2, <1>3, <1>11, SetType DEF HangUp, SessionGone, Undeliverable, PrefaceFails
<1> QED
  BY <1>4, <1>5, <1>6, <1>7, <1>8, <1>9, <1>10, <1>11 DEF ServerStep, PhoneStep

\* The session and its listener come and go: what the phones hold stays within the limit.
LEMMA SessionSafe ==
    ASSUME MuxInv,
           \/ Listen \/ CloseListener \/ Lose \/ UNCHANGED mux
           \/ alive' = FALSE /\ listener' = "none" /\ conn' = [p \in Phone |-> NoConn]
    PROVE  MuxInv'
<1>1. /\ alive \in BOOLEAN /\ listener \in {"none", "open", "closed"} /\ conn \in [Phone -> Conn]
      /\ \A p \in Phone : /\ conn[p].wait + conn[p].served <= conn[p].open
                          /\ conn[p].wait + conn[p].served <= Limit
                          /\ conn[p].pc # "run" => conn[p].open = 0
  BY DEF MuxInv, MuxOK, Bounded, Bare
<1>2. CASE Listen
  <2>1. \A p \in Phone :
           /\ [conn[p] EXCEPT !.mine = FALSE] \in Conn
           /\ [conn[p] EXCEPT !.mine = FALSE].wait + [conn[p] EXCEPT !.mine = FALSE].served
                <= [conn[p] EXCEPT !.mine = FALSE].open
           /\ [conn[p] EXCEPT !.mine = FALSE].wait + [conn[p] EXCEPT !.mine = FALSE].served <= Limit
           /\ [conn[p] EXCEPT !.mine = FALSE].pc # "run" => [conn[p] EXCEPT !.mine = FALSE].open = 0
    BY <1>1 DEF Conn
  <2> QED
    BY <1>1, <1>2, <2>1 DEF Listen, MuxInv, MuxOK, Bounded, Bare
<1>3. CASE CloseListener \/ Lose \/ UNCHANGED mux
  BY <1>1, <1>3 DEF CloseListener, Lose, mux, MuxInv, MuxOK, Bounded, Bare
<1>4. CASE alive' = FALSE /\ listener' = "none" /\ conn' = [p \in Phone |-> NoConn]
  BY <1>4, Empty
<1> QED
  BY <1>2, <1>3, <1>4

-----------------------------------------------------------------------------
(* The tunnel and the session together *)

Inv == TunnelInv /\ MuxInv /\ scene \in Scene

\* A process that has not been started, on any installation.
LEMMA InvInit == Init => Inv
<1> SUFFICES ASSUME Init PROVE Inv
  OBVIOUS
<1>1. TunnelInv
  BY TunnelInit DEF Init
<1>2. MuxInv
  BY Empty DEF Init, InitMux
<1> QED
  BY <1>1, <1>2 DEF Init, Inv

\* A step of the registration or of the tunnel, and what the session does meanwhile.
LEMMA TunnelNext ==
    ASSUME TunnelInv, Next
    PROVE  TunnelInv'
<1>1. CASE Administer
  BY <1>1, ResumeSafe, PauseSafe, RegisterSafe DEF Administer
<1>2. CASE StartUp
  BY <1>2, StartSafe, LoadLaterSafe DEF StartUp
<1>3. CASE CallGoesOn
  BY <1>3, PausedSafe, PostSafe, IssueSafe, EnrollFailsSafe, GiveUpSafe, GiveUpUnsavedSafe,
     KeepActiveSafe, DiscardSafe, SwitchSafe, SwitchFailsSafe, SwitchedSafe, CleanSafe
     DEF CallGoesOn, OpStep
<1>4. CASE TunnelGoesOn \/ NoConnection \/ ServeReturns
  BY <1>4, ReadFilesSafe, DialOutSafe, TellUpSafe, TellDownSafe, BackoffSafe, DialFailsSafe,
     ServeEndsSafe DEF TunnelGoesOn, TunnelStep, NoConnection, ServeReturns
<1>5. CASE Cancelled \/ Drop \/ KeepAliveFails \/ Traffic \/ RunReturns \/ \E p \in Phone : Serves(p)
  BY <1>5, TunnelStutter DEF Cancelled, Drop, KeepAliveFails, Traffic, RunReturns, Serves
<1>6. CASE Dies
  BY <1>6, CrashSafe DEF Dies
<1> QED
  BY <1>1, <1>2, <1>3, <1>4, <1>5, <1>6 DEF Next

\* The same steps for the phones of the session.
LEMMA MuxNext ==
    ASSUME MuxInv, Next
    PROVE  MuxInv'
<1>1. CASE Administer \/ StartUp \/ CallGoesOn \/ NoConnection \/ ServeReturns
  BY <1>1, SessionSafe DEF Administer, StartUp, CallGoesOn, NoConnection, ServeReturns
<1>2. CASE TunnelGoesOn
  BY <1>2, SessionSafe DEF TunnelGoesOn
<1>3. CASE Cancelled \/ Drop \/ KeepAliveFails \/ RunReturns \/ Dies
  BY <1>3, SessionSafe DEF Cancelled, Drop, KeepAliveFails, RunReturns, RunEnds, Dies
<1>4. CASE Traffic \/ \E p \in Phone : Serves(p)
  BY <1>4, PhoneSafe DEF Traffic, Serves
<1> QED
  BY <1>1, <1>2, <1>3, <1>4 DEF Next

\* Every step of Gateway keeps the whole invariant.
LEMMA InvNext == Inv /\ [Next]_vars => Inv'
<1> SUFFICES ASSUME Inv, [Next]_vars PROVE Inv'
  OBVIOUS
<1>1. CASE Next
  <2>1. scene' = scene
    BY <1>1 DEF Next, Administer, StartUp, CallGoesOn, TunnelGoesOn, NoConnection,
       Cancelled,
       ServeReturns, Drop, KeepAliveFails, Traffic, Serves, RunReturns, Dies
  <2> QED
    BY <1>1, <2>1, TunnelNext, MuxNext DEF Inv
<1>2. CASE UNCHANGED vars
  BY <1>2, TunnelStutter, SessionSafe DEF Inv, vars
<1> QED
  BY <1>1, <1>2

\* The invariant holds in every state of every behaviour.
THEOREM Invariance == Spec => []Inv
<1> QED
  BY InvInit, InvNext, PTL DEF Spec

\* Whatever fails, crashes or is given up, the gateway is asked for an identifier at most
\* once: the next attempt draws another one (gateway.go:255).
THEOREM AskedOnceAlways == Spec => []AskedOnce
<1>1. Inv => AskedOnce
  BY DEF Inv, TunnelInv, Numbered, AskedOnce
<1> QED
  BY <1>1, Invariance, PTL

\* Between two calls the process and the file name one identity, a running tunnel is that
\* of the active registration (gateway.go:192-203, 232, 285), and no phone has more
\* requests in service than its limit (multiplex.go:79).
THEOREM OneRegistrationAlways == Spec => []OneRegistration
<1>1. Inv => OneRegistration
  <2> SUFFICES ASSUME Inv PROVE OneRegistration
    OBVIOUS
  <2>1. TypeOK /\ PhoneBounded
    BY DEF Inv, TunnelInv, MuxInv, TypeOK, PhoneBounded
  <2>2. OneIdentity
    <3>1. ASSUME Free, Ready(mem) PROVE Same(mem, disk)
      <4>1. mem.id # 0 /\ (Same(mem, disk) \/ (disk = NoSettings /\ ~mem.isolated))
        BY <3>1, Zenon DEF Inv, TunnelInv, Agreed, Free
      <4>2. ~(disk = NoSettings /\ ~mem.isolated)
        BY <3>1 DEF Inv, TunnelInv, Filed, Ready, Dir, NoSettings
      <4> QED
        BY <4>1, <4>2
    <3> QED
      BY <3>1 DEF OneIdentity, SameIdentity, Same
  <2>3. NoOldTunnel
    BY DEF Inv, TunnelInv, Tunnelling, NoOldTunnel, TunnelMatches
  <2> QED
    BY <2>1, <2>2, <2>3 DEF OneRegistration
<1> QED
  BY <1>1, Invariance, PTL

-----------------------------------------------------------------------------
(* Steps that may not disturb: what a registration and a phone leave alone *)

\* Where the file points: a directory that exists has an identifier.
LEMMA KeptDir ==
    ASSUME TunnelInv, dirs[Dir(disk)] = "ready"
    PROVE  /\ disk.id # 0 /\ Dir(disk) \in {Legacy, disk.id} /\ Dir(disk) <= last
           /\ loaded => Same(mem, disk) /\ Dir(mem) = Dir(disk) /\ Ready(mem)
<1>1. disk \in Settings /\ last \in 0 .. MaxId /\ disk.id <= last
  BY DEF TunnelInv, GatewayOK, Numbered
<1>2. disk.id # 0
  BY DEF TunnelInv, Filed, Dir, NoSettings
<1>3. loaded => Same(mem, disk)
  <2>1. disk # NoSettings
    BY <1>2 DEF NoSettings
  <2> QED
    BY <2>1, Zenon DEF TunnelInv, Agreed
<1> QED
  BY <1>1, <1>2, <1>3 DEF Dir, Legacy, Same, Ready, Settings

\* The settings change, the identity does not.
LEMMA KeptSettings ==
    ASSUME TunnelInv, UNCHANGED dirs, Resume \/ Pause \/ LoadLater \/ Start
    PROVE  Kept
<1> SUFFICES ASSUME dirs[Dir(disk)] = "ready" PROVE dirs[Dir(disk')] = "ready"
  BY DEF Kept
<1>1. disk.id # 0 /\ (loaded => Same(mem, disk))
  BY KeptDir
<1>2. CASE Resume \/ Pause
  <2>1. disk' = disk \/ (Same(mem, disk) /\ disk' = mem' /\ mem'.id = mem.id /\ mem'.isolated = mem.isolated)
    BY <1>1, <1>2 DEF Resume, Pause, SaveOk, SaveFails, Free, TunnelInv, GatewayOK, Settings
  <2> QED
    BY <2>1 DEF Same, Dir
<1>3. CASE LoadLater \/ Start
  <2>1. disk' = disk
    BY <1>1, <1>3 DEF LoadLater, Start, Load, LoadFile, Generate, KeepGenerated
  <2> QED
    BY <2>1
<1> QED
  BY <1>2, <1>3

\* A registration fills and removes only directories the file does not point to.
LEMMA KeptCall ==
    ASSUME TunnelInv, OpStep \/ \E replace \in BOOLEAN : Register(replace)
    PROVE  Kept
<1> SUFFICES ASSUME dirs[Dir(disk)] = "ready" PROVE dirs'[Dir(disk')] = "ready"
  BY DEF Kept
<1>1. /\ disk.id # 0 /\ Dir(disk) \in {Legacy, disk.id} /\ Dir(disk) <= last
      /\ loaded => Same(mem, disk) /\ Dir(mem) = Dir(disk) /\ Ready(mem)
  BY KeptDir
<1>2. /\ disk \in Settings /\ mem \in Settings /\ op \in Ops /\ last \in 0 .. MaxId
      /\ dirs \in [0 .. MaxId -> {"none", "partial", "ready"}] /\ Dir(disk) \in 0 .. MaxId
  BY DirType DEF TunnelInv, GatewayOK
<1>3. op.pc # "idle" => loaded
  BY DEF TunnelInv, Agreed
<1>4. CASE \E replace \in BOOLEAN : Register(replace)
  <2>1. PICK replace \in BOOLEAN : Register(replace)
    BY <1>4
  <2>2. PICK id : /\ id \in {last + 1, mem.id} /\ dirs' = [dirs EXCEPT ![id] = "partial"]
                  /\ id = mem.id => dirs[id] = "none" \/ id = last + 1
    BY <2>1 DEF Register, Used
  <2>3. id # Dir(disk)
    BY <1>1, <1>2, <2>2
  <2>4. disk' = disk
    BY <2>1 DEF Register
  <2> QED
    BY <1>2, <2>2, <2>3, <2>4
<1>5. CASE Paused \/ Post \/ EnrollFails \/ GiveUpUnsaved \/ KeepActive \/ SwitchFails \/ Switched
  BY <1>5 DEF Paused, Post, EnrollFails, GiveUpUnsaved, KeepActive, SwitchFails, Switched,
     enrolling, SaveFails, Dir
<1>6. CASE Issue
  BY <1>2, <1>6 DEF Issue, enrolling, Dir
<1>7. CASE GiveUp
  BY <1>1, <1>3, <1>7 DEF GiveUp, TunnelInv, Registering, Filling
<1>8. CASE Discard
  <2>1. op.next.id # Dir(disk) /\ disk' = disk
    BY <1>1, <1>8 DEF Discard, TunnelInv, Registering, Legacy
  <2> QED
    BY <1>2, <1>8, <2>1 DEF Discard, Remove
<1>9. CASE Switch
  BY <1>9 DEF Switch, SaveOk, TunnelInv, Registering, Filling, Dir
<1>10. CASE Clean
  <2>1. Dir(disk) = op.next.id /\ disk' = disk
    BY <1>10 DEF Clean, TunnelInv, Registering, Dir
  <2> QED
    BY <1>2, <1>10, <2>1 DEF Clean, Remove
<1> QED
  BY <1>4, <1>5, <1>6, <1>7, <1>8, <1>9, <1>10 DEF OpStep

\* No step loses the active registration.
LEMMA KeptNext == Inv /\ [Next]_vars => Kept
<1> SUFFICES ASSUME Inv, [Next]_vars PROVE Kept
  OBVIOUS
<1>1. TunnelInv
  BY DEF Inv
<1>2. CASE Resume \/ Pause \/ LoadLater \/ Start
  <2>1. UNCHANGED dirs
    BY <1>2 DEF Resume, Pause, LoadLater, Start
  <2> QED
    BY <1>1, <1>2, <2>1, KeptSettings
<1>3. CASE OpStep \/ \E replace \in BOOLEAN : Register(replace)
  BY <1>1, <1>3, KeptCall
<1>4. CASE UNCHANGED <<disk, dirs>>
  BY <1>4 DEF Kept, Dir
<1>5. CASE TunnelGoesOn \/ NoConnection \/ ServeReturns
  BY <1>4, <1>5 DEF TunnelGoesOn, TunnelStep, ReadFiles, DialOut, TellUp, TellDown, Backoff,
     NoConnection, DialFails, ServeReturns, ServeEnds, registry
<1>6. CASE \/ Cancelled \/ Drop \/ KeepAliveFails \/ Traffic \/ RunReturns
           \/ \E p \in Phone : Serves(p)
  BY <1>4, <1>6 DEF Cancelled, Drop, KeepAliveFails, Traffic, RunReturns, Serves, gateway,
     registry
<1>7. CASE Dies
  BY <1>4, <1>7 DEF Dies, Crash
<1>8. CASE UNCHANGED vars
  BY <1>4, <1>8 DEF vars, gateway, registry
<1> QED
  BY <1>2, <1>3, <1>5, <1>6, <1>7, <1>8 DEF Next, Administer, StartUp, CallGoesOn

\* A server that could reach the gateway keeps an identity it can reach it with, however a
\* new registration ends (gateway.go:232), and a session that the server ends for one
\* phone ends for no other.
THEOREM UndisturbedAlways == Spec => Undisturbed
<1> DEFINE Others == \A p, q \in Phone :
             p # q /\ Serves(p) /\ conn[p].pc # "closed" /\ conn'[p].pc = "closed"
               => conn'[q] = conn[q]
<1>1. Inv /\ [Next]_vars => [Kept]_vars
  BY KeptNext
<1>2. Inv /\ [Next]_vars => [Others]_vars
  BY PhoneSafe DEF Inv, Serves
<1> QED
  BY <1>1, <1>2, Invariance, PTL DEF Spec, Undisturbed, AlwaysRegistered, OthersKept
=============================================================================
