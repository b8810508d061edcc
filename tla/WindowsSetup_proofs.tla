---------------------------- MODULE WindowsSetup_proofs ----------------------------
(***************************************************************************)
(* WindowsSetup for any number of versions and faults: a key is never      *)
(* replaced under data that was made with it (KeysMatch), after any        *)
(* failure the marks are true and nothing runs that must not (MarksTrue),  *)
(* and preparing an upgrade loses neither data nor service (UpgradeSafe).  *)
(***************************************************************************)
EXTENDS WindowsSetup, TLAPS

Content == Key \cup {"absent", "lost"}
State == {"missing", "stopped", "stopping", "running"}
Clusters == [state : {"none", "partial", "whole"}, admin : Content \cup {"none"},
             role : Content \cup {"none"}, base : BOOLEAN]

\* What the keys depend on: nothing is encrypted or given a password before there is a
\* cluster, and the server runs only over a whole one.
Types == secret \in [SecretFile -> Content] /\ cluster \in Clusters /\ svc \in [Service -> State]
Unmade == cluster.state = "none" => enc = "none" /\ cluster.admin = "none" /\ cluster.role = "none"
Over == svc["Database"] \in {"running", "stopping"} => cluster.state = "whole"
Placed == run.pc = "role" => cluster.state # "none"
Shape == "pc" \in DOMAIN run
KeysInv == Types /\ Unmade /\ Over /\ KeysMatch /\ Shape /\ Placed

\* A step that touches neither keys nor cluster, and starts the server over a whole one.
Apart ==
    /\ UNCHANGED <<secret, cluster, enc>> /\ svc' \in [Service -> State]
    /\ svc'["Database"] \in {"running", "stopping"}
         => svc["Database"] \in {"running", "stopping"} \/ cluster.state = "whole"

LEMMA Names ==
    /\ Service = {"Database", "Parser", "Api", "Worker", "Proxy"}
    /\ SecretFile = {"master-key", "database-password", "postgres-admin-password"}
BY DEF Service, Services, SecretFile, Secrets

\* The part that the place of the installer does not matter to.
Rest == Types /\ Unmade /\ Over /\ KeysMatch

LEMMA ApartKeeps == Rest /\ Apart => Rest'
BY DEF Rest, Types, Unmade, Over, KeysMatch, Apart

LEMMA StartsApart ==
    ASSUME Types, NEW s, CanStart(s), Started(s), UNCHANGED <<secret, cluster, enc>>
    PROVE  Apart
BY Names DEF Types, CanStart, Able, Started, Apart, State

LEMMA EndsApart ==
    ASSUME Types, NEW s, Ended(s), UNCHANGED <<secret, cluster, enc>>
    PROVE  Apart
BY Names DEF Types, Ended, Apart, State

LEMMA UnstoppedApart ==
    ASSUME Types, NEW s, Unstopped(s), UNCHANGED <<secret, cluster, enc>>
    PROVE  Apart
BY Names DEF Types, Unstopped, Running, Apart, State

LEMMA StillApart ==
    ASSUME Types, UNCHANGED <<svc, secret, cluster, enc>>
    PROVE  Apart
BY DEF Types, Apart

LEMMA GoesApart ==
    ASSUME Types, NEW s, svc' = [svc EXCEPT ![s] = "missing"] \/ svc' = [svc EXCEPT ![s] = "stopped"],
           UNCHANGED <<secret, cluster, enc>>
    PROVE  Apart
BY Names DEF Types, Apart, State

\* Prepare, Remove and copying.
LEMMA PrepareApart ==
    ASSUME Types,
           \/ Delete \/ Copy \/ Refuse \/ ColdBackup \/ HotBackup \/ Quieten \/ StartDatabase
           \/ BackUp \/ StopDatabase \/ Mark \/ Restore \/ Restored \/ Remove \/ NoHelper \/ Removed
    PROVE  Apart
<1>1. CASE \/ Delete \/ Copy \/ Refuse \/ ColdBackup \/ HotBackup \/ BackUp \/ Mark \/ Restored
           \/ NoHelper \/ Removed
  BY <1>1, StillApart DEF Delete, Copy, Refuse, ColdBackup, HotBackup, BackUp, Mark, Restored,
     NoHelper, Removed, data, services
<1>2. CASE Quieten \/ StopDatabase
  BY <1>2, StillApart, EndsApart, UnstoppedApart DEF Quieten, StopDatabase, data
<1>3. CASE StartDatabase
  BY <1>3, StillApart, StartsApart DEF StartDatabase, data
<1>4. CASE Restore
  BY <1>4, StillApart, StartsApart DEF Restore, data
<1>5. CASE Remove
  BY <1>5, StillApart, GoesApart, EndsApart, UnstoppedApart DEF Remove, data, services
<1> QED
  BY <1>1, <1>2, <1>3, <1>4, <1>5

\* Those steps of Configure that make neither keys nor cluster.
LEMMA ConfigureApart ==
    ASSUME Types,
           \/ CheckRuntime \/ Options \/ HaveSecrets \/ StopAll \/ Register
           \/ Install \/ StartServer \/ StartParser \/ StartApi \/ StartProxy
           \/ StartWorker \/ Migrate \/ Certificates \/ Issued \/ Done
           \/ StopFailed \/ Failed
    PROVE  Apart
<1>1. CASE CheckRuntime \/ Options \/ HaveSecrets \/ Migrate \/ Certificates \/ Issued \/ Done
           \/ Failed
  BY <1>1, StillApart DEF CheckRuntime, Options, HaveSecrets, Migrate, Certificates, Issued, Done,
     Failed, data, services
<1>2. CASE StopAll \/ StopFailed
  BY <1>2, StillApart, EndsApart, UnstoppedApart DEF StopAll, StopFailed, data, services
<1>3. CASE Register \/ Install
  BY <1>3, GoesApart DEF Register, Install, data
<1>4. ASSUME NEW pc, NEW s, NEW next, StartService(pc, s, next) PROVE Apart
  BY <1>4, StillApart, StartsApart DEF StartService, data
<1>5. CASE StartServer \/ StartParser \/ StartApi \/ StartProxy \/ StartWorker
  BY <1>4, <1>5 DEF StartServer, StartParser, StartApi, StartProxy, StartWorker
<1> QED
  BY <1>1, <1>2, <1>3, <1>5

\* A key is made before there is anything it could not open.
LEMMA SecretKeeps == Rest /\ Secret => Rest'
<1> SUFFICES ASSUME Rest, Secret PROVE Rest'
  OBVIOUS
<1>1. UNCHANGED <<cluster, enc, svc>>
  BY DEF Secret, services
<1>2. CASE UNCHANGED secret
  BY <1>1, <1>2, StillApart, ApartKeeps DEF Rest
<1>3. CASE cluster.state = "none"
  <2>1. secret' \in [SecretFile -> Content]
    BY DEF Secret, MayCreate, Rest, Types, Content, Key
  <2> QED
    BY <1>1, <1>3, <2>1 DEF Rest, Types, Unmade, Over, KeysMatch
<1> QED
  BY <1>2, <1>3 DEF Secret, MayCreate

\* initdb, whole or cut off, sets the password of the administrator from its file.
LEMMA CreatedKeeps ==
    ASSUME Rest, InitDbCut, UNCHANGED <<secret, enc>>, svc' \in [Service -> State],
           svc'["Database"] \in {"running", "stopping"} => cluster.state = "whole"
    PROVE  Rest' /\ (cluster.state # "none" => cluster' = cluster)
<1>1. \A s \in SecretFile : secret[s] \in Content
  BY DEF Rest, Types
<1>2. CASE cluster' = cluster
  BY <1>2 DEF Rest, Types, Unmade, Over, KeysMatch
<1>3. CASE cluster.state = "none" /\ cluster' = Created
  <2>1. cluster' = [state |-> "whole", admin |-> secret["postgres-admin-password"],
                    role |-> "none", base |-> FALSE]
    BY <1>3 DEF Created
  <2>2. cluster' \in Clusters
    BY <1>1, <2>1, Names DEF Clusters
  <2> QED
    BY <1>3, <2>1, <2>2 DEF Rest, Types, Unmade, Over, KeysMatch
<1>4. CASE cluster.state = "none" /\ cluster' = [NoCluster EXCEPT !.state = "partial"]
  <2>1. cluster' = [state |-> "partial", admin |-> "none", role |-> "none", base |-> FALSE]
    BY <1>4 DEF NoCluster
  <2>2. cluster' \in Clusters
    BY <2>1 DEF Clusters
  <2> QED
    BY <1>4, <2>1, <2>2 DEF Rest, Types, Unmade, Over, KeysMatch
<1> QED
  BY <1>2, <1>3, <1>4 DEF InitDbCut

LEMMA BreakKeeps == Rest /\ Break => Rest'
<1> SUFFICES ASSUME Rest, Break PROVE Rest'
  OBVIOUS
<1>1. InitDbCut /\ UNCHANGED <<secret, enc>>
  BY DEF Break
<1>2. svc' \in [Service -> State]
  BY DEF Break, Unstopped, Rest, Types, State
<1>3. svc'["Database"] \in {"running", "stopping"} => svc["Database"] \in {"running", "stopping"}
  BY Names DEF Break, Unstopped, Running, Rest, Types
<1> QED
  BY <1>1, <1>2, <1>3, CreatedKeeps DEF Rest, Over

\* Passwords are set from the files as they are.
LEMMA ClusterKeeps == Rest /\ Placed /\ (InitDb \/ Role \/ Base) => Rest'
<1> SUFFICES ASSUME Rest, Placed, InitDb \/ Role \/ Base PROVE Rest'
  OBVIOUS
<1>1. UNCHANGED <<secret, enc, svc>>
  BY DEF InitDb, Role, Base, services
<1>2. \A s \in SecretFile : secret[s] \in Content
  BY DEF Rest, Types
<1>3. CASE InitDb
  <2>1. CASE cluster.state # "none"
    BY <1>1, <1>3, <2>1, StillApart, ApartKeeps DEF InitDb, Rest
  <2>2. CASE cluster.state = "none"
    <3>1. cluster' = [state |-> "whole", admin |-> secret["postgres-admin-password"],
                      role |-> "none", base |-> FALSE]
      BY <1>3, <2>2 DEF InitDb, Created
    <3>2. cluster' \in Clusters
      BY <1>2, <3>1, Names DEF Clusters
    <3> QED
      BY <1>1, <2>2, <3>1, <3>2 DEF Rest, Types, Unmade, Over, KeysMatch
  <2> QED
    BY <2>1, <2>2
<1>4. CASE Role
  <2>1. cluster' \in Clusters
    BY <1>2, <1>4, Names DEF Role, Rest, Types, Clusters
  <2>2. cluster'.state = cluster.state /\ cluster'.admin = cluster.admin
        /\ cluster'.role = IF cluster.role = "none" THEN secret["database-password"] ELSE cluster.role
    BY <1>4 DEF Role, Rest, Types, Clusters
  <2>3. cluster.state # "none"
    BY <1>4 DEF Role, Placed
  <2> QED
    BY <1>1, <2>1, <2>2, <2>3 DEF Rest, Types, Unmade, Over, KeysMatch
<1>5. CASE Base
  <2>1. cluster' \in Clusters /\ cluster'.state = cluster.state /\ cluster'.admin = cluster.admin
        /\ cluster'.role = cluster.role
    BY <1>5 DEF Base, Rest, Types, Clusters
  <2> QED
    BY <1>1, <2>1 DEF Rest, Types, Unmade, Over, KeysMatch
<1> QED
  BY <1>3, <1>4, <1>5

LEMMA IdleShape == "pc" \in DOMAIN Idle /\ Idle.pc = "idle"
BY DEF Idle

\* Only a started server brings the installer to its passwords.
LEMMA PrepareShape ==
    ASSUME Shape,
           \/ Delete \/ Copy \/ Refuse \/ ColdBackup \/ HotBackup \/ Quieten \/ StartDatabase
           \/ BackUp \/ StopDatabase \/ Mark \/ Restore \/ Restored \/ Remove \/ NoHelper \/ Removed
    PROVE  Shape' /\ run'.pc # "role"
<1>1. CASE Delete \/ Copy \/ Refuse \/ Restored \/ NoHelper \/ Removed
  BY <1>1, IdleShape DEF Shape, Go, Delete, Copy, Refuse, Restored, NoHelper, Removed
<1>2. CASE ColdBackup \/ HotBackup
  BY <1>2, IdleShape DEF Shape, Go, From, Replace, ColdBackup, HotBackup
<1>3. CASE Quieten \/ StartDatabase
  BY <1>3 DEF Shape, Go, From, NextI, Quieten, StartDatabase
<1>4. CASE BackUp \/ StopDatabase \/ Mark
  BY <1>4 DEF Shape, Go, From, Replace, BackUp, StopDatabase, Mark
<1>5. CASE Restore
  BY <1>5 DEF Shape, NextI, Restore
<1>6. CASE Remove
  BY <1>6, IdleShape DEF Shape, NextI, Remove
<1> QED
  BY <1>1, <1>2, <1>3, <1>4, <1>5, <1>6

LEMMA ConfigureShape ==
    ASSUME Shape,
           \/ CheckRuntime \/ Break \/ Options \/ HaveSecrets \/ StopAll \/ Register
           \/ Install \/ StartParser \/ StartApi \/ StartProxy
           \/ StartWorker \/ Migrate \/ Certificates \/ Issued \/ Done
           \/ StopFailed \/ Failed \/ Secret \/ InitDb \/ Role \/ Base
    PROVE  Shape' /\ run'.pc # "role"
<1>1. CASE CheckRuntime \/ Break \/ Options \/ HaveSecrets
  BY <1>1, IdleShape DEF Shape, Go, From, CheckRuntime, Break, Options, HaveSecrets
<1>2. CASE StopAll \/ StopFailed
  BY <1>2 DEF Shape, From, NextI, StopAll, StopFailed
<1>3. CASE Register \/ Install
  BY <1>3 DEF Shape, Go, NextI, Register, Install
<1>4. CASE Secret
  BY <1>4 DEF Shape, From, NextI, Secret
<1>5. CASE InitDb \/ Role \/ Base \/ Migrate
  BY <1>5 DEF Shape, Go, From, InitDb, Role, Base, Migrate
<1>6. CASE Certificates
  BY <1>6 DEF Shape, Go, From, Certificates
<1>7. CASE Issued \/ Done \/ Failed
  BY <1>7, IdleShape DEF Shape, Go, Issued, Done, Failed
<1>8. CASE StartParser \/ StartApi \/ StartProxy \/ StartWorker
  BY <1>8 DEF Shape, Go, From, StartParser, StartApi, StartProxy, StartWorker, StartService
<1> QED
  BY <1>1, <1>2, <1>3, <1>4, <1>5, <1>6, <1>7, <1>8

LEMMA ServerShape ==
    ASSUME Shape, StartServer
    PROVE  Shape' /\ Placed'
<1>1. CanStart("Database") => cluster.state # "none"
  BY DEF CanStart, Able, Group
<1> QED
  BY <1>1 DEF Shape, Placed, StartServer, StartService, Go, From, data

\* What the user starts touches nothing but the installer.
LEMMA BeginsAt ==
    ASSUME NEW v, Begin(v)
    PROVE  /\ UNCHANGED <<data, marks, services, programs, faults>> /\ halted' = {} /\ refused' = FALSE
           /\ "pc" \in DOMAIN run' /\ run'.pc \in {"prepare", "remove", "copy"}
<1>1. "pc" \in DOMAIN run' /\ run'.pc \in {"prepare", "remove", "copy"}
  <2>1. CASE conn
    BY <2>1 DEF Begin, Idle
  <2>2. CASE ~conn /\ Entry
    BY <2>2 DEF Begin, Idle
  <2>3. CASE ~conn /\ ~Entry
    BY <2>3 DEF Begin, Idle
  <2> QED
    BY <2>1, <2>2, <2>3
<1> QED
  BY <1>1 DEF Begin

LEMMA CallsAt ==
    ASSUME Uninstall \/ Reconfigure
    PROVE  /\ UNCHANGED <<data, marks, services, programs, faults>> /\ halted' = {} /\ refused' = FALSE
           /\ "pc" \in DOMAIN run' /\ run'.pc \in {"remove", "check"}
<1>1. CASE Uninstall
  BY <1>1 DEF Uninstall, Idle
<1>2. CASE Reconfigure
  BY <1>2 DEF Reconfigure, Idle
<1> QED
  BY <1>1, <1>2

LEMMA InstallerKeeps == KeysInv /\ InstallerStep => KeysInv'
<1> SUFFICES ASSUME KeysInv, InstallerStep PROVE KeysInv'
  OBVIOUS
<1> Rest /\ Types /\ Shape /\ Placed
  BY DEF KeysInv, Rest
<1>1. Rest'
  BY PrepareApart, ConfigureApart, BreakKeeps, SecretKeeps, ClusterKeeps, ApartKeeps
     DEF InstallerStep
<1>2. Shape' /\ Placed'
  BY PrepareShape, ConfigureShape, ServerShape DEF InstallerStep, Placed
<1> QED
  BY <1>1, <1>2 DEF KeysInv, Rest

\* What happens around the installer.
LEMMA AroundKeeps ==
    ASSUME KeysInv,
           \/ Uninstall \/ Reconfigure \/ Restart \/ Write
           \/ \E v \in Version : Begin(v)
           \/ \E s \in SecretFile : LoseSecret(s)
           \/ \E s \in Service : Stops(s)
    PROVE  KeysInv'
<1> Rest /\ Types /\ Shape /\ Placed
  BY DEF KeysInv, Rest
<1> SUFFICES Rest' /\ Shape' /\ Placed'
  BY DEF KeysInv, Rest
<1>1. CASE Uninstall \/ Reconfigure \/ \E v \in Version : Begin(v)
  <2>1. UNCHANGED <<data, services>> /\ Shape' /\ run'.pc # "role"
    BY <1>1, BeginsAt, CallsAt DEF Shape
  <2>2. Rest'
    BY <2>1, StillApart, ApartKeeps DEF data, services
  <2> QED
    BY <2>1, <2>2 DEF Placed
<1>2. CASE Restart
  <2>1. Shape' /\ run'.pc # "role"
    BY <1>2 DEF Restart, Shape, Idle
  <2>2. UNCHANGED <<secret, enc>>
    BY <1>2 DEF Restart
  <2>3. svc' \in [Service -> State] /\ (svc'["Database"] \in {"running", "stopping"} => cluster.state = "whole")
    <3>1. "Database" \in Woken => cluster.state = "whole"
      BY DEF Woken, Able
    <3> QED
      BY <1>2, <3>1, Names DEF Restart, State
  <2>4. InitDbCut
    BY <1>2 DEF Restart
  <2> QED
    BY <2>1, <2>2, <2>3, <2>4, CreatedKeeps DEF Placed
<1>3. CASE Write
  <2>1. UNCHANGED <<secret, cluster, svc, run>>
    BY <1>3 DEF Write, services
  <2>2. cluster.state = "whole"
    BY <1>3, Names DEF Write, Serving, Running, Rest, Over
  <2>3. enc' = IF enc = "none" THEN secret["master-key"] ELSE enc
    BY <1>3 DEF Write
  <2> QED
    BY <2>1, <2>2, <2>3 DEF Rest, Types, Unmade, Over, KeysMatch, Shape, Placed
<1>4. ASSUME NEW s \in SecretFile, LoseSecret(s) PROVE Rest' /\ Shape' /\ Placed'
  <2>1. UNCHANGED <<enc, cluster, svc, run>> /\ secret' = [secret EXCEPT ![s] = "lost"]
    BY <1>4 DEF LoseSecret, services
  <2>2. secret' \in [SecretFile -> Content]
    BY <2>1 DEF Types, Content
  <2>3. \A r \in SecretFile : secret'[r] \in {secret[r], "lost"}
    BY <2>1 DEF Types
  <2> QED
    BY <2>1, <2>2, <2>3, Names DEF Rest, Types, Unmade, Over, KeysMatch, Shape, Placed
<1>5. ASSUME NEW s \in Service, Stops(s) PROVE Rest' /\ Shape' /\ Placed'
  <2>1. UNCHANGED <<secret, enc, cluster, run>> /\ svc' = [svc EXCEPT ![s] = "stopped"]
    BY <1>5 DEF Stops, data
  <2> QED
    BY <2>1, GoesApart, ApartKeeps DEF Shape, Placed
<1> QED
  BY <1>1, <1>2, <1>3, <1>4, <1>5

LEMMA KeysInit == Init => KeysInv
<1> SUFFICES ASSUME Init PROVE KeysInv
  OBVIOUS
<1>1. Shape /\ Placed
  BY DEF Init, Shape, Placed, Idle
<1>2. Types
  <2>1. secret \in [SecretFile -> Content]
    BY DEF Init, Content, Key
  <2>2. cluster \in Clusters
    <3>1. {"first", "none"} \subseteq Content \cup {"none"}
      BY DEF Content, Key
    <3>2. CASE cluster = NoCluster
      BY <3>1, <3>2 DEF NoCluster, Clusters
    <3>3. CASE cluster = [state |-> "whole", admin |-> "first", role |-> "first", base |-> TRUE]
      BY <3>1, <3>3 DEF Clusters
    <3> QED
      BY <3>2, <3>3 DEF Init
  <2>3. svc \in [Service -> State]
    BY DEF Init, State
  <2> QED
    BY <2>1, <2>2, <2>3 DEF Types
<1>3. Unmade /\ Over /\ KeysMatch
  BY Names DEF Init, Unmade, Over, KeysMatch, NoCluster
<1> QED
  BY <1>1, <1>2, <1>3 DEF KeysInv

\* A key is never replaced under the data or the roles that were made with it
\* (engine.go:173-185), whatever failed, was restarted or was lost before.
THEOREM KeysMatchAlways == PatientSpec => []KeysMatch
<1>1. KeysInv /\ [Next]_vars => KeysInv'
  <2> SUFFICES ASSUME KeysInv, [Next]_vars PROVE KeysInv'
    OBVIOUS
  <2>1. CASE UNCHANGED vars
    BY <2>1 DEF vars, data, services, KeysInv, Types, Unmade, Over, KeysMatch, Shape, Placed
  <2> QED
    BY <2>1, InstallerKeeps, AroundKeeps DEF Next
<1>2. KeysInv => KeysMatch
  BY DEF KeysInv
<1> QED
  BY KeysInit, <1>1, <1>2, PTL DEF PatientSpec, Spec

(***************************************************************************)
(* The marks and the backup.  The services and the marks are changed by    *)
(* every part of the installer, and it may end after any step: the         *)
(* invariant says for each place of the installer what has been done       *)
(* before it, and what holds between two runs of it.                       *)
(***************************************************************************)
\* Configure after the secrets, and after the migration.
Keyed == ConfigurePc \ {"options", "secrets"}
Migrated == {"parser", "api", "certs", "issue", "proxy", "worker", "done"}

\* The counter of each loop stays where its services and secrets are.
Counters ==
    /\ run.pc = "quiet" => run.i \in 1 .. 5
    /\ run.pc = "restore" => run.i \in 1 .. 6
    /\ run.pc = "remove" => run.i \in 0 .. 5
    /\ run.pc = "secrets" => run.i \in 1 .. 4
    /\ run.pc \in {"stopall", "fail"} => run.i \in 1 .. 5
    /\ run.pc \in {"register", "install"} => run.i \in 1 .. Active

\* Nothing is made before the options are written, and no password before its secret.
Grounded ==
    /\ run.pc \in ConfigurePc \ {"options"} \/ cluster.state # "none" \/ phase = "complete" => conn
    /\ enc # "none" \/ cluster.base \/ run.pc \in {"install", "start", "role", "base"}
         => cluster.state # "none"
    /\ run.pc = "secrets" => \A j \in 1 .. 3 : j < run.i => Present(Secrets[j])
    /\ run.pc \in Keyed => \A s \in SecretFile : Present(s)

\* What runs, and what a preparation has to start again, has its wrapper and its data, and so
\* has all it needs.
Ready(S) == \A s \in S : \A d \in Group(s) : Able(d)
Noting == {"quiet", "dump", "stopdb", "mark", "restore"}
Backed == Ready(Running) /\ (run.pc \in Noting => Ready(run.was))

\* What is removed, or registered anew, is stopped before.
Alive ==
    /\ run.pc = "remove" => \A j \in 1 .. 5 : j > run.i => svc[Services[j]] = "missing"
    /\ run.pc = "delete" => \A s \in Service : svc[s] = "missing"
    /\ run.pc = "stopall" => \A j \in 1 .. 5 : j > run.i => Services[j] \notin Running
    /\ run.pc \in {"register", "initdb", "install", "start"} => Running = {}

\* A preparation that failed starts again what it has noted, in turn.
Noted ==
    run.pc = "restore" => \A j \in 1 .. 5 : j < run.i /\ Services[j] \in run.was
        => svc[Services[j]] = "running" \/ Services[j] \in run.lost \cup run.late

\* From the backup to the new files nobody writes.
Upgrading == run.pc \in {"stopdb", "mark", "copy"} \/ (run.pc \in {"remove", "delete"} /\ run.to # 0)
Quieted ==
    /\ run.pc = "quiet" => \A j \in 1 .. 5 : j > run.i => Services[j] \notin Running
    /\ run.pc = "dump" => Running \subseteq {"Database"}
    /\ Upgrading /\ conn => saved /\ Running \subseteq {"Database"}
    /\ schema < files /\ enc # "none" => saved

\* What a failed configuration has stopped stays stopped, also for Windows: it starts none of
\* it, and nothing that needs it.
Off(s) == s \notin Running /\ ~auto[s]
Stopped ==
    /\ run.pc = "fail" => \A j \in 1 .. 5 : j > run.i => Off(Services[j]) \/ Services[j] \in run.lost
    /\ halted # {} => run.pc = "idle"
    /\ \A s \in halted : Off(s) /\ \A d \in Service : s \in Group(d) => ~auto[d]

\* Configure has done what its place says, and the mark of completion is taken away first.
Marked ==
    /\ run.pc \in {"copy", "migrate"} \cup Migrated \/ (run.pc \in {"remove", "delete"} /\ run.to # 0)
         => phase # "complete"
    /\ run.pc \in {"migrate"} \cup Migrated => cluster.base
    /\ run.pc \in Migrated => schema = files
    /\ run.pc = "proxy" \/ (run.pc \in {"worker", "done"} /\ public) => certs = "whole"

\* The inductive invariant, with TypeOK.
Sound == Counters /\ Grounded /\ Alive /\ Noted /\ Quieted /\ Stopped /\ Marked /\ Honest

\* The types of TypeOK: the installer, the flags, and the rest.
Runs == [pc : Pc, to : 0 .. MaxVersion, i : 0 .. 6, was : SUBSET Service, lost : SUBSET Service,
         late : SUBSET Service]
Flags == conn \in BOOLEAN /\ public \in BOOLEAN /\ saved \in BOOLEAN /\ refused \in BOOLEAN
Stored == [state : {"none", "partial", "whole"}, admin : Key \cup {"none"},
           role : Key \cup {"none"}, base : BOOLEAN]
Ranges ==
    /\ enc \in Key \cup {"none"} /\ secret \in [SecretFile -> Content] /\ cluster \in Stored
    /\ schema \in 0 .. MaxVersion /\ certs \in {"none", "partial", "whole"}
    /\ installed \in 0 .. MaxVersion /\ files \in 0 .. MaxVersion /\ exes \subseteq Service
    /\ parts \subseteq Parts /\ halted \subseteq Application
    /\ phase \in {"none", "prepared", "migrating", "complete"}
    /\ svc \in [Service -> State] /\ auto \in [Service -> BOOLEAN]
    /\ faults \in 0 .. MaxFault
\* What of them the steps below need.
Typed ==
    /\ run.i \in Int /\ run.was \subseteq Service /\ run.lost \subseteq Service
    /\ run.late \subseteq Service /\ halted \subseteq Service
    /\ svc \in [Service -> State] /\ auto \in [Service -> BOOLEAN]
    /\ cluster \in Stored /\ schema \in Nat /\ files \in Nat /\ secret \in [SecretFile -> Content]

\* These two sets are always written out.
USE DEF State, Content

\* The ways a step moves the installer.
Same == run'.to = run.to /\ run'.was = run.was /\ run'.lost = run.lost /\ run'.late = run.late
To(pc, i) == run'.pc = pc /\ run'.i = i /\ Same
Stay(d) == run'.pc = run.pc /\ run'.i = run.i + d /\ Same
Ends == run'.pc = "idle" /\ run'.to = 0

\* The services by number, and the files of secrets.
LEMMA ServiceNames ==
    /\ Service = {"Database", "Parser", "Api", "Worker", "Proxy"}
    /\ Application = {"Parser", "Api", "Worker", "Proxy"}
    /\ Services[1] = "Database" /\ Services[2] = "Parser" /\ Services[3] = "Api"
    /\ Services[4] = "Worker" /\ Services[5] = "Proxy"
    /\ \A j \in 1 .. 5 : Services[j] \in Service
    /\ \A s \in Service : \E j \in 1 .. 5 : s = Services[j]
    /\ \A s \in Application : \E j \in 2 .. 5 : s = Services[j]
    /\ Active \in 1 .. 5
BY DEF Service, Services, Application, Active

LEMMA GroupNames ==
    /\ Group("Database") = {"Database"} /\ Group("Parser") = {"Parser"}
    /\ Group("Api") = {"Api", "Database", "Parser"} /\ Group("Worker") = {"Worker", "Database", "Parser"}
    /\ Group("Proxy") = {"Proxy", "Database", "Parser", "Api"}
BY DEF Group, Needs

\* What a service needs needs nothing else, and comes before it.
LEMMA Closed ==
    /\ \A s \in Service : s \in Group(s) /\ Group(s) \subseteq Service
    /\ \A s \in Service : \A d \in Group(s) : Group(d) \subseteq Group(s)
BY GroupNames, ServiceNames

LEMMA SecretNames ==
    /\ Secrets[1] = "master-key" /\ Secrets[2] = "database-password" /\ Secrets[3] = "postgres-admin-password"
    /\ SecretFile = {"master-key", "database-password", "postgres-admin-password"}
    /\ \A j \in 1 .. 3 : Secrets[j] \in SecretFile
    /\ \A s \in SecretFile : \E j \in 1 .. 3 : s = Secrets[j]
BY DEF SecretFile, Secrets

\* The types, taken apart.
LEMMA RunTyped ==
    run \in Runs => /\ run.i \in 0 .. 6 /\ run.was \subseteq Service /\ run.lost \subseteq Service
                    /\ run.late \subseteq Service /\ run.to \in 0 .. MaxVersion /\ run.pc \in Pc
BY DEF Runs

LEMMA TypeParts == TypeOK <=> Flags /\ Ranges /\ run \in Runs
BY DEF TypeOK, Flags, Ranges, Runs, Stored, Content, State

LEMMA RangesTyped == Ranges /\ run \in Runs => Typed
BY RunTyped, WindowsSetupAssumption DEF Ranges, Typed, Application

\* Go, From, NextI and the end of a run, as ways of moving.
LEMMA ToGo ==
    ASSUME run \in Runs, NEW pc, Go(pc)
    PROVE  To(pc, 0) /\ (pc \in Pc => run' \in Runs)
<1>1. run' = [[run EXCEPT !.pc = pc] EXCEPT !.i = 0]
  BY DEF Go, Runs
<1>2. To(pc, 0)
  BY <1>1 DEF To, Same, Runs
<1>3. ASSUME pc \in Pc PROVE run' \in Runs
  <2>1. [run EXCEPT !.pc = pc] \in Runs
    BY <1>3 DEF Runs
  <2>2. \A r \in Runs : [r EXCEPT !.i = 0] \in Runs
    BY DEF Runs
  <2> QED
    BY <1>1, <2>1, <2>2
<1> QED
  BY <1>2, <1>3

LEMMA ToFrom ==
    ASSUME run \in Runs, NEW pc, NEW i, From(pc, i)
    PROVE  To(pc, i) /\ (pc \in Pc /\ i \in 0 .. 6 => run' \in Runs)
BY DEF Runs, From, To, Same

LEMMA ToNext ==
    ASSUME run \in Runs
    PROVE  /\ NextI(1) => Stay(1) /\ (run.i < 6 => run' \in Runs)
           /\ NextI(-1) => Stay(-1) /\ (run.i > 0 => run' \in Runs)
BY DEF Runs, NextI, Stay, Same

LEMMA IdleRuns == Idle \in Runs
BY WindowsSetupAssumption DEF Idle, Runs, Pc

LEMMA ToIdle ==
    ASSUME run' = Idle
    PROVE  Ends /\ run' \in Runs
BY IdleRuns DEF Idle, Ends

\* What the user starts: an upgrade, a removal of what was never configured, or an installation.
LEMMA Begins ==
    ASSUME NEW v, Begin(v)
    PROVE  \/ conn /\ run' = [pc |-> "prepare", to |-> v, i |-> 0, was |-> {}, lost |-> {}, late |-> {}]
           \/ ~conn /\ Entry /\ run' = [pc |-> "remove", to |-> v, i |-> 5, was |-> {}, lost |-> {}, late |-> {}]
           \/ ~conn /\ ~Entry /\ run' = [pc |-> "copy", to |-> v, i |-> 0, was |-> {}, lost |-> {}, late |-> {}]
<1>1. CASE conn
  BY <1>1 DEF Begin, Idle
<1>2. CASE ~conn /\ Entry
  BY <1>2 DEF Begin, Idle
<1>3. CASE ~conn /\ ~Entry
  BY <1>3 DEF Begin, Idle
<1> QED
  BY <1>1, <1>2, <1>3

LEMMA ThisService ==
    ASSUME run.i \in 1 .. 5 PROVE This \in Service
BY ServiceNames DEF This

\* The installer is one of the records it may be.
LEMMA RunBegin ==
    ASSUME NEW v \in Version, Begin(v)
    PROVE  run' \in Runs
BY Begins DEF Runs, Version, Pc, PreparePc

LEMMA RunUninstall ==
    ASSUME Uninstall
    PROVE  run' \in Runs
<1>1. run' = [pc |-> "remove", to |-> 0, i |-> 5, was |-> {}, lost |-> {}, late |-> {}]
  BY DEF Uninstall, Idle
<1> QED
  BY <1>1, WindowsSetupAssumption DEF Runs, Pc

LEMMA RunReconfigure ==
    ASSUME Ranges, Reconfigure
    PROVE  run' \in Runs
<1>1. run' = [pc |-> "check", to |-> files, i |-> 0, was |-> {}, lost |-> {}, late |-> {}]
  BY DEF Reconfigure, Idle
<1> QED
  BY <1>1 DEF Ranges, Runs, Pc

LEMMA RunHotBackup ==
    ASSUME run \in Runs, HotBackup
    PROVE  run' \in Runs
<1>1. run' = [pc |-> "quiet", to |-> run.to, i |-> 5, was |-> Running, lost |-> run.lost,
               late |-> run.late]
  BY DEF HotBackup, Runs
<1> QED
  BY <1>1, RunTyped DEF Runs, Pc, PreparePc, Running

LEMMA RunRestore ==
    ASSUME run \in Runs, Sound, Restore
    PROVE  run' \in Runs
<1>0. run.i \in 1 .. 5 /\ This \in Service
  BY RunTyped, ThisService DEF Restore, Sound, Counters
<1>1. CASE NextI(1)
  BY <1>0, <1>1, ToNext
<1>2. CASE run' = [run EXCEPT !.i = @ + 1, !.lost = @ \cup {This}]
  <2>1. run' = [pc |-> run.pc, to |-> run.to, i |-> run.i + 1, was |-> run.was,
                lost |-> run.lost \cup {This}, late |-> run.late]
    BY <1>2 DEF Runs
  <2> QED
    BY <1>0, <2>1, RunTyped DEF Runs
<1>3. CASE run' = [run EXCEPT !.i = @ + 1, !.late = IF PassedOver(This) THEN @ \cup {This} ELSE @]
  <2>1. run' = [pc |-> run.pc, to |-> run.to, i |-> run.i + 1, was |-> run.was, lost |-> run.lost,
                late |-> IF PassedOver(This) THEN run.late \cup {This} ELSE run.late]
    BY <1>3 DEF Runs
  <2> QED
    BY <1>0, <2>1, RunTyped DEF Runs
<1> QED
  BY <1>1, <1>2, <1>3 DEF Restore

LEMMA RunStopFailed ==
    ASSUME run \in Runs, Sound, StopFailed
    PROVE  run' \in Runs
<1>0. run.i \in 2 .. 5 /\ This \in Service
  BY RunTyped, ThisService DEF StopFailed, Sound, Counters
<1>1. CASE NextI(-1)
  BY <1>0, <1>1, ToNext
<1>2. CASE run' = [run EXCEPT !.i = @ - 1, !.lost = @ \cup {This}]
  <2>1. run' = [pc |-> run.pc, to |-> run.to, i |-> run.i - 1, was |-> run.was,
                lost |-> run.lost \cup {This}, late |-> run.late]
    BY <1>2 DEF Runs
  <2> QED
    BY <1>0, <2>1, RunTyped DEF Runs
<1> QED
  BY <1>1, <1>2 DEF StopFailed

\* ... and no step leaves the records.
LEMMA RunKept ==
    ASSUME Ranges, run \in Runs, Sound, Next
    PROVE  run' \in Runs
<1>1. CASE Delete
  BY <1>1, ToGo, ToIdle DEF Delete, Pc, PreparePc, ConfigurePc
<1>2. CASE Copy
  BY <1>2, ToGo, ToIdle DEF Copy, Pc, PreparePc, ConfigurePc
<1>3. CASE Refuse
  BY <1>3, ToIdle DEF Refuse
<1>4. CASE ColdBackup
  BY <1>4, ToGo, ToFrom, ToIdle DEF ColdBackup, Replace, Pc, PreparePc, ConfigurePc
<1>5. CASE Quieten
  BY <1>5, ToFrom, ToNext, RunTyped, ServiceNames DEF Quieten, Sound, Counters, Pc, PreparePc,
     ConfigurePc
<1>6. CASE StartDatabase
  BY <1>6, ToGo, ToFrom DEF StartDatabase, Pc, PreparePc, ConfigurePc
<1>7. CASE BackUp
  BY <1>7, ToGo, ToFrom DEF BackUp, Pc, PreparePc, ConfigurePc
<1>8. CASE StopDatabase
  BY <1>8, ToGo, ToFrom DEF StopDatabase, Pc, PreparePc, ConfigurePc
<1>9. CASE Mark
  BY <1>9, ToGo, ToFrom DEF Mark, Replace, Pc, PreparePc, ConfigurePc
<1>10. CASE Restored
  BY <1>10, ToIdle DEF Restored
<1>11. CASE Remove
  BY <1>11, ToNext, RunTyped, ServiceNames, ToIdle DEF Remove, Sound, Counters
<1>12. CASE Removed
  BY <1>12, ToGo DEF Removed, Pc, PreparePc, ConfigurePc
<1>13. CASE CheckRuntime
  BY <1>13, ToGo, ToIdle DEF CheckRuntime, Pc, PreparePc, ConfigurePc
<1>14. CASE Break
  BY <1>14, ToFrom DEF Break, Pc, PreparePc, ConfigurePc
<1>15. CASE Options
  BY <1>15, ToFrom DEF Options, Pc, PreparePc, ConfigurePc
<1>16. CASE Secret
  BY <1>16, ToFrom, ToNext, RunTyped, ServiceNames DEF Secret, Sound, Counters, Pc, PreparePc,
     ConfigurePc
<1>17. CASE HaveSecrets
  BY <1>17, ToFrom DEF HaveSecrets, Pc, PreparePc, ConfigurePc
<1>18. CASE StopAll
  BY <1>18, ToFrom, ToNext, RunTyped, ServiceNames DEF StopAll, Sound, Counters, Pc, PreparePc,
     ConfigurePc
<1>19. CASE Register
  BY <1>19, ToGo, ToNext, RunTyped, ServiceNames DEF Register, Sound, Counters, Pc, PreparePc,
     ConfigurePc
<1>20. CASE InitDb
  BY <1>20, ToFrom DEF InitDb, Pc, PreparePc, ConfigurePc
<1>21. CASE Install
  BY <1>21, ToGo, ToNext, RunTyped, ServiceNames DEF Install, Sound, Counters, Pc, PreparePc,
     ConfigurePc
<1>22. CASE StartServer
  BY <1>22, ToGo, ToFrom DEF StartServer, StartService, Pc, PreparePc, ConfigurePc
<1>23. CASE StartParser
  BY <1>23, ToGo, ToFrom DEF StartParser, StartService, Pc, PreparePc, ConfigurePc
<1>24. CASE StartApi
  BY <1>24, ToGo, ToFrom DEF StartApi, StartService, Pc, PreparePc, ConfigurePc
<1>25. CASE StartProxy
  BY <1>25, ToGo, ToFrom DEF StartProxy, StartService, Pc, PreparePc, ConfigurePc
<1>26. CASE StartWorker
  BY <1>26, ToGo, ToFrom DEF StartWorker, StartService, Pc, PreparePc, ConfigurePc
<1>27. CASE Role
  BY <1>27, ToGo DEF Role, Pc, PreparePc, ConfigurePc
<1>28. CASE Base
  BY <1>28, ToGo DEF Base, Pc, PreparePc, ConfigurePc
<1>29. CASE Migrate
  BY <1>29, ToGo, ToFrom DEF Migrate, Pc, PreparePc, ConfigurePc
<1>30. CASE Certificates
  BY <1>30, ToGo, ToFrom DEF Certificates, Pc, PreparePc, ConfigurePc
<1>31. CASE Issued
  BY <1>31, ToGo DEF Issued, Pc, PreparePc, ConfigurePc
<1>32. CASE Done
  BY <1>32, ToIdle DEF Done
<1>33. CASE Failed
  BY <1>33, ToIdle DEF Failed
<1>34. CASE Restart
  BY <1>34, ToIdle DEF Restart
<1>35. CASE Write
  BY <1>35 DEF Write
<1>36. ASSUME NEW s \in SecretFile, LoseSecret(s) PROVE run' \in Runs
  BY <1>36 DEF LoseSecret
<1>37. CASE NoHelper
  BY <1>37, ToIdle DEF NoHelper
<1>38. ASSUME NEW s \in Service, Stops(s) PROVE run' \in Runs
  BY <1>38 DEF Stops
<1> QED
  BY <1>37, <1>38, <1>1, <1>2, <1>3, <1>4, <1>5, <1>6, <1>7, <1>8, <1>9, <1>10, <1>11, <1>12, <1>13, <1>14,
     <1>15, <1>16, <1>17, <1>18, <1>19, <1>20, <1>21, <1>22, <1>23, <1>24, <1>25, <1>26, <1>27,
     <1>28, <1>29, <1>30, <1>31, <1>32, <1>33, <1>34, <1>35, <1>36, RunBegin, RunUninstall,
     RunReconfigure, RunHotBackup, RunRestore, RunStopFailed DEF Next, InstallerStep

\* The flags stay flags.
LEMMA FlagsKept ==
    ASSUME Flags, Next
    PROVE  Flags'
<1>1. CASE Delete
  BY <1>1 DEF Flags, Delete, Note, data
<1>2. CASE Copy
  BY <1>2 DEF Flags, Copy, Note, data, marks, services
<1>3. CASE Refuse
  BY <1>3 DEF Flags, Refuse, Note, data, marks, services, programs
<1>4. CASE ColdBackup
  BY <1>4 DEF Flags, ColdBackup, CopyAll, services, programs
<1>5. CASE HotBackup
  BY <1>5 DEF Flags, HotBackup, Note, data, marks, services, programs
<1>6. CASE Quieten
  BY <1>6 DEF Flags, Quieten, Note, data, marks, programs
<1>7. CASE StartDatabase
  BY <1>7 DEF Flags, StartDatabase, Note, data, marks, programs
<1>8. CASE BackUp
  BY <1>8 DEF Flags, BackUp, Note, CopyAll, marks, services, programs
<1>9. CASE StopDatabase
  BY <1>9 DEF Flags, StopDatabase, Note, data, marks, programs
<1>10. CASE Mark
  BY <1>10 DEF Flags, Mark, Note, data, services, programs
<1>11. CASE Restore
  BY <1>11 DEF Flags, Restore, Note, data, marks, programs
<1>12. CASE Restored
  BY <1>12 DEF Flags, Restored, data, marks, services, programs
<1>13. CASE Remove
  BY <1>13 DEF Flags, Remove, Note, data, marks, services, programs
<1>14. CASE Removed
  BY <1>14 DEF Flags, Removed, Note, data, marks, services, programs
<1>15. CASE CheckRuntime
  BY <1>15 DEF Flags, CheckRuntime, Note, data, marks, services, programs
<1>16. CASE Break
  BY <1>16 DEF Flags, Break, Note
<1>17. CASE Options
  BY <1>17 DEF Flags, Options, Note, marks, services, programs
<1>18. CASE Secret
  BY <1>18 DEF Flags, Secret, Note, marks, services, programs
<1>19. CASE HaveSecrets
  BY <1>19 DEF Flags, HaveSecrets, Note, data, marks, services, programs
<1>20. CASE StopAll
  BY <1>20 DEF Flags, StopAll, Note, data, marks, programs
<1>21. CASE Register
  BY <1>21 DEF Flags, Register, Note, data, marks
<1>22. CASE InitDb
  BY <1>22 DEF Flags, InitDb, Note, marks, services, programs
<1>23. CASE Install
  BY <1>23 DEF Flags, Install, Note, data, marks, programs
<1>24. CASE StartServer
  BY <1>24 DEF Flags, StartServer, Note, StartService, data, marks, programs
<1>25. CASE StartParser
  BY <1>25 DEF Flags, StartParser, Note, StartService, data, marks, programs
<1>26. CASE StartApi
  BY <1>26 DEF Flags, StartApi, Note, StartService, data, marks, programs
<1>27. CASE StartProxy
  BY <1>27 DEF Flags, StartProxy, Note, StartService, data, marks, programs
<1>28. CASE StartWorker
  BY <1>28 DEF Flags, StartWorker, Note, StartService, data, marks, programs
<1>29. CASE Role
  BY <1>29 DEF Flags, Role, Note, marks, services, programs
<1>30. CASE Base
  BY <1>30 DEF Flags, Base, Note, services, programs
<1>31. CASE Migrate
  BY <1>31 DEF Flags, Migrate, Note, marks, services, programs
<1>32. CASE Certificates
  BY <1>32 DEF Flags, Certificates, Note, marks, services, programs
<1>33. CASE Issued
  BY <1>33 DEF Flags, Issued, Note, marks, services, programs
<1>34. CASE Done
  BY <1>34 DEF Flags, Done, Note, data, services, programs
<1>35. CASE StopFailed
  BY <1>35 DEF Flags, StopFailed, Note, data, marks, services, programs
<1>36. CASE Failed
  BY <1>36 DEF Flags, Failed, data, marks, services, programs
<1>37. CASE Uninstall
  BY <1>37 DEF Flags, Uninstall, data, marks, services, programs
<1>38. CASE Reconfigure
  BY <1>38 DEF Flags, Reconfigure, data, marks, services, programs
<1>39. CASE Restart
  BY <1>39 DEF Flags, Restart, Note, marks, programs
<1>40. CASE Write
  BY <1>40 DEF Flags, Write, marks, services, programs
<1>41. ASSUME NEW v \in Version, Begin(v) PROVE Flags'
  BY <1>41 DEF Flags, Begin, data
<1>42. ASSUME NEW s \in SecretFile, LoseSecret(s) PROVE Flags'
  BY <1>42 DEF Flags, LoseSecret
<1>43. CASE NoHelper
  BY <1>43 DEF Flags, NoHelper, Note, data
<1>44. ASSUME NEW s \in Service, Stops(s) PROVE Flags'
  BY <1>44 DEF Flags, Stops, data
<1> QED
  BY <1>43, <1>44, <1>1, <1>2, <1>3, <1>4, <1>5, <1>6, <1>7, <1>8, <1>9, <1>10, <1>11, <1>12, <1>13, <1>14,
     <1>15, <1>16, <1>17, <1>18, <1>19, <1>20, <1>21, <1>22, <1>23, <1>24, <1>25, <1>26, <1>27,
     <1>28, <1>29, <1>30, <1>31, <1>32, <1>33, <1>34, <1>35, <1>36, <1>37, <1>38, <1>39, <1>40,
     <1>41, <1>42 DEF Next, InstallerStep

\* The states of the services and of what Windows starts stay in their ranges.
LEMMA SvcTypes ==
    ASSUME Ranges, NEW s
    PROVE
      /\ \A x \in State : [svc EXCEPT ![s] = x] \in [Service -> State]
      /\ \A x \in BOOLEAN : [auto EXCEPT ![s] = x] \in [Service -> BOOLEAN]
      /\ Ended(s) => svc' \in [Service -> State]
      /\ Unstopped(s) => svc' \in [Service -> State]
      /\ Started(s) => svc' \in [Service -> State]
BY DEF Ranges, State, Ended, Unstopped, Started

LEMMA RangesRemove ==
    ASSUME Ranges, run \in Runs, Sound, Remove
    PROVE  Ranges'
<1>1. svc' \in [Service -> State] /\ auto' \in [Service -> BOOLEAN]
  <2>1. CASE UNCHANGED services
    BY <2>1 DEF services, Ranges
  <2>2. CASE svc' = [svc EXCEPT ![This] = "missing"] /\ auto' = [auto EXCEPT ![This] = FALSE]
    BY <2>2, SvcTypes
  <2>3. CASE (Ended(This) \/ Unstopped(This)) /\ UNCHANGED auto
    BY <2>3, SvcTypes DEF Ranges
  <2> QED
    BY <2>1, <2>2, <2>3 DEF Remove
<1> QED
  BY <1>1, WindowsSetupAssumption DEF Ranges, Remove, data, marks, programs, Note, Fine, Fault

LEMMA RangesPrograms ==
    ASSUME Ranges, run \in Runs, Delete \/ Copy
    PROVE  Ranges'
<1>1. files' \in 0 .. MaxVersion /\ exes' \subseteq Service /\ parts' \subseteq Parts
  <2>1. CASE Delete
    BY <2>1, WindowsSetupAssumption DEF Delete, DeletedInPart, Ranges
  <2>2. CASE Copy
    BY <2>2, RunTyped DEF Copy, programs, Ranges
  <2> QED
    BY <2>1, <2>2
<1>2. UNCHANGED <<data, marks, services, halted>> /\ faults' \in 0 .. MaxFault
  BY WindowsSetupAssumption DEF Ranges, Delete, Copy, Note, Fine, Fault
<1> QED
  BY <1>1, <1>2 DEF Ranges, data, marks, services

\* initdb, whole or cut off.
LEMMA RangesCluster ==
    ASSUME Ranges, Sound, InitDbCut \/ InitDb
    PROVE  cluster' \in Stored
<1>1. CASE cluster' = cluster
  BY <1>1 DEF Ranges
<1>2. CASE cluster' = [NoCluster EXCEPT !.state = "partial"]
  BY <1>2 DEF NoCluster, Stored
<1>3. CASE run.pc = "initdb" /\ cluster' = Created
  <2>1. secret["postgres-admin-password"] \in Key
    BY <1>3, SecretNames DEF Sound, Grounded, Keyed, Present, ConfigurePc
  <2> QED
    BY <1>3, <2>1 DEF Created, Stored
<1> QED
  BY <1>1, <1>2, <1>3 DEF InitDbCut, InitDb

LEMMA RangesBreak ==
    ASSUME Ranges, Sound, Break
    PROVE  Ranges'
<1>1. svc' \in [Service -> State]
  BY SvcTypes DEF Break, Ranges
<1>2. cluster' \in Stored
  BY RangesCluster DEF Break
<1> QED
  BY <1>1, <1>2, WindowsSetupAssumption DEF Ranges, Break, marks, programs, Note, Fault

LEMMA RangesFailed ==
    ASSUME Ranges, Failed
    PROVE  Ranges'
BY WindowsSetupAssumption DEF Ranges, Failed, data, marks, services, programs, Fine

LEMMA RangesStarts ==
    ASSUME Ranges, StartDatabase \/ Restore
    PROVE  Ranges'
<1>1. svc' \in [Service -> State]
  BY SvcTypes DEF Ranges, StartDatabase, Restore
<1> QED
  BY <1>1, WindowsSetupAssumption DEF Ranges, StartDatabase, Restore, data, marks, programs, Note,
     Fine, Fault

LEMMA RangesStops ==
    ASSUME Ranges, Quieten \/ StopDatabase
    PROVE  Ranges'
<1>1. svc' \in [Service -> State]
  BY SvcTypes DEF Quieten, StopDatabase
<1> QED
  BY <1>1, WindowsSetupAssumption DEF Ranges, Quieten, StopDatabase, data, marks, programs, Note,
     Fine, Fault

LEMMA RangesRegister ==
    ASSUME Ranges, run \in Runs, Sound, Register
    PROVE  Ranges'
<1>1. svc' \in [Service -> State] /\ auto' \in [Service -> BOOLEAN]
  BY SvcTypes DEF Register
<1>2. This \in Service
  BY RunTyped, ServiceNames, ThisService DEF Register, Sound, Counters
<1> QED
  BY <1>1, <1>2 DEF Ranges, Register, data, marks, Note, Fine

LEMMA RangesStopFailed ==
    ASSUME Ranges, run \in Runs, Sound, StopFailed
    PROVE  Ranges'
<1>1. svc' \in [Service -> State] /\ auto' \in [Service -> BOOLEAN]
  <2>2. CASE Ended(This) /\ auto' = [auto EXCEPT ![This] = FALSE]
    BY <2>2, SvcTypes
  <2>3. CASE (Ended(This) \/ Unstopped(This)) /\ UNCHANGED auto
    BY <2>3, SvcTypes DEF Ranges
  <2> QED
    BY <2>2, <2>3 DEF StopFailed
<1> QED
  BY <1>1, WindowsSetupAssumption DEF Ranges, StopFailed, data, marks, programs, Note, Fine, Fault

LEMMA RangesRestart ==
    ASSUME Ranges, Sound, Restart
    PROVE  Ranges'
<1>1. svc' \in [Service -> State]
  BY DEF Restart
<1>2. cluster' \in Stored
  BY RangesCluster DEF Restart
<1>3. files' \in 0 .. MaxVersion /\ exes' \subseteq Service /\ parts' \subseteq Parts
  <2>1. CASE UNCHANGED programs
    BY <2>1 DEF programs, Ranges
  <2>2. CASE DeletedInPart
    BY <2>2, WindowsSetupAssumption DEF DeletedInPart, Ranges
  <2>3. CASE CopiedInPart
    <3>1. PICK some \in SUBSET {"dump", "helper"} : parts' = parts \cup some
      BY <2>3 DEF CopiedInPart
    <3>2. UNCHANGED <<files, exes>>
      BY <2>3 DEF CopiedInPart
    <3> QED
      BY <3>1, <3>2 DEF Ranges, Parts
  <2> QED
    BY <2>1, <2>2, <2>3 DEF Restart
<1> QED
  BY <1>1, <1>2, <1>3, WindowsSetupAssumption DEF Ranges, Restart, marks, Note, Fault

LEMMA RangesRole ==
    ASSUME Ranges, run \in Runs, Sound, Role
    PROVE  Ranges'
<1>1. secret["database-password"] \in Key
  BY SecretNames DEF Role, Sound, Grounded, Keyed, Present, ConfigurePc
<1>2. cluster' \in Stored
  BY <1>1 DEF Role, Ranges, Stored
<1> QED
  BY <1>2, WindowsSetupAssumption DEF Ranges, Role, marks, programs, services, Note, Fine

LEMMA RangesInitDb ==
    ASSUME Ranges, run \in Runs, Sound, InitDb
    PROVE  Ranges'
<1>1. cluster' \in Stored
  BY RangesCluster
<1> QED
  BY <1>1, WindowsSetupAssumption DEF Ranges, InitDb, marks, programs, services, Note, Fine

\* Every other variable stays in its range: a step over the actions, the harder ones above.
LEMMA RangesKept ==
    ASSUME Ranges, run \in Runs, Sound, Next
    PROVE  Ranges'
<1>3. CASE Refuse
  BY <1>3, WindowsSetupAssumption DEF Ranges, Refuse, data, marks, services, programs, Note, Fine,
     Acceptable
<1>4. CASE ColdBackup
  BY <1>4, WindowsSetupAssumption DEF Ranges, ColdBackup, services, programs, Fine, Fault,
     CopyAll, Acceptable
<1>5. CASE HotBackup
  BY <1>5, WindowsSetupAssumption DEF Ranges, HotBackup, data, marks, services, programs, Note,
     Fine, Acceptable, Running
<1>8. CASE BackUp
  BY <1>8, WindowsSetupAssumption DEF Ranges, BackUp, marks, services, programs, Note, Fine,
     Fault, CopyAll
<1>10. CASE Mark
  BY <1>10, WindowsSetupAssumption DEF Ranges, Mark, data, services, programs, Note, Fine, Fault
<1>12. CASE Restored
  BY <1>12, WindowsSetupAssumption DEF Ranges, Restored, data, marks, services, programs, Fine
<1>13. CASE Removed
  BY <1>13, WindowsSetupAssumption DEF Ranges, Removed, data, marks, services, programs, Note,
     Fine
<1>14. CASE CheckRuntime
  BY <1>14, WindowsSetupAssumption DEF Ranges, CheckRuntime, data, marks, services, programs,
     Note, Fine, Fault
<1>16. CASE Options
  BY <1>16, WindowsSetupAssumption DEF Ranges, Options, marks, services, programs, Note, Fine
<1>17. CASE Secret
  BY <1>17, WindowsSetupAssumption, SecretNames DEF Ranges, Secret, marks, services, programs,
     Note, Fine, Present, Content, Key
<1>18. CASE HaveSecrets
  BY <1>18, WindowsSetupAssumption DEF Ranges, HaveSecrets, data, marks, services, programs, Note,
     Fine
<1>19. CASE StopAll
  BY <1>19, SvcTypes, WindowsSetupAssumption DEF Ranges, StopAll, data, marks, programs, Note, Fine
<1>20. CASE Install
  BY <1>20, WindowsSetupAssumption DEF Ranges, Install, data, marks, programs, Note, Fine, This,
     State
<1>21. CASE StartServer
  BY <1>21, SvcTypes, WindowsSetupAssumption DEF Ranges, StartServer, StartService, data, marks, programs,
     Note, Fine
<1>22. CASE StartParser
  BY <1>22, SvcTypes, WindowsSetupAssumption DEF Ranges, StartParser, StartService, data, marks, programs,
     Note, Fine
<1>23. CASE StartApi
  BY <1>23, SvcTypes, WindowsSetupAssumption DEF Ranges, StartApi, StartService, data, marks, programs,
     Note, Fine
<1>24. CASE StartProxy
  BY <1>24, SvcTypes, WindowsSetupAssumption DEF Ranges, StartProxy, StartService, data, marks, programs,
     Note, Fine
<1>25. CASE StartWorker
  BY <1>25, SvcTypes, WindowsSetupAssumption DEF Ranges, StartWorker, StartService, data, marks, programs,
     Note, Fine
<1>26. CASE Base
  BY <1>26, WindowsSetupAssumption DEF Ranges, Base, services, programs, Note, Fine, Stored
<1>27. CASE Migrate
  BY <1>27, WindowsSetupAssumption DEF Ranges, Migrate, marks, services, programs, Note, Fine,
     Revised
<1>28. CASE Certificates
  BY <1>28, WindowsSetupAssumption DEF Ranges, Certificates, marks, services, programs, Note, Fine
<1>29. CASE Issued
  BY <1>29, WindowsSetupAssumption DEF Ranges, Issued, marks, services, programs, Note, Fine
<1>30. CASE Done
  BY <1>30, WindowsSetupAssumption DEF Ranges, Done, data, services, programs, Note, Fine
<1>32. CASE Uninstall
  BY <1>32, WindowsSetupAssumption DEF Ranges, Uninstall, data, marks, services, programs
<1>33. CASE Reconfigure
  BY <1>33, WindowsSetupAssumption DEF Ranges, Reconfigure, data, marks, services, programs
<1>34. CASE Write
  BY <1>34, WindowsSetupAssumption, SecretNames DEF Ranges, Write, marks, services, programs,
     Serving, Running, Present, Content, Key
<1>35. ASSUME NEW v \in Version, Begin(v) PROVE Ranges'
  BY <1>35, WindowsSetupAssumption, SecretNames DEF Ranges, Begin, data, marks, services,
     programs, Version
<1>36. ASSUME NEW s \in SecretFile, LoseSecret(s) PROVE Ranges'
  BY <1>36, WindowsSetupAssumption, SecretNames DEF Ranges, LoseSecret, marks, services, programs,
     Fault, Content, Key
<1>37. CASE NoHelper
  BY <1>37, WindowsSetupAssumption DEF Ranges, NoHelper, data, marks, services, programs, Note, Fine
<1>38. ASSUME NEW s \in Service, Stops(s) PROVE Ranges'
  BY <1>38, SvcTypes DEF Ranges, Stops, data, marks, programs
<1> QED
  BY <1>37, <1>38, RangesPrograms, RangesBreak, RangesFailed, RangesStarts, RangesStops, <1>3, <1>4, <1>5, <1>8, <1>10, <1>12, <1>13, <1>14,
     <1>16, <1>17, <1>18, <1>19, <1>20, <1>21, <1>22, <1>23, <1>24, <1>25, <1>26, <1>27,
     <1>28, <1>29, <1>30, <1>32, <1>33, <1>34, <1>35, <1>36, RangesRemove, RangesRegister,
     RangesStopFailed, RangesRestart, RangesRole, RangesInitDb DEF Next, InstallerStep

(***************************************************************************)
(* Each step keeps the invariant: how it moves the installer, then the     *)
(* conjuncts that it disturbs.                                             *)
(***************************************************************************)

\* Prepare, with the deletion of the old program and the copying of the new one.
LEMMA StepDelete ==
    ASSUME run \in Runs, Typed, Sound, Delete
    PROVE  Sound'
<1>1. Ends \/ (run.to # 0 /\ To("copy", 0))
  <2>1. CASE run' = Idle
    BY <2>1, ToIdle
  <2>2. CASE run.to # 0 /\ Go("copy")
    BY <2>2, ToGo
  <2> QED
    BY <2>1, <2>2 DEF Delete
<1>2. files' = 0
  BY DEF Delete, DeletedInPart
<1> QED
  BY <1>1, <1>2, ServiceNames DEF Typed, Sound, Counters, Active, Grounded, Present, Keyed, ConfigurePc,
     Alive, Noted, Running, Quieted, Upgrading, Stopped, Off, Marked, Migrated, Honest, Same, To,
     Ends, Delete, data, marks, services, Note

LEMMA StepCopy ==
    ASSUME run \in Runs, Typed, Sound, Copy
    PROVE  Sound'
<1>1. To("check", 0) \/ (Ends /\ UNCHANGED programs)
  BY ToGo, ToIdle DEF Copy
<1> QED
  BY <1>1, ServiceNames DEF Typed, Sound, Counters, Active, Grounded, Present, Keyed, ConfigurePc,
     Alive, Noted, Running, Quieted, Upgrading, Stopped, Off, Marked, Migrated, Honest, Same, To,
     Ends, Copy, programs, data, marks, services, Note

LEMMA StepRefuse ==
    ASSUME run \in Runs, Typed, Sound, Refuse
    PROVE  Sound'
<1>1. Ends
  BY ToIdle DEF Refuse
<1> QED
  BY <1>1, ServiceNames DEF Typed, Sound, Counters, Active, Grounded, Present, Keyed, ConfigurePc,
     Alive, Noted, Running, Quieted, Upgrading, Stopped, Off, Marked, Migrated, Honest, Ends,
     Refuse, data, marks, services, programs, Note

LEMMA StepColdBackup ==
    ASSUME run \in Runs, Typed, Sound, ColdBackup
    PROVE  Sound'
<1>1. ((To("copy", 0) \/ To("remove", 5)) /\ saved' = TRUE /\ phase' = "prepared") \/ Ends
  BY ToGo, ToFrom, ToIdle DEF ColdBackup, Replace, CopyAll
<1>2. \A s \in Service : svc[s] = "missing"
  BY DEF ColdBackup, Acceptable
<1> QED
  BY <1>1, <1>2, ServiceNames DEF Typed, Sound, Counters, Active, Grounded, Present, Keyed, ConfigurePc,
     Alive, Noted, Running, Quieted, Upgrading, Stopped, Off, Marked, Migrated, Honest, Same, To,
     Ends, ColdBackup, services, programs, CopyAll

LEMMA StepHotBackup ==
    ASSUME run \in Runs, Typed, Sound, HotBackup
    PROVE  Sound'
<1>1. run'.pc = "quiet" /\ run'.i = 5 /\ run'.was = Running /\ run'.to = run.to
  BY DEF HotBackup
<1> QED
  BY <1>1, ServiceNames DEF Typed, Sound, Counters, Active, Grounded, Present, Keyed, ConfigurePc,
     Alive, Noted, Running, Quieted, Upgrading, Stopped, Off, Marked, Migrated, Honest, HotBackup,
     data, marks, services, programs, Note

LEMMA StepQuieten ==
    ASSUME run \in Runs, Typed, Sound, Quieten
    PROVE  Sound'
<1>1. Stay(-1) \/ To("restore", 1)
  BY ToFrom, ToNext DEF Quieten
<1>2. run.pc = "quiet" /\ run.i \in 2 .. 5 /\ This \in Service
  BY ServiceNames DEF Quieten, Sound, Counters, This
<1>3. Running' \subseteq Running
  BY <1>2 DEF Typed, Quieten, Ended, Unstopped, Running
<1>4. run'.pc = "restore" \/ (run'.pc = "quiet" /\ run'.i = run.i - 1 /\ This \notin Running')
  <2>1. CASE Ended(This) /\ NextI(-1)
    BY <1>2, <2>1, ToNext DEF Ended, Typed, Stay, Running
  <2>2. CASE From("restore", 1)
    BY <2>2, ToFrom DEF To
  <2> QED
    BY <2>1, <2>2 DEF Quieten
<1>5. Quieted'
  <2>1. UNCHANGED <<saved, schema, files, enc>>
    BY DEF Quieten, programs, data
  <2> QED
    BY <1>2, <1>3, <1>4, <2>1, ServiceNames DEF Sound, Quieted, Upgrading, This
<1>6. Stopped'
  BY <1>1, <1>2, <1>3 DEF Sound, Stopped, To, Stay, Quieten, Note
<1> QED
  BY <1>1, <1>2, <1>5, <1>6, ServiceNames DEF Typed, Sound, Counters, Active, Grounded, Present, Keyed,
     ConfigurePc, Alive, Noted, Marked, Migrated, Honest, Same, To, Stay,
     Quieten, data, marks, programs, Note

LEMMA StepStartDatabase ==
    ASSUME run \in Runs, Typed, Sound, StartDatabase
    PROVE  Sound'
<1>1. To("dump", 0) \/ To("restore", 1)
  BY ToGo, ToFrom DEF StartDatabase
<1>2. Running' \subseteq Running \cup {"Database"}
  BY GroupNames DEF StartDatabase, Started, Running
<1>3. run.pc = "quiet" /\ run.i = 1 /\ halted = {} /\ halted' = {}
  BY DEF StartDatabase, Note, Sound, Stopped
<1>4. Quieted'
  <2>1. Running \subseteq {"Database"}
    BY <1>3, ServiceNames DEF Sound, Quieted, Running
  <2>2. UNCHANGED <<saved, schema, files, enc>>
    BY DEF StartDatabase, data, programs
  <2> QED
    BY <1>1, <1>2, <2>1, <2>2 DEF To, Sound, Quieted, Upgrading
<1>5. Stopped'
  BY <1>1, <1>3 DEF To, Stopped
<1> QED
  BY <1>1, <1>3, <1>4, <1>5, ServiceNames DEF Typed, Sound, Counters, Active, Grounded, Present, Keyed,
     ConfigurePc, Alive, Noted, Marked, Migrated, Honest, Same, To,
     StartDatabase, data, marks, programs, Note

LEMMA StepBackUp ==
    ASSUME run \in Runs, Typed, Sound, BackUp
    PROVE  Sound'
<1>1. (To("stopdb", 0) /\ saved' = TRUE) \/ (To("restore", 1) /\ saved' = saved)
  BY ToGo, ToFrom DEF BackUp, CopyAll
<1> QED
  BY <1>1, ServiceNames DEF Typed, Sound, Counters, Active, Grounded, Present, Keyed, ConfigurePc,
     Alive, Noted, Running, Quieted, Upgrading, Stopped, Off, Marked, Migrated, Honest, Same, To,
     BackUp, marks, services, programs, Note, CopyAll, CanDump

LEMMA StepStopDatabase ==
    ASSUME run \in Runs, Typed, Sound, StopDatabase
    PROVE  Sound'
<1>1. To("mark", 0) \/ To("restore", 1)
  BY ToGo, ToFrom DEF StopDatabase
<1>2. Running' \subseteq Running
  BY ServiceNames DEF Typed, StopDatabase, Ended, Unstopped, Running
<1> QED
  BY <1>1, <1>2, ServiceNames DEF Typed, Sound, Counters, Active, Grounded, Present, Keyed, ConfigurePc,
     Alive, Noted, Quieted, Upgrading, Stopped, Marked, Migrated, Honest, Same, To,
     StopDatabase, data, marks, programs, Note

LEMMA StepMark ==
    ASSUME run \in Runs, Typed, Sound, Mark
    PROVE  Sound'
<1>1. ((To("copy", 0) \/ To("remove", 5)) /\ phase' = "prepared") \/ To("restore", 1)
  BY ToGo, ToFrom DEF Mark, Replace
<1> QED
  BY <1>1, ServiceNames DEF Typed, Sound, Counters, Active, Grounded, Present, Keyed, ConfigurePc,
     Alive, Noted, Running, Quieted, Upgrading, Stopped, Off, Marked, Migrated, Honest, Same, To,
     Mark, data, services, programs, Note

LEMMA StepRestore ==
    ASSUME run \in Runs, Typed, Sound, Backed, Restore
    PROVE  Sound'
<1>1. run'.pc = run.pc /\ run'.i = run.i + 1 /\ run'.was = run.was /\ run'.to = run.to
      /\ run.lost \subseteq run'.lost /\ run.late \subseteq run'.late
  <2>1. CASE NextI(1)
    BY <2>1 DEF NextI, Runs
  <2>2. CASE run' = [run EXCEPT !.i = @ + 1, !.late = IF PassedOver(This) THEN @ \cup {This} ELSE @]
    BY <2>2 DEF Runs
  <2>3. CASE run' = [run EXCEPT !.i = @ + 1, !.lost = @ \cup {This}]
    BY <2>3 DEF Runs
  <2> QED
    BY <2>1, <2>2, <2>3 DEF Restore
<1>2. run.pc = "restore" /\ run.i \in 1 .. 5 /\ This \in Service
  BY ServiceNames DEF Restore, Sound, Counters, This
<1>3. Noted'
  <2>1. \A s \in Service : svc'[s] = svc[s] \/ svc'[s] = "running"
    BY DEF Typed, Restore, Started
  <2>2. This \in run.was => svc'[This] = "running" \/ This \in run'.lost \cup run'.late
    <3> SUFFICES ASSUME This \in run.was PROVE svc'[This] = "running" \/ This \in run'.lost \cup run'.late
      OBVIOUS
    <3>1. \A d \in Group(This) : Able(d)
      BY <1>2 DEF Backed, Ready, Noting
    <3>2. CASE Started(This)
      BY <1>2, <3>2 DEF Typed, Started, Group
    <3>3. CASE run' = [run EXCEPT !.i = @ + 1, !.lost = @ \cup {This}]
      BY <3>3 DEF Runs
    <3>4. CASE /\ ~(Missed(This) /\ CanStart(This)) /\ UNCHANGED svc
               /\ run' = [run EXCEPT !.i = @ + 1,
                                     !.late = IF PassedOver(This) THEN @ \cup {This} ELSE @]
      <4>1. CASE This \in Running
        <5>1. svc[This] = "running" \/ PassedOver(This)
          BY <1>2, <4>1 DEF Running, PassedOver, Group
        <5>2. PassedOver(This) => This \in run'.late
          BY <3>4 DEF Runs
        <5> QED
          BY <3>4, <5>1, <5>2
      <4>2. CASE This \notin Running
        <5>1. ~CanStart(This)
          BY <3>4, <4>2 DEF Missed
        <5>2. PassedOver(This)
          BY <1>2, <3>1, <4>2, <5>1 DEF CanStart, PassedOver, Group, Running
        <5> QED
          BY <3>4, <5>2 DEF Runs
      <4> QED
        BY <4>1, <4>2
    <3> QED
      BY <3>2, <3>3, <3>4 DEF Restore
  <2> QED
    BY <1>1, <1>2, <2>1, <2>2, ServiceNames DEF Typed, Sound, Noted, This
<1>4. UNCHANGED <<data, marks, auto, programs, halted>>
  BY DEF Restore, Note
<1> QED
  BY <1>1, <1>2, <1>3, <1>4, ServiceNames DEF Typed, Sound, Counters, Active, Grounded, Present, Keyed,
     ConfigurePc, Alive, Quieted, Upgrading, Stopped, Marked, Migrated, Honest, data, marks, programs

LEMMA StepRestored ==
    ASSUME run \in Runs, Typed, Sound, Restored
    PROVE  Sound'
<1>1. Ends
  BY ToIdle DEF Restored
<1> QED
  BY <1>1, ServiceNames DEF Typed, Sound, Counters, Active, Grounded, Present, Keyed, ConfigurePc,
     Alive, Noted, Running, Quieted, Upgrading, Stopped, Off, Marked, Migrated, Honest, Ends,
     Restored, data, marks, services, programs

\* Remove.
LEMMA StepRemove ==
    ASSUME run \in Runs, Typed, Sound, Remove
    PROVE  Sound'
<1>0. This \in Service
  BY ServiceNames DEF This, Remove, Sound, Counters
<1>1. (Stay(-1) /\ svc'[This] = "missing") \/ Ends
  <2>1. CASE NextI(-1)
    <3>1. svc'[This] = "missing"
      <4>1. run' # Idle
        BY <2>1, ToNext, ToIdle DEF Remove, Stay, Ends
      <4> QED
        BY <1>0, <4>1 DEF Typed, Remove, Gone, services
    <3> QED
      BY <2>1, <3>1, ToNext
  <2>2. CASE run' = Idle
    BY <2>2, ToIdle
  <2> QED
    BY <2>1, <2>2 DEF Remove
<1>2. Running' \subseteq Running /\ \A s \in Service : svc[s] = "missing" => svc'[s] = "missing"
  BY <1>0 DEF Typed, Remove, Ended, Unstopped, services, Running
<1> QED
  BY <1>0, <1>1, <1>2, ServiceNames DEF Typed, Sound, Counters, Active, Grounded, Present, Keyed, ConfigurePc,
     Alive, Noted, Quieted, Upgrading, Stopped, Marked, Migrated, Honest, Same,
     Stay, Ends, Remove, data, marks, programs, Note, This

LEMMA StepNoHelper ==
    ASSUME run \in Runs, Typed, Sound, NoHelper
    PROVE  Sound'
<1>1. Ends
  BY ToIdle DEF NoHelper
<1> QED
  BY <1>1, ServiceNames DEF Typed, Sound, Counters, Active, Grounded, Present, Keyed, ConfigurePc,
     Alive, Noted, Running, Quieted, Upgrading, Stopped, Off, Marked, Migrated, Honest, Ends,
     NoHelper, data, marks, services, programs, Note

LEMMA StepRemoved ==
    ASSUME run \in Runs, Typed, Sound, Removed
    PROVE  Sound'
<1>1. To("delete", 0)
  BY ToGo DEF Removed
<1> QED
  BY <1>1, ServiceNames DEF Typed, Sound, Counters, Active, Grounded, Present, Keyed, ConfigurePc,
     Alive, Noted, Running, Quieted, Upgrading, Stopped, Off, Marked, Migrated, Honest, Same, To,
     Removed, data, marks, services, programs, Note

\* Configure.
LEMMA StepCheckRuntime ==
    ASSUME run \in Runs, Typed, Sound, CheckRuntime
    PROVE  Sound'
<1>1. To("options", 0) \/ Ends
  BY ToGo, ToIdle DEF CheckRuntime
<1> QED
  BY <1>1, ServiceNames DEF Typed, Sound, Counters, Active, Grounded, Present, Keyed, ConfigurePc,
     Alive, Noted, Running, Quieted, Upgrading, Stopped, Off, Marked, Migrated, Honest, Same, To,
     Ends, CheckRuntime, data, marks, services, programs, Note

LEMMA StepBreak ==
    ASSUME run \in Runs, Typed, Sound, Break
    PROVE  Sound'
<1>1. To("fail", 5)
  BY ToFrom DEF Break
<1>2. UNCHANGED <<conn, public, secret, schema, certs, enc, saved, marks, auto, programs, halted>>
  BY DEF Break, Note
<1>3. cluster' = cluster \/ (cluster.state = "none" /\ run.pc = "initdb" /\ ~cluster'.base)
  BY DEF Break, InitDbCut, NoCluster, Created
<1>4. Grounded' /\ Honest'
  <2>1. run.pc = "initdb" => conn
    BY DEF Sound, Grounded, ConfigurePc
  <2> QED
    BY <1>1, <1>2, <1>3, <2>1 DEF Sound, Grounded, Honest, marks, programs, To, ConfigurePc, Keyed
<1>5. halted' = {}
  BY <1>2 DEF Break, Sound, Stopped, ConfigurePc
<1> QED
  BY <1>1, <1>2, <1>4, <1>5, ServiceNames DEF Sound, Counters, Active, Alive, Noted, Quieted, Upgrading,
     Stopped, Marked, Migrated, To, marks, programs, ConfigurePc

LEMMA StepOptions ==
    ASSUME run \in Runs, Typed, Sound, Options
    PROVE  Sound'
<1>1. To("secrets", 1)
  BY ToFrom DEF Options
<1> QED
  BY <1>1, ServiceNames, SecretNames DEF Typed, Sound, Counters, Active, Grounded, Present, Keyed,
     ConfigurePc, Alive, Noted, Running, Quieted, Upgrading, Stopped, Off, Marked, Migrated,
     Honest, Same, To, Options, marks, services, programs, Note

LEMMA StepSecret ==
    ASSUME run \in Runs, Typed, Sound, Secret
    PROVE  Sound'
<1>1. (Stay(1) /\ secret'[Secrets[run.i]] \in Key) \/ To("fail", 5)
  <2> DEFINE s == Secrets[run.i]
  <2>0. s \in SecretFile /\ run.pc = "secrets"
    BY SecretNames DEF Secret, Sound, Counters, Typed
  <2>1. CASE Present(s)
    <3>1. NextI(1) /\ UNCHANGED secret
      BY <2>1 DEF Secret
    <3> QED
      BY <2>1, <3>1, ToNext DEF Typed, Present, Key
  <2>2. CASE ~Present(s) /\ MayCreate
    <3>1. secret' = [secret EXCEPT ![s] = IF @ = "lost" THEN "second" ELSE "first"] /\ NextI(1)
      BY <2>2 DEF Secret
    <3>2. secret'[s] \in Key
      BY <2>0, <3>1 DEF Typed, Key
    <3> QED
      BY <3>1, <3>2, ToNext DEF Typed, Present
  <2>3. CASE ~Present(s) /\ ~MayCreate
    <3>1. From("fail", 5)
      BY <2>3 DEF Secret
    <3> QED
      BY <3>1, ToFrom DEF Typed
  <2> QED
    BY <2>1, <2>2, <2>3
<1>2. Grounded'
  <2>1. UNCHANGED <<conn, phase, enc, cluster>> /\ run.pc = "secrets" /\ conn
    BY DEF Secret, Sound, Grounded, ConfigurePc, marks
  <2>2. \A s \in SecretFile : Present(s) => Present(s)'
    BY DEF Secret, Typed, Present, Key
  <2>3. ASSUME run'.pc = "secrets", NEW j \in 1 .. 3, j < run'.i PROVE Present(Secrets[j])'
    <3>1. run'.i = run.i + 1 /\ secret'[Secrets[run.i]] \in Key
      BY <1>1, <2>3 DEF To, Stay
    <3>2. CASE j < run.i
      BY <2>1, <2>2, <3>2, SecretNames DEF Sound, Grounded
    <3>3. CASE j = run.i
      BY <3>1, <3>3 DEF Present
    <3> QED
      BY <2>3, <3>1, <3>2, <3>3 DEF Sound, Counters, Typed
  <2> QED
    BY <1>1, <2>1, <2>3, SecretNames DEF To, Stay, Sound, Grounded, Keyed, ConfigurePc
<1> QED
  BY <1>1, <1>2, ServiceNames, SecretNames DEF Typed, Sound, Counters, Active, Alive, Noted,
     Running, Quieted, Grounded, Upgrading, Stopped, ConfigurePc, Off, Marked, Migrated, Honest,
     Same, To, Stay, Secret, marks, services, programs, Note, Present, MayCreate

LEMMA StepHaveSecrets ==
    ASSUME run \in Runs, Typed, Sound, HaveSecrets
    PROVE  Sound'
<1>1. To("stopall", 5)
  BY ToFrom DEF HaveSecrets
<1> QED
  BY <1>1, ServiceNames, SecretNames DEF Typed, Sound, Counters, Active, Grounded, Present, Keyed,
     ConfigurePc, Alive, Noted, Running, Quieted, Upgrading, Stopped, Off, Marked, Migrated,
     Honest, Same, To, HaveSecrets, data, marks, services, programs, Note

LEMMA StepStopAll ==
    ASSUME run \in Runs, Typed, Sound, StopAll
    PROVE  Sound'
<1>1. (run.i = 1 /\ To("register", 1)) \/ (run.i # 1 /\ Stay(-1))
  <2>1. CASE run.i = 1
    <3>1. From("register", 1)
      BY <2>1 DEF StopAll
    <3> QED
      BY <2>1, <3>1, ToFrom
  <2>2. CASE run.i # 1
    <3>1. NextI(-1)
      BY <2>2 DEF StopAll
    <3> QED
      BY <2>2, <3>1, ToNext
  <2> QED
    BY <2>1, <2>2
<1>2. run.pc = "stopall" /\ run.i \in 1 .. 5 /\ This \in Service
  BY ServiceNames DEF StopAll, Sound, Counters, This
<1>3. Running' \subseteq Running \ {This}
  BY <1>2 DEF Typed, StopAll, Ended, Running
<1>4. Alive'
  BY <1>1, <1>2, <1>3, ServiceNames DEF Sound, Alive, To, Stay, This, Running
<1> QED
  BY <1>1, <1>2, <1>3, <1>4, ServiceNames DEF Typed, Sound, Counters, Active, Grounded, Present, Keyed,
     ConfigurePc, Noted, Quieted, Upgrading, Stopped, Marked, Migrated, Honest, Same, To,
     Stay, StopAll, data, marks, programs, Note

LEMMA StepRegister ==
    ASSUME run \in Runs, Typed, Sound, Register
    PROVE  Sound'
<1>1. (run.i = Active /\ To("initdb", 0)) \/ (run.i # Active /\ Stay(1))
  <2>1. CASE run.i = Active
    <3>1. Go("initdb")
      BY <2>1 DEF Register
    <3> QED
      BY <2>1, <3>1, ToGo
  <2>2. CASE run.i # Active
    <3>1. NextI(1)
      BY <2>2 DEF Register
    <3> QED
      BY <2>2, <3>1, ToNext
  <2> QED
    BY <2>1, <2>2
<1> QED
  BY <1>1, ServiceNames DEF Typed, Sound, Counters, Active, Grounded, Present, Keyed, ConfigurePc,
     Alive, Noted, Running, Quieted, Upgrading, Stopped, Off, Marked, Migrated, Honest, Same, To,
     Stay, Register, data, marks, Note, This

LEMMA StepInitDb ==
    ASSUME run \in Runs, Typed, Sound, InitDb
    PROVE  Sound'
<1>1. To("install", 1)
  BY ToFrom DEF InitDb
<1> QED
  BY <1>1, ServiceNames DEF Typed, Sound, Counters, Active, Grounded, Present, Keyed, ConfigurePc,
     Alive, Noted, Running, Quieted, Upgrading, Stopped, Off, Marked, Migrated, Honest, Same, To,
     InitDb, Created, marks, services, programs, Note

LEMMA StepInstall ==
    ASSUME run \in Runs, Typed, Sound, Install
    PROVE  Sound'
<1>1. (run.i = Active /\ To("start", 0)) \/ (run.i # Active /\ Stay(1))
  <2>1. CASE run.i = Active
    <3>1. Go("start")
      BY <2>1 DEF Install
    <3> QED
      BY <2>1, <3>1, ToGo
  <2>2. CASE run.i # Active
    <3>1. NextI(1)
      BY <2>2 DEF Install
    <3> QED
      BY <2>2, <3>1, ToNext
  <2> QED
    BY <2>1, <2>2
<1> QED
  BY <1>1, ServiceNames DEF Typed, Sound, Counters, Active, Grounded, Present, Keyed, ConfigurePc,
     Alive, Noted, Running, Quieted, Upgrading, Stopped, Off, Marked, Migrated, Honest, Same, To,
     Stay, Install, data, marks, programs, Note, This

LEMMA StepStartServer ==
    ASSUME run \in Runs, Typed, Sound, StartServer
    PROVE  Sound'
<1>1. To("role", 0) \/ To("fail", 5)
  BY ToGo, ToFrom DEF StartServer, StartService
<1> QED
  BY <1>1, ServiceNames DEF Typed, Sound, Counters, Active, Grounded, Present, Keyed, ConfigurePc,
     Alive, Noted, Quieted, Upgrading, Stopped, Marked, Migrated, Honest, Same, To,
     StartServer, data, marks, programs, Note, StartService

LEMMA StepStartParser ==
    ASSUME run \in Runs, Typed, Sound, StartParser
    PROVE  Sound'
<1>1. To("api", 0) \/ To("fail", 5)
  BY ToGo, ToFrom DEF StartParser, StartService
<1> QED
  BY <1>1, ServiceNames DEF Typed, Sound, Counters, Active, Grounded, Present, Keyed, ConfigurePc,
     Alive, Noted, Quieted, Upgrading, Stopped, Marked, Migrated, Honest, Same, To,
     StartParser, data, marks, programs, Note, StartService

LEMMA StepStartApi ==
    ASSUME run \in Runs, Typed, Sound, StartApi
    PROVE  Sound'
<1>1. (public /\ To("certs", 0)) \/ (~public /\ To("worker", 0)) \/ To("fail", 5)
  <2>1. CASE CanStart("Api") /\ public
    <3>1. Go("certs")
      BY <2>1 DEF StartApi, StartService
    <3> QED
      BY <2>1, <3>1, ToGo
  <2>2. CASE CanStart("Api") /\ ~public
    <3>1. Go("worker")
      BY <2>2 DEF StartApi, StartService
    <3> QED
      BY <2>2, <3>1, ToGo
  <2>3. CASE ~CanStart("Api")
    <3>1. From("fail", 5)
      BY <2>3 DEF StartApi, StartService
    <3> QED
      BY <2>3, <3>1, ToFrom
  <2> QED
    BY <2>1, <2>2, <2>3
<1> QED
  BY <1>1, ServiceNames DEF Typed, Sound, Counters, Active, Grounded, Present, Keyed, ConfigurePc,
     Alive, Noted, Quieted, Upgrading, Stopped, Marked, Migrated, Honest, Same, To,
     StartApi, data, marks, programs, Note, StartService

LEMMA StepStartProxy ==
    ASSUME run \in Runs, Typed, Sound, StartProxy
    PROVE  Sound'
<1>1. To("worker", 0) \/ To("fail", 5)
  BY ToGo, ToFrom DEF StartProxy, StartService
<1> QED
  BY <1>1, ServiceNames DEF Typed, Sound, Counters, Active, Grounded, Present, Keyed, ConfigurePc,
     Alive, Noted, Quieted, Upgrading, Stopped, Marked, Migrated, Honest, Same, To,
     StartProxy, data, marks, programs, Note, StartService

LEMMA StepStartWorker ==
    ASSUME run \in Runs, Typed, Sound, StartWorker
    PROVE  Sound'
<1>1. To("done", 0) \/ To("fail", 5)
  BY ToGo, ToFrom DEF StartWorker, StartService
<1> QED
  BY <1>1, ServiceNames DEF Typed, Sound, Counters, Active, Grounded, Present, Keyed, ConfigurePc,
     Alive, Noted, Quieted, Upgrading, Stopped, Marked, Migrated, Honest, Same, To,
     StartWorker, data, marks, programs, Note, StartService

LEMMA StepRole ==
    ASSUME run \in Runs, Typed, Sound, Role
    PROVE  Sound'
<1>1. To("base", 0)
  BY ToGo DEF Role
<1> QED
  BY <1>1, ServiceNames DEF Typed, Sound, Counters, Active, Grounded, Present, Keyed, ConfigurePc,
     Alive, Noted, Running, Quieted, Upgrading, Stopped, Off, Marked, Migrated, Honest, Same, To,
     Role, marks, services, programs, Note

LEMMA StepBase ==
    ASSUME run \in Runs, Typed, Sound, Base
    PROVE  Sound'
<1>1. To("migrate", 0)
  BY ToGo DEF Base
<1> QED
  BY <1>1, ServiceNames DEF Typed, Sound, Counters, Active, Grounded, Present, Keyed, ConfigurePc,
     Alive, Noted, Running, Quieted, Upgrading, Stopped, Off, Marked, Migrated, Honest, Same, To,
     Base, services, programs, Note

LEMMA StepMigrate ==
    ASSUME run \in Runs, Typed, Sound, Migrate
    PROVE  Sound'
<1>1. (To("parser", 0) /\ schema' = files) \/ (To("fail", 5) /\ UNCHANGED schema)
  BY ToGo, ToFrom DEF Migrate, Supported, Revised
<1> QED
  BY <1>1, ServiceNames DEF Typed, Sound, Counters, Active, Grounded, Present, Keyed, ConfigurePc,
     Alive, Noted, Running, Quieted, Upgrading, Stopped, Off, Marked, Migrated, Honest, Same, To,
     Migrate, marks, services, programs, Note, Supported, Revised

LEMMA StepCertificates ==
    ASSUME run \in Runs, Typed, Sound, Certificates
    PROVE  Sound'
<1>1. (To("proxy", 0) /\ certs' = "whole") \/ To("fail", 5) \/ To("issue", 0)
  BY ToGo, ToFrom DEF Certificates, ValidSet
<1> QED
  BY <1>1, ServiceNames DEF Typed, Sound, Counters, Active, Grounded, Present, Keyed, ConfigurePc,
     Alive, Noted, Running, Quieted, Upgrading, Stopped, Off, Marked, Migrated, Honest, Same, To,
     Certificates, marks, services, programs, Note, ValidSet

LEMMA StepIssued ==
    ASSUME run \in Runs, Typed, Sound, Issued
    PROVE  Sound'
<1>1. To("proxy", 0)
  BY ToGo DEF Issued
<1> QED
  BY <1>1, ServiceNames DEF Typed, Sound, Counters, Active, Grounded, Present, Keyed, ConfigurePc,
     Alive, Noted, Running, Quieted, Upgrading, Stopped, Off, Marked, Migrated, Honest, Same, To,
     Issued, marks, services, programs, Note

LEMMA StepDone ==
    ASSUME run \in Runs, Typed, Sound, Done
    PROVE  Sound'
<1>1. Ends
  BY ToIdle DEF Done
<1> QED
  BY <1>1, ServiceNames DEF Typed, Sound, Counters, Active, Grounded, Present, Keyed, ConfigurePc,
     Alive, Noted, Running, Quieted, Upgrading, Stopped, Off, Marked, Migrated, Honest, Ends,
     Done, data, services, programs, Note

LEMMA StepStopFailed ==
    ASSUME run \in Runs, Typed, Sound, StopFailed
    PROVE  Sound'
<1>1. run'.pc = run.pc /\ run'.i = run.i - 1 /\ run'.to = run.to /\ run'.was = run.was
      /\ run'.lost \in {run.lost, run.lost \cup {This}}
  BY DEF StopFailed, NextI, Runs
<1>2. run.pc = "fail" /\ run.i \in 2 .. 5 /\ This \in Service /\ halted = {} /\ halted' = {}
  BY ServiceNames DEF StopFailed, Note, Sound, Stopped, Counters, This
<1>3. Running' \subseteq Running
  BY <1>2 DEF Typed, StopFailed, Ended, Unstopped, Running
<1>4. Stopped'
  <2>1. \A s \in Service : Off(s) => Off(s)'
    BY <1>2, <1>3 DEF Typed, StopFailed, Off
  <2>2. \A s \in Service : s = This => Off(s)' \/ s \in run'.lost
    <3>1. CASE Ended(This) /\ auto' = [auto EXCEPT ![This] = FALSE]
      BY <1>2, <3>1 DEF Typed, Off, Ended, Running
    <3>2. CASE run' = [run EXCEPT !.i = @ - 1, !.lost = @ \cup {This}]
      BY <3>2 DEF Runs
    <3> QED
      BY <3>1, <3>2 DEF StopFailed
  <2> QED
    BY <1>1, <1>2, <2>1, <2>2, ServiceNames DEF Sound, Stopped, This
<1> QED
  BY <1>1, <1>2, <1>3, <1>4, ServiceNames DEF Typed, Sound, Counters, Active, Grounded, Present, Keyed,
     ConfigurePc, Alive, Noted, Quieted, Upgrading, Marked, Migrated, Honest, StopFailed,
     data, marks, programs

LEMMA StepFailed ==
    ASSUME run \in Runs, Typed, Sound, Failed
    PROVE  Sound'
<1>1. Ends
  BY ToIdle DEF Failed
<1>2. Stopped'
  <2>1. \A s \in Application : Off(s) \/ s \in run.lost
    BY ServiceNames DEF Failed, Sound, Stopped
  <2>2. UNCHANGED <<svc, auto>>
    BY DEF Failed, services
  <2>3. ASSUME NEW s \in halted' PROVE Off(s)
    <3>1. s \in Application /\ s \notin run.lost
      BY <2>3 DEF Failed, Group, Typed
    <3> QED
      BY <2>1, <3>1
  <2>4. ASSUME NEW s \in halted', NEW d \in Service, s \in Group(d) PROVE ~auto[d]
    <3>1. s \in Application /\ d \notin run.lost
      BY <2>4 DEF Failed
    <3>2. d \in Application
      BY <2>4, <3>1, ServiceNames, GroupNames
    <3> QED
      BY <2>1, <3>1, <3>2 DEF Off
  <2> QED
    BY <1>1, <2>2, <2>3, <2>4 DEF Ends, Stopped, Off, Running
<1> QED
  BY <1>1, <1>2, ServiceNames DEF Typed, Sound, Counters, Active, Grounded, Present, Keyed,
     ConfigurePc, Alive, Noted, Running, Quieted, Upgrading, Marked, Migrated, Honest, Ends,
     Failed, data, marks, services, programs

\* What happens around the installer.
LEMMA StepUninstall ==
    ASSUME run \in Runs, Typed, Sound, Uninstall
    PROVE  Sound'
<1>1. run'.pc = "remove" /\ run'.i = 5 /\ run'.to = 0
  BY DEF Uninstall, Idle
<1> QED
  BY <1>1, ServiceNames DEF Typed, Sound, Counters, Active, Grounded, Present, Keyed, ConfigurePc,
     Alive, Noted, Running, Quieted, Upgrading, Stopped, Off, Marked, Migrated, Honest, Uninstall,
     data, marks, services, programs

LEMMA StepReconfigure ==
    ASSUME run \in Runs, Typed, Sound, Reconfigure
    PROVE  Sound'
<1>1. run'.pc = "check" /\ run'.to = files
  BY DEF Reconfigure, Idle
<1> QED
  BY <1>1, ServiceNames DEF Typed, Sound, Counters, Active, Grounded, Present, Keyed, ConfigurePc,
     Alive, Noted, Running, Quieted, Upgrading, Stopped, Off, Marked, Migrated, Honest,
     Reconfigure, data, marks, services, programs

LEMMA StepRestart ==
    ASSUME run \in Runs, Typed, Sound, Restart
    PROVE  Sound'
<1>1. Ends
  BY ToIdle DEF Restart
<1>2. cluster' = cluster \/ (cluster.state = "none" /\ run.pc = "initdb" /\ ~cluster'.base)
  BY DEF Restart, InitDbCut, NoCluster, Created
<1>3. files' \in {files, 0}
  BY DEF Restart, programs, DeletedInPart, CopiedInPart
<1>4. UNCHANGED <<marks, auto, conn, public, secret, schema, certs, enc, saved, halted>>
  BY DEF Restart, Note
<1>5. Stopped'
  <2>1. ASSUME NEW s \in halted PROVE Off(s)'
    <3>1. s \notin Woken
      BY <2>1 DEF Woken, Sound, Stopped
    <3>2. s \in Service
      BY <2>1 DEF Typed
    <3>3. svc'[s] \in {"missing", "stopped"}
      BY <3>1, <3>2 DEF Restart
    <3> QED
      BY <1>4, <2>1, <3>2, <3>3 DEF Sound, Stopped, Off, Running
  <2> QED
    BY <1>1, <1>4, <2>1 DEF Sound, Stopped, Ends
<1>6. Quieted' /\ Honest' /\ Grounded'
  BY <1>1, <1>2, <1>3, <1>4 DEF Typed, Sound, Quieted, Honest, Grounded, Upgrading, Ends, marks,
     ConfigurePc, Keyed, Present
<1> QED
  BY <1>1, <1>5, <1>6, ServiceNames DEF Sound, Counters, Active, ConfigurePc, Alive, Noted, Marked,
     Migrated, Ends

LEMMA StepWrite ==
    ASSUME run \in Runs, Typed, Sound, Backed, Write
    PROVE  Sound'
<1>1. run' = run
  BY DEF Write
<1>2. Grounded'
  <2>1. cluster.state = "whole"
    BY ServiceNames DEF Write, Serving, Backed, Ready, Group, Able
  <2>2. UNCHANGED <<run, conn, phase, cluster, secret>>
    BY DEF Write, marks
  <2> QED
    BY <2>1, <2>2 DEF Sound, Grounded, Present
<1> QED
  BY <1>1, <1>2, ServiceNames, SecretNames DEF Typed, Sound, Counters, Active, Alive, Noted,
     Running, Quieted, Grounded, Upgrading, Stopped, ConfigurePc, Off, Marked, Migrated, Honest,
     Write, marks, services, programs, Serving, Present

LEMMA StepBegin ==
    ASSUME NEW v \in Version, run \in Runs, Typed, Sound, Begin(v)
    PROVE  Sound'
<1>1. \/ conn /\ run'.pc = "prepare" /\ run'.to = v
      \/ ~conn /\ run'.pc = "remove" /\ run'.i = 5 /\ run'.to = v
      \/ ~conn /\ run'.pc = "copy" /\ run'.to = v
  BY Begins
<1>2. UNCHANGED <<data, marks, services, programs>> /\ halted' = {}
  BY BeginsAt
<1> QED
  BY <1>1, <1>2, ServiceNames, SecretNames DEF Typed, Sound, Counters, Same, Grounded, Present, Keyed,
     ConfigurePc, Alive, Noted, Running, Quieted, Upgrading, Stopped, Off, Marked, Migrated,
     Honest, NoCluster, data, marks, services, programs, Version

LEMMA StepLoseSecret ==
    ASSUME NEW s \in SecretFile, run \in Runs, Typed, Sound, LoseSecret(s)
    PROVE  Sound'
BY ServiceNames, SecretNames DEF Typed, Sound, Counters, Grounded, Present, Keyed, ConfigurePc,
   Alive, Noted, Running, Quieted, Upgrading, Stopped, Off, Marked, Migrated, Honest, NoCluster,
   LoseSecret, data, marks, services, programs, Active, Key

LEMMA StepStops ==
    ASSUME NEW s \in Service, run \in Runs, Typed, Sound, Stops(s)
    PROVE  Sound'
<1>1. run' = run /\ UNCHANGED <<data, marks, auto, programs, halted>>
  BY DEF Stops
<1>2. \A r \in Service : svc'[r] = svc[r] \/ (svc[r] = "stopping" /\ svc'[r] = "stopped")
  BY DEF Typed, Stops
<1>3. Running' \subseteq Running
  BY <1>2 DEF Running
<1> QED
  BY <1>1, <1>2, <1>3, ServiceNames DEF Typed, Sound, Counters, Active, Grounded, Present, Keyed,
     ConfigurePc, Alive, Noted, Quieted, Upgrading, Stopped, Off, Marked, Migrated, Honest,
     data, marks, programs

\* What runs, and what is noted, stays ready: a step leaves every service able that was ...
LEMMA AbleStays ==
    ASSUME Typed, run \in Runs,
           exes \subseteq exes' \/ \A s \in Service : svc[s] = "missing",
           cluster.state = "whole" => cluster'.state = "whole",
           \A s \in Service : svc[s] # "missing" => svc'[s] # "missing",
           run'.pc \in Noting => run.pc \in Noting /\ run'.was = run.was,
           Running' \subseteq Running, Backed
    PROVE  Backed'
<1>1. \A s \in Service : Able(s) => Able(s)'
  BY DEF Able
<1>2. \A s \in Service : Group(s) \subseteq Service
  BY ServiceNames, GroupNames
<1>3. Running \subseteq Service /\ run.was \subseteq Service
  BY RunTyped DEF Running
<1> QED
  BY <1>1, <1>2, <1>3 DEF Backed, Ready

\* ... and a step that starts one starts what it needs.
LEMMA StartsReady ==
    ASSUME Typed, run \in Runs, NEW s \in Service, CanStart(s), Started(s), Backed,
           UNCHANGED <<exes, cluster>>,
           run'.pc \in Noting => run.pc \in Noting /\ run'.was = run.was
    PROVE  Backed'
<1>1. \A d \in Service : Able(d) => Able(d)'
  BY DEF Able, Started, Typed
<1>2. Running' \subseteq Running \cup Group(s)
  BY DEF Started, Running
<1>3. \A r \in Running \cup Group(s) : \A d \in Group(r) : Able(d) /\ d \in Service
  BY Closed DEF Backed, Ready, CanStart, Running
<1>4. run.was \subseteq Service
  BY RunTyped
<1> QED
  BY <1>1, <1>2, <1>3, <1>4, Closed DEF Backed, Ready

LEMMA BackedPrepare ==
    ASSUME run \in Runs, Typed, Sound, Backed,
           \/ Delete \/ Copy \/ Refuse \/ ColdBackup \/ HotBackup \/ Quieten \/ StartDatabase
           \/ BackUp \/ StopDatabase \/ Mark \/ Restore \/ Restored \/ NoHelper \/ Removed
    PROVE  Backed'
<1>1. CASE Delete
  <2>1. \A s \in Service : svc[s] = "missing"
    BY <1>1 DEF Delete, Sound, Alive
  <2>2. run'.pc \notin Noting
    BY <1>1, ToGo, ToIdle DEF Delete, Noting, To, Ends
  <2>3. UNCHANGED <<svc, cluster>>
    BY <1>1 DEF Delete, data, services
  <2> QED
    BY <2>1, <2>2, <2>3, AbleStays DEF Running
<1>2. CASE Copy \/ Refuse \/ Restored \/ NoHelper \/ Removed
  <2>1. run'.pc \notin Noting
    BY <1>2, ToGo, ToIdle DEF Copy, Refuse, Restored, NoHelper, Removed, Noting, To, Ends
  <2>2. UNCHANGED <<svc, cluster, exes>>
    BY <1>2 DEF Copy, Refuse, Restored, NoHelper, Removed, data, services, programs
  <2> QED
    BY <2>1, <2>2, AbleStays DEF Running
<1>3. CASE ColdBackup \/ Mark \/ BackUp
  <2>1. run'.pc \in Noting => run.pc \in Noting /\ run'.was = run.was
    BY <1>3, ToGo, ToFrom, ToIdle DEF ColdBackup, Mark, BackUp, Replace, Noting, To, Ends, Same
  <2>2. UNCHANGED <<svc, cluster, exes>>
    BY <1>3 DEF ColdBackup, Mark, BackUp, data, services, programs
  <2> QED
    BY <2>1, <2>2, AbleStays DEF Running
<1>4. CASE HotBackup
  <2>1. run'.was = Running /\ UNCHANGED <<svc, cluster, exes>>
    BY <1>4 DEF HotBackup, data, services, programs, Runs
  <2> QED
    BY <2>1 DEF Backed, Ready, Running, Able
<1>5. CASE Quieten \/ StopDatabase
  <2>1. run'.pc \in Noting => run.pc \in Noting /\ run'.was = run.was
    BY <1>5, ToGo, ToFrom, ToNext DEF Quieten, StopDatabase, Noting, To, Stay, Same
  <2>2. ASSUME NEW s, Ended(s) \/ Unstopped(s)
        PROVE  Running' \subseteq Running /\ \A r \in Service : svc[r] # "missing" => svc'[r] # "missing"
    BY <2>2 DEF Typed, Ended, Unstopped, Running
  <2>3. UNCHANGED <<cluster, exes>>
    BY <1>5 DEF Quieten, StopDatabase, data, programs
  <2>4. \E s : Ended(s) \/ Unstopped(s)
    BY <1>5 DEF Quieten, StopDatabase
  <2> QED
    BY <2>1, <2>2, <2>3, <2>4, AbleStays
<1>6. CASE StartDatabase \/ Restore
  <2>1. run'.pc \in Noting => run.pc \in Noting /\ run'.was = run.was
    <3>1. CASE StartDatabase
      BY <3>1, ToGo, ToFrom DEF StartDatabase, Noting, To, Same
    <3>2. CASE Restore
      BY <3>2 DEF Restore, NextI, Noting, Runs
    <3> QED
      BY <1>6, <3>1, <3>2
  <2>2. UNCHANGED <<cluster, exes>>
    BY <1>6 DEF StartDatabase, Restore, data, programs
  <2>3. CASE UNCHANGED svc
    BY <2>1, <2>2, <2>3, AbleStays DEF Running
  <2>4. ASSUME NEW s \in Service, CanStart(s), Started(s) PROVE Backed'
    BY <2>1, <2>2, <2>4, StartsReady
  <2>5. Restore => This \in Service
    BY ServiceNames DEF Restore, Sound, Counters, This
  <2> QED
    BY <1>6, <2>3, <2>4, <2>5, ServiceNames DEF StartDatabase, Restore
<1> QED
  BY <1>1, <1>2, <1>3, <1>4, <1>5, <1>6

\* What needs a service that is removed has been removed before.
LEMMA BackedRemove ==
    ASSUME run \in Runs, Typed, Sound, Backed, Remove
    PROVE  Backed'
<1>1. run.pc = "remove" /\ run.i \in 1 .. 5 /\ This \in Service
  BY ServiceNames DEF Remove, Sound, Counters, This
<1>2. run'.pc \notin Noting
  BY <1>1, ToNext, ToIdle DEF Remove, Noting, Stay, Ends
<1>3. UNCHANGED <<cluster, exes>>
  BY DEF Remove, data, programs
<1>4. Running' \subseteq Running
  BY <1>1 DEF Typed, Remove, Ended, Unstopped, services, Running
<1>5. CASE svc' = [svc EXCEPT ![This] = "missing"]
  <2>1. \A r \in Running' : This \notin Group(r)
    <3>1. \A j \in 1 .. 5 : j > run.i => Services[j] \notin Running
      BY <1>1 DEF Sound, Alive, Running
    <3>2. This \notin Running'
      BY <1>1, <1>5 DEF Typed, Running
    <3>3. \A j \in 1 .. 5 : j < run.i => This \notin Group(Services[j])
      BY <1>1, ServiceNames, GroupNames DEF This
    <3> QED
      BY <1>1, <1>4, <3>1, <3>2, <3>3, ServiceNames DEF This, Running
  <2>2. \A d \in Service : d # This => (Able(d) => Able(d)')
    BY <1>3, <1>5 DEF Able, Typed
  <2> QED
    BY <1>2, <1>4, <2>1, <2>2, Closed DEF Backed, Ready, Running
<1>6. CASE UNCHANGED svc \/ Ended(This) \/ Unstopped(This)
  <2>1. \A s \in Service : svc[s] # "missing" => svc'[s] # "missing"
    BY <1>6 DEF Typed, Ended, Unstopped
  <2> QED
    BY <1>2, <1>3, <1>4, <2>1, AbleStays
<1> QED
  BY <1>5, <1>6 DEF Remove, services

LEMMA BackedConfigure ==
    ASSUME run \in Runs, Typed, Sound, Backed,
           \/ CheckRuntime \/ Break \/ Options \/ Secret \/ HaveSecrets \/ StopAll \/ InitDb
           \/ StartServer \/ StartParser \/ StartApi \/ StartProxy \/ StartWorker \/ Role \/ Base
           \/ Migrate \/ Certificates \/ Issued \/ Done \/ StopFailed \/ Failed
    PROVE  Backed'
<1>1. CASE CheckRuntime \/ Options \/ Secret \/ HaveSecrets \/ Migrate \/ Certificates \/ Issued
           \/ Done \/ Failed
  <2>1. run'.pc \notin Noting
    BY <1>1, ToGo, ToFrom, ToNext, ToIdle DEF CheckRuntime, Options, Secret, HaveSecrets, Migrate,
       Certificates, Issued, Done, Failed, Noting, To, Stay, Ends
  <2>2. UNCHANGED <<svc, cluster, exes>>
    BY <1>1 DEF CheckRuntime, Options, Secret, HaveSecrets, Migrate, Certificates, Issued, Done,
       Failed, data, services, programs
  <2> QED
    BY <2>1, <2>2, AbleStays DEF Running
<1>2. CASE InitDb \/ Role \/ Base
  <2>1. run'.pc \notin Noting
    BY <1>2, ToGo, ToFrom DEF InitDb, Role, Base, Noting, To
  <2>2. UNCHANGED <<svc, exes>>
    BY <1>2 DEF InitDb, Role, Base, services, programs
  <2>3. cluster.state = "whole" => cluster'.state = "whole"
    BY <1>2 DEF InitDb, Role, Base, Typed, Stored
  <2> QED
    BY <2>1, <2>2, <2>3, AbleStays DEF Running
<1>3. CASE Break \/ StopAll \/ StopFailed
  <2>1. run'.pc \notin Noting
    <3>1. CASE Break
      BY <3>1, ToFrom DEF Break, Noting, To
    <3>2. CASE StopAll
      BY <3>2, ToFrom, ToNext DEF StopAll, Noting, To, Stay
    <3>3. CASE StopFailed
      BY <3>3 DEF StopFailed, NextI, Noting, Runs
    <3> QED
      BY <1>3, <3>1, <3>2, <3>3
  <2>2. UNCHANGED exes /\ (cluster.state = "whole" => cluster' = cluster)
    BY <1>3 DEF Break, InitDbCut, StopAll, StopFailed, data, programs
  <2>3. Running' \subseteq Running /\ \A s \in Service : svc[s] # "missing" => svc'[s] # "missing"
    <3>1. UNCHANGED svc \/ Ended(This) \/ Unstopped(This)
      BY <1>3 DEF Break, StopAll, StopFailed, services
    <3> QED
      BY <3>1 DEF Typed, Ended, Unstopped, Running
  <2> QED
    BY <2>1, <2>2, <2>3, AbleStays
<1>4. ASSUME NEW pc, NEW s \in Service, NEW next, next \notin Noting, StartService(pc, s, next)
      PROVE  Backed'
  <2>1. run'.pc \notin Noting
    BY <1>4, ToGo, ToFrom DEF StartService, Noting, To
  <2>2. UNCHANGED <<cluster, exes>>
    BY <1>4 DEF StartService, data, programs
  <2>3. CASE UNCHANGED svc
    BY <2>1, <2>2, <2>3, AbleStays DEF Running
  <2>4. CASE CanStart(s) /\ Started(s)
    BY <2>1, <2>2, <2>4, StartsReady
  <2> QED
    BY <1>4, <2>3, <2>4 DEF StartService
<1>5. CASE StartServer \/ StartParser \/ StartApi \/ StartProxy \/ StartWorker
  BY <1>4, <1>5, ServiceNames DEF StartServer, StartParser, StartApi, StartProxy, StartWorker, Noting
<1> QED
  BY <1>1, <1>2, <1>3, <1>5

\* While services are registered none of them runs.
LEMMA BackedRegister ==
    ASSUME run \in Runs, Typed, Sound, Backed, Register \/ Install
    PROVE  Backed'
<1>1. Running = {}
  BY DEF Sound, Alive, Register, Install
<1>2. Running' = {}
  BY <1>1 DEF Running, Register, Install, Typed
<1>3. run'.pc \notin Noting
  BY ToGo, ToNext DEF Register, Install, Noting, To, Stay
<1> QED
  BY <1>2, <1>3 DEF Backed, Ready

LEMMA BackedAround ==
    ASSUME run \in Runs, Typed, Sound, Backed,
           \/ Uninstall \/ Reconfigure \/ Restart \/ Write
           \/ \E v \in Version : Begin(v)
           \/ \E s \in SecretFile : LoseSecret(s)
           \/ \E s \in Service : Stops(s)
    PROVE  Backed'
<1>1. CASE Uninstall \/ Reconfigure \/ \E v \in Version : Begin(v)
  <2>1. UNCHANGED <<data, services, programs>> /\ run'.pc \notin Noting
    BY <1>1, BeginsAt, CallsAt DEF Noting
  <2>2. UNCHANGED <<svc, cluster, exes>>
    BY <2>1 DEF data, services, programs
  <2> QED
    BY <2>1, <2>2, AbleStays DEF Running
<1>2. CASE Write \/ \E s \in SecretFile : LoseSecret(s)
  <2>1. UNCHANGED <<run, svc, cluster, exes>>
    BY <1>2 DEF Write, LoseSecret, services, programs
  <2> QED
    BY <2>1, AbleStays DEF Running
<1>3. ASSUME NEW s \in Service, Stops(s) PROVE Backed'
  <2>1. UNCHANGED <<run, cluster, exes>>
    BY <1>3 DEF Stops, data, programs
  <2>2. Running' \subseteq Running /\ \A r \in Service : svc[r] # "missing" => svc'[r] # "missing"
    BY <1>3 DEF Stops, Running, Typed
  <2> QED
    BY <2>1, <2>2, AbleStays
<1>4. CASE Restart
  <2>1. run'.pc \notin Noting
    BY <1>4, ToIdle DEF Restart, Noting, Ends
  <2>2. \A s \in Service : svc[s] # "missing" => svc'[s] # "missing"
    BY <1>4 DEF Restart
  <2>3. Running' \subseteq Woken /\ Running' \subseteq Service
    BY <1>4 DEF Restart, Running
  <2>4. \A s \in Running' : \A d \in Group(s) : Able(d) /\ d \in Service
    BY <2>3, Closed DEF Woken
  <2>5. \A d \in Service : Able(d) => Able(d)'
    <3>1. cluster.state = "whole" => cluster' = cluster
      BY <1>4 DEF Restart, InitDbCut
    <3>2. (exes' = exes) \/ \A s \in Service : svc[s] = "missing"
      BY <1>4 DEF Restart, programs, CopiedInPart, Sound, Alive
    <3> QED
      BY <2>2, <3>1, <3>2 DEF Able
  <2> QED
    BY <2>1, <2>4, <2>5 DEF Backed, Ready
<1> QED
  BY <1>1, <1>2, <1>3, <1>4

LEMMA BackedKept ==
    ASSUME run \in Runs, Typed, Sound, Backed, Next
    PROVE  Backed'
BY BackedPrepare, BackedRemove, BackedConfigure, BackedRegister, BackedAround DEF Next, InstallerStep

\* Together: every step keeps the invariant.
LEMMA SoundKept ==
    ASSUME run \in Runs, Typed, Sound, Backed, Next
    PROVE  Sound'
BY StepNoHelper, StepStops, StepDelete, StepCopy, StepRefuse, StepColdBackup, StepHotBackup, StepQuieten,
   StepStartDatabase, StepBackUp, StepStopDatabase, StepMark, StepRestore, StepRestored,
   StepRemove, StepRemoved, StepCheckRuntime, StepBreak, StepOptions, StepSecret, StepHaveSecrets,
   StepStopAll, StepRegister, StepInitDb, StepInstall, StepStartServer, StepStartParser,
   StepStartApi, StepStartProxy, StepStartWorker, StepRole, StepBase, StepMigrate,
   StepCertificates, StepIssued, StepDone, StepStopFailed, StepFailed, StepUninstall,
   StepReconfigure, StepRestart, StepWrite, StepBegin, StepLoseSecret DEF Next, InstallerStep

\* Nothing moves while no variable changes.
LEMMA Stutter ==
    ASSUME UNCHANGED vars
    PROVE  (Flags => Flags') /\ (Ranges => Ranges') /\ (run \in Runs => run' \in Runs)
           /\ (Sound => Sound') /\ (Backed => Backed')
<1>1. run' = run
  BY DEF vars
<1>2. Sound => Sound'
  BY DEF vars, data, marks, services, programs, Sound, Counters, Grounded, Alive, Noted, Quieted,
     Stopped, Marked, Honest, Present, Running, Off, Upgrading, Active, Keyed
<1>3. Backed => Backed'
  BY DEF vars, data, services, programs, Backed, Ready, Running, Able
<1> QED
  BY <1>1, <1>2, <1>3 DEF vars, data, marks, services, programs, Flags, Ranges

\* Both initial states satisfy the invariant.
LEMMA SoundInit == Init => Sound
<1> SUFFICES ASSUME Init PROVE Sound
  OBVIOUS
<1>1. run.pc = "idle" /\ run.to = 0 /\ halted = {}
  BY DEF Init, Idle
<1> QED
  BY <1>1, ServiceNames, SecretNames DEF Init, Sound, Counters, Grounded, Present, Keyed,
     ConfigurePc, Alive, Noted, Running, Quieted, Upgrading, Stopped, Off, Marked, Migrated,
     Honest, NoCluster, Active, Key

LEMMA BackedInit == Init => Backed
<1> SUFFICES ASSUME Init PROVE Backed
  OBVIOUS
<1>1. run.pc \notin Noting
  BY DEF Init, Idle, Noting
<1>2. CASE svc = [s \in Service |-> "missing"]
  BY <1>1, <1>2 DEF Backed, Ready, Running
<1>3. CASE /\ svc = [s \in Service |-> IF s \in exes THEN "running" ELSE "missing"]
           /\ exes = {Services[i] : i \in 1 .. Active} /\ cluster.state = "whole"
  <2>1. \A s \in exes : Group(s) \subseteq exes
    BY <1>3, ServiceNames, GroupNames DEF Active
  <2>2. Running \subseteq exes /\ exes \subseteq Service
    BY <1>3, ServiceNames DEF Running
  <2> QED
    BY <1>1, <1>3, <2>1, <2>2 DEF Backed, Ready, Able
<1> QED
  BY <1>2, <1>3 DEF Init

LEMMA TypeInit == Init => TypeOK
<1> SUFFICES ASSUME Init PROVE Flags /\ Ranges /\ run \in Runs
  BY TypeParts
<1>1. run \in Runs
  BY IdleRuns DEF Init
<1>2. Flags
  BY DEF Init, Flags
<1>3. Ranges
  <2>1. cluster \in Stored
    <3>1. CASE cluster = [state |-> "none", admin |-> "none", role |-> "none", base |-> FALSE]
      BY <3>1 DEF Stored
    <3>2. CASE cluster = [state |-> "whole", admin |-> "first", role |-> "first", base |-> TRUE]
      BY <3>2 DEF Key, Stored
    <3> QED
      BY <3>1, <3>2 DEF Init, NoCluster, Stored
  <2>2. exes \subseteq Service /\ svc \in [Service -> State] /\ auto \in [Service -> BOOLEAN]
    <3>1. Service # {} /\ \A i \in 1 .. Active : Services[i] \in Service
      BY ServiceNames
    <3>2. exes \subseteq Service
      BY <3>1 DEF Init
    <3>3. svc \in [Service -> State]
      BY DEF Init
    <3>4. auto \in [Service -> BOOLEAN]
      <4>1. auto = [s \in Service |-> FALSE] \/ auto = [s \in Service |-> s \in exes]
        BY DEF Init
      <4>2. \A s \in Service : (s \in exes) \in BOOLEAN
        OBVIOUS
      <4> QED
        BY <4>1, <4>2, Zenon
    <3> QED
      BY <3>2, <3>3, <3>4
  <2> QED
    BY <2>1, <2>2, WindowsSetupAssumption DEF Init, Ranges, Key
<1> QED
  BY <1>1, <1>2, <1>3

LEMMA SetupInit == Init => TypeOK /\ Sound /\ Backed
BY TypeInit, SoundInit, BackedInit

LEMMA SetupKept == TypeOK /\ Sound /\ Backed /\ [Next]_vars => (TypeOK /\ Sound /\ Backed)'
<1> SUFFICES ASSUME TypeOK, Sound, Backed, [Next]_vars PROVE TypeOK' /\ Sound' /\ Backed'
  OBVIOUS
<1> Flags /\ Ranges /\ run \in Runs /\ Typed
  BY TypeParts, RangesTyped
<1>1. TypeOK' <=> Flags' /\ Ranges' /\ run' \in Runs
  BY DEF TypeOK, Flags, Ranges, Runs, Stored, Content, State
<1>2. CASE Next
  BY <1>1, <1>2, FlagsKept, RangesKept, RunKept, SoundKept, BackedKept
<1>3. CASE UNCHANGED vars
  BY <1>1, <1>3, Stutter
<1> QED
  BY <1>2, <1>3

\* What a failed configuration could stop stays stopped, also when Windows restarts, but for
\* what something it could not stop needs (engine.go:144-156), and upgrade-state.json says
\* complete only of one program, one schema and whole data (engine.go:226-229, :251-259),
\* wherever the installer was interrupted.
THEOREM MarksTrueAlways == PatientSpec => []MarksTrue
<1>1. TypeOK /\ Sound => MarksTrue
  <2> SUFFICES ASSUME TypeOK, Sound PROVE AppStaysStopped
    BY DEF Sound, MarksTrue
  <2> QED
    BY ServiceNames DEF Sound, Stopped, Off, AppStaysStopped
<1> QED
  BY SetupInit, SetupKept, <1>1, PTL DEF PatientSpec, Spec

\* Only the migration changes the schema.
LEMMA SchemaKept ==
    ASSUME Next, schema' # schema
    PROVE  Migrate
<1>1. ~\E v \in Version : Begin(v)
  BY BeginsAt DEF data
<1>2. ~Uninstall /\ ~Reconfigure
  BY CallsAt DEF data
<1>3. ~\E s \in Service : Stops(s)
  BY DEF Stops, data
<1>4. ~\E s \in SecretFile : LoseSecret(s)
  BY DEF LoseSecret
<1>5. /\ ~Delete /\ ~Copy /\ ~Refuse /\ ~ColdBackup /\ ~HotBackup /\ ~Quieten /\ ~StartDatabase
      /\ ~BackUp /\ ~StopDatabase /\ ~Mark /\ ~Restore /\ ~Restored /\ ~Remove /\ ~NoHelper /\ ~Removed
  BY DEF data, Delete, Copy, Refuse, ColdBackup, HotBackup, Quieten, StartDatabase, BackUp,
     StopDatabase, Mark, Restore, Restored, Remove, NoHelper, Removed
<1>6. /\ ~CheckRuntime /\ ~Break /\ ~Options /\ ~Secret /\ ~HaveSecrets /\ ~StopAll /\ ~Register
      /\ ~InitDb /\ ~Install /\ ~StartServer /\ ~StartParser /\ ~StartApi /\ ~StartProxy /\ ~StartWorker
      /\ ~Role /\ ~Base /\ ~Certificates /\ ~Issued /\ ~Done /\ ~StopFailed /\ ~Failed
  BY DEF data, StartService, CheckRuntime, Break, Options, Secret, HaveSecrets, StopAll, Register,
     InitDb, Install, StartServer, StartParser, StartApi, StartProxy, StartWorker, Role, Base,
     Certificates, Issued, Done, StopFailed, Failed
<1> QED
  BY <1>1, <1>2, <1>3, <1>4, <1>5, <1>6 DEF Next, InstallerStep, Restart, Write

\* Before the migration the newest backup holds all that was written.
LEMMA BacksUp ==
    ASSUME TypeOK, Sound, Next, schema' # schema, enc # "none"
    PROVE  saved
<1>1. Supported /\ Revised
  BY SchemaKept DEF Migrate
<1>2. schema \in Nat /\ files \in Nat
  BY TypeParts, RangesTyped DEF Typed
<1> QED
  BY <1>1, <1>2 DEF Supported, Revised, Sound, Quieted

\* Of the steps that lead to rest only the last one of a restoration starts in it, and a
\* restart, which is a fault.
LEMMA OnlyRestored ==
    ASSUME TypeOK, Next, run.pc = "restore", run'.pc = "idle", faults' = faults
    PROVE  Restored
<1>1. run \in Runs /\ faults \in Nat
  BY TypeParts, WindowsSetupAssumption DEF Ranges
<1>2. ~Restart /\ ~Write /\ ~Delete /\ ~Copy /\ ~NoHelper /\ ~\E s \in Service : Stops(s)
  BY <1>1 DEF Restart, Fault, Write, Delete, Copy, NoHelper, Stops
<1>3. ~Restore
  BY <1>1 DEF Restore, NextI, Runs
<1> QED
  BY <1>2, <1>3 DEF Next, InstallerStep, StartService, Refuse, ColdBackup,
     HotBackup,
     Quieten, StartDatabase, BackUp, StopDatabase, Mark, Remove, Removed, CheckRuntime, Break, Options,
     Secret, HaveSecrets, StopAll, Register, InitDb, Install, StartServer, StartParser, StartApi,
     StartProxy, StartWorker, Role, Base, Migrate, Certificates, Issued, Done, StopFailed, Failed,
     Uninstall, Reconfigure, Begin, LoseSecret, ConfigurePc

\* At the end of the restoration all was started that had been noted.
LEMMA Resumes ==
    ASSUME TypeOK, Sound, Next, run.pc = "restore", run'.pc = "idle", faults' = faults
    PROVE  \A s \in run.was : svc[s] = "running" \/ s \in run.lost \cup run.late
<1>1. run.i = 6
  BY OnlyRestored DEF Restored
<1>2. run.was \subseteq Service
  BY TypeParts, RunTyped
<1> QED
  BY <1>1, <1>2, ServiceNames DEF Sound, Noted

\* Data of the owner is migrated only after a complete backup of all of it
\* (engine.go:280-306, :319-352), and a backup that fails leaves the services running that
\* had been running, but for those whose start fails too and those that are still stopping
\* (engine.go:307-318).
THEOREM UpgradeSafeAlways == PatientSpec => UpgradeSafe
<1>1. TypeOK /\ Sound /\ [Next]_vars => [schema' # schema /\ enc # "none" => saved]_vars
  BY BacksUp DEF vars, data
<1>2. TypeOK /\ Sound /\ Backed /\ [Next]_vars
        => [run.pc = "restore" /\ run'.pc = "idle" /\ faults' = faults
              => \A s \in run.was : svc[s] = "running" \/ s \in run.lost \cup run.late]_vars
  BY Resumes
<1> QED
  BY SetupInit, SetupKept, <1>1, <1>2, PTL DEF PatientSpec, Spec, UpgradeSafe, BackedUp, Resumed
====================================================================================
