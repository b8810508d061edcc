-------------------------------- MODULE WindowsSetup --------------------------------
(***************************************************************************)
(* Installation, upgrade and removal on Windows (installer.iss and         *)
(* internal/setup).  The installer of a version backs up the data with its *)
(* own helper (Prepare), runs the uninstaller of the previous version      *)
(* (Remove), copies its files and configures the services (Configure).     *)
(* Any command may fail and Windows may restart between two steps.         *)
(***************************************************************************)
EXTENDS Integers, Sequences

CONSTANTS
    MaxVersion,     \* bound: versions, each with a schema revision of its own
    MaxFault        \* bound: failed commands, restarts and lost files

ASSUME WindowsSetupAssumption == MaxVersion \in Nat \ {0} /\ MaxFault \in Nat

VARIABLES
    conn,       \* connection.json exists
    public,     \* ... and names a public host, so that there is a proxy
    secret,     \* the files of secrets
    cluster,    \* the PostgreSQL cluster: state, administrator, role and database
    schema,     \* revision of the database, 0 before the first migration
    certs,      \* the client certificates: none, partial, whole
    enc,        \* the master key the saved data is encrypted with
    saved,      \* the newest complete backup holds all that was written
    installed,  \* version in installed.json
    phase,      \* phase in upgrade-state.json
    files,      \* version of the program files, 0 without
    exes,       \* services whose wrapper is in the program directory
    parts,      \* what the program directory and the registry hold of a program
    svc, auto,  \* state of each service, and whether Windows starts it
    run,        \* the installer
    halted,     \* what a failed Configure has stopped and Windows shall not start
    refused,    \* the last Prepare has failed
    faults      \* faults so far

data == <<conn, public, secret, cluster, schema, certs, enc, saved>>
marks == <<installed, phase>>
services == <<svc, auto>>
programs == <<files, exes, parts>>
vars == <<data, marks, services, programs, run, halted, refused, faults>>

Services == <<"Database", "Parser", "Api", "Worker", "Proxy">>
Service == {Services[i] : i \in 1 .. 5}
Application == Service \ {"Database"}
Active == IF public THEN 5 ELSE 4
Version == 1 .. MaxVersion
Secrets == <<"master-key", "database-password", "postgres-admin-password">>
SecretFile == {Secrets[i] : i \in 1 .. 3}

\* The contents of a file of secrets: the first one, and the one made after a loss.
Key == {"first", "second"}
Present(s) == secret[s] \in Key
\* For the installer a service that is still stopping is a running one (serviceState).
Running == {s \in Service : svc[s] \in {"running", "stopping"}}

\* What Windows starts with a service, and before it (ServiceXML).
Needs(s) ==
    CASE s \in {"Api", "Worker"} -> {"Database", "Parser"}
      [] s = "Proxy" -> {"Database", "Parser", "Api"}
      [] OTHER -> {}
Group(s) == {s} \cup Needs(s)

\* Of a program the installer looks for pg_dump.exe, for secretary-setup.exe, for the key
\* of the uninstaller in the registry, and for the uninstaller with its log.
Parts == {"dump", "helper", "key", "log"}
Entry == {"key", "log"} \subseteq parts
Torn == ("key" \in parts) # ("log" \in parts)

PreparePc == {"prepare", "quiet", "dump", "stopdb", "mark"}
ConfigurePc == {"options", "secrets", "stopall", "register", "initdb", "install", "start",
    "role", "base", "migrate", "parser", "api", "certs", "issue", "proxy", "worker", "done"}
Pc == PreparePc \cup ConfigurePc
      \cup {"idle", "restore", "remove", "delete", "copy", "check", "fail"}
Idle == [pc |-> "idle", to |-> 0, i |-> 0, was |-> {}, lost |-> {}, late |-> {}]

NoCluster == [state |-> "none", admin |-> "none", role |-> "none", base |-> FALSE]

\* A computer without an installation, and one with a complete one that has been used.
Init ==
    /\ run = Idle /\ halted = {} /\ refused = FALSE /\ faults = 0
    /\ \/ /\ conn = FALSE /\ public = FALSE /\ secret = [s \in SecretFile |-> "absent"]
          /\ cluster = NoCluster /\ schema = 0 /\ certs = "none" /\ enc = "none" /\ saved = TRUE
          /\ installed = 0 /\ phase = "none" /\ files = 0 /\ exes = {}
          /\ parts = {}
          /\ svc = [s \in Service |-> "missing"] /\ auto = [s \in Service |-> FALSE]
       \/ /\ conn = TRUE /\ public \in BOOLEAN /\ secret = [s \in SecretFile |-> "first"]
          /\ cluster = [state |-> "whole", admin |-> "first", role |-> "first", base |-> TRUE]
          /\ schema = 1 /\ enc = "first" /\ saved = FALSE
          /\ certs = IF public THEN "whole" ELSE "none"
          /\ installed = 1 /\ phase = "complete" /\ files = 1
          /\ exes = {Services[i] : i \in 1 .. Active} /\ parts = Parts
          /\ svc = [s \in Service |-> IF s \in exes THEN "running" ELSE "missing"]
          /\ auto = [s \in Service |-> s \in exes]

Fine == UNCHANGED faults
Fault == faults < MaxFault /\ faults' = faults + 1
Go(pc) == run' = [run EXCEPT !.pc = pc, !.i = 0]
From(pc, i) == run' = [run EXCEPT !.pc = pc, !.i = i]
NextI(d) == run' = [run EXCEPT !.i = @ + d]
This == Services[run.i]
Note == UNCHANGED <<halted, refused>>

\* A service is registered and its wrapper is there, its database is whole.
Able(s) == svc[s] # "missing" /\ s \in exes /\ (s = "Database" => cluster.state = "whole")
\* It starts with all it needs, of which nothing may be stopping.
CanStart(s) == (\A d \in Group(s) : Able(d)) /\ \A d \in Needs(s) : svc[d] # "stopping"
Started(s) == svc' = [d \in Service |-> IF d \in Group(s) THEN "running" ELSE svc[d]]
Ended(s) == svc' = [svc EXCEPT ![s] = IF @ = "missing" THEN @ ELSE "stopped"]
\* A stop that fails has not reached the service, or it goes on after the 90 seconds.
Unstopped(s) ==
    \/ UNCHANGED svc
    \/ s \in Running /\ svc' = [svc EXCEPT ![s] = "stopping"]

(***************************************************************************)
(* The user and the installer (installer.iss).                             *)
(***************************************************************************)
\* A key without its uninstaller, or a log without its key, stops the installer at once.
Begin(v) ==
    /\ run.pc = "idle" /\ ~Torn /\ halted' = {} /\ refused' = FALSE
    /\ run' = IF conn THEN [Idle EXCEPT !.pc = "prepare", !.to = v]
              ELSE IF Entry THEN [Idle EXCEPT !.pc = "remove", !.to = v, !.i = 5]
              ELSE [Idle EXCEPT !.pc = "copy", !.to = v]
    /\ UNCHANGED <<data, marks, services, programs, faults>>

\* Windows' own list of programs.
Uninstall ==
    /\ run.pc = "idle" /\ Entry /\ halted' = {} /\ refused' = FALSE
    /\ run' = [Idle EXCEPT !.pc = "remove", !.i = 5]
    /\ UNCHANGED <<data, marks, services, programs, faults>>

\* secretary-setup.exe configure, called by hand.
Reconfigure ==
    /\ run.pc = "idle" /\ files # 0 /\ halted' = {} /\ refused' = FALSE
    /\ run' = [Idle EXCEPT !.pc = "check", !.to = files]
    /\ UNCHANGED <<data, marks, services, programs, faults>>

\* The uninstaller deletes the program, then the new files are copied; the key and the
\* uninstaller are written after them.  Either may end in the middle.
DeletedInPart == files' = 0 /\ exes' = {} /\ parts' \in SUBSET parts
CopiedInPart ==
    /\ \E some \in SUBSET {"dump", "helper"} : parts' = parts \cup some
    /\ UNCHANGED <<files, exes>>
Delete ==
    /\ run.pc = "delete"
    /\ \/ /\ Fine /\ files' = 0 /\ exes' = {} /\ parts' = {}
          /\ IF run.to = 0 THEN run' = Idle ELSE Go("copy")
       \/ Fault /\ DeletedInPart /\ run' = Idle
    /\ Note /\ UNCHANGED <<data, marks, services>>
\* Files that cannot be copied are taken back.
Copy ==
    /\ run.pc = "copy"
    /\ \/ Fine /\ files' = run.to /\ parts' = Parts /\ Go("check") /\ UNCHANGED exes
       \/ Fault /\ run' = Idle /\ UNCHANGED programs
    /\ Note /\ UNCHANGED <<data, marks, services>>

(***************************************************************************)
(* Prepare.                                                                *)
(***************************************************************************)
\* downgrade: of two versions, neither of which may be missing.
Downgrade == installed # 0 /\ run.to < installed
\* An older version is refused, and a program that was deleted without its services.
Acceptable ==
    /\ ~Downgrade
    /\ "dump" \notin parts => \A s \in Service : svc[s] = "missing"
Refuse ==
    /\ run.pc = "prepare" /\ ~Acceptable /\ run' = Idle
    /\ Note /\ Fine /\ UNCHANGED <<data, marks, services, programs>>

\* The data, the keys and the program are copied file by file into a directory that
\* becomes the newest backup when all of them are there.
CopyAll == saved' = TRUE
\* The uninstaller of the previous program is run if there is one.
Replace == IF Entry THEN From("remove", 5) ELSE Go("copy")
\* Without the old program the files are copied.
ColdBackup ==
    /\ run.pc = "prepare" /\ Acceptable /\ "dump" \notin parts
    /\ \/ Fine /\ CopyAll /\ phase' = "prepared" /\ Replace /\ UNCHANGED refused
       \/ Fault /\ refused' = TRUE /\ run' = Idle /\ UNCHANGED <<saved, phase>>
    /\ UNCHANGED <<conn, public, secret, cluster, schema, certs, enc, installed, services,
                   programs, halted>>

\* The services that run are noted before anything is stopped.
HotBackup ==
    /\ run.pc = "prepare" /\ Acceptable /\ "dump" \in parts
    /\ run' = [run EXCEPT !.pc = "quiet", !.i = 5, !.was = Running]
    /\ Note /\ Fine /\ UNCHANGED <<data, marks, services, programs>>

\* Mutant: the worker is not stopped before the dump.
QuietenLess ==
    /\ run.pc = "quiet" /\ run.i > 1
    /\ \/ Fine /\ NextI(-1) /\ IF This = "Worker" THEN UNCHANGED svc ELSE Ended(This)
       \/ Fault /\ This \in Running /\ From("restore", 1) /\ Unstopped(This)
    /\ Note /\ UNCHANGED <<data, marks, auto, programs>>
\* Everything but the database is stopped, from the last to the first.
Quieten ==
    /\ run.pc = "quiet" /\ run.i > 1
    /\ \/ Fine /\ Ended(This) /\ NextI(-1)
       \/ Fault /\ This \in Running /\ From("restore", 1) /\ Unstopped(This)
    /\ Note /\ UNCHANGED <<data, marks, auto, programs>>
StartDatabase ==
    /\ run.pc = "quiet" /\ run.i = 1
    /\ IF "Database" \in Running THEN Go("dump") /\ UNCHANGED svc
       ELSE IF CanStart("Database") THEN Started("Database") /\ Go("dump")
       ELSE From("restore", 1) /\ UNCHANGED svc
    /\ Note /\ Fine /\ UNCHANGED <<data, marks, auto, programs>>

\* The server answers and pg_dump logs in as the administrator; then data, keys and
\* program are copied.
CanDump ==
    /\ svc["Database"] = "running"
    /\ cluster.base /\ secret["postgres-admin-password"] = cluster.admin
BackUp ==
    /\ run.pc = "dump"
    /\ \/ Fine /\ CanDump /\ CopyAll /\ Go("stopdb")
       \/ Fine /\ ~CanDump /\ From("restore", 1) /\ UNCHANGED saved
       \/ Fault /\ From("restore", 1) /\ UNCHANGED saved
    /\ Note
    /\ UNCHANGED <<conn, public, secret, cluster, schema, certs, enc, marks, services, programs>>
StopDatabase ==
    /\ run.pc = "stopdb"
    /\ \/ Fine /\ Ended("Database") /\ Go("mark")
       \/ Fault /\ From("restore", 1) /\ Unstopped("Database")
    /\ Note /\ UNCHANGED <<data, marks, auto, programs>>
\* Mutant: the phase of the last installation stays.
MarkNothing ==
    /\ run.pc = "mark"
    /\ \/ Fine /\ Replace
       \/ Fault /\ From("restore", 1)
    /\ Note /\ UNCHANGED <<data, marks, services, programs>>
Mark ==
    /\ run.pc = "mark"
    /\ \/ Fine /\ phase' = "prepared" /\ Replace
       \/ Fault /\ From("restore", 1) /\ UNCHANGED phase
    /\ Note /\ UNCHANGED <<data, installed, services, programs>>

Missed(s) == s \in run.was \ Running
\* What is still stopping is taken for running, and nothing that needs it starts.
PassedOver(s) ==
    /\ s \in run.was /\ svc[s] # "running"
    /\ \E d \in Group(s) : svc[d] = "stopping"
\* A Prepare that fails starts again what had been running, each once.
Restore ==
    /\ run.pc = "restore" /\ run.i <= 5
    /\ \/ Fine /\ Missed(This) /\ CanStart(This) /\ Started(This) /\ NextI(1)
       \/ /\ Fine /\ ~(Missed(This) /\ CanStart(This)) /\ UNCHANGED svc
          /\ run' = [run EXCEPT !.i = @ + 1,
                                !.late = IF PassedOver(This) THEN @ \cup {This} ELSE @]
       \/ /\ Fault /\ Missed(This) /\ UNCHANGED svc
          /\ run' = [run EXCEPT !.i = @ + 1, !.lost = @ \cup {This}]
    /\ Note /\ UNCHANGED <<data, marks, auto, programs>>
Restored ==
    /\ run.pc = "restore" /\ run.i = 6 /\ run' = Idle /\ refused' = TRUE
    /\ Fine /\ UNCHANGED <<data, marks, services, programs, halted>>

(***************************************************************************)
(* Remove, which the uninstaller calls.                                    *)
(***************************************************************************)
\* Mutant: the service is unregistered whether it is registered or not.
GoneNever(s) == FALSE /\ s \in Service
\* A service that is not registered needs nothing.
Gone(s) == svc[s] = "missing"
Remove ==
    /\ run.pc = "remove" /\ run.i > 0 /\ "helper" \in parts
    /\ \/ Fine /\ Gone(This) /\ NextI(-1) /\ UNCHANGED services
       \/ /\ Fine /\ ~Gone(This)
          /\ IF svc[This] = "missing" THEN run' = Idle /\ UNCHANGED services
             ELSE /\ svc' = [svc EXCEPT ![This] = "missing"]
                  /\ auto' = [auto EXCEPT ![This] = FALSE] /\ NextI(-1)
       \/ /\ Fault /\ ~Gone(This) /\ run' = Idle /\ UNCHANGED auto
          /\ Ended(This) \/ Unstopped(This)
    /\ Note /\ UNCHANGED <<data, marks, programs>>
\* An uninstaller that was cut off before cannot call the helper it has deleted.
NoHelper ==
    /\ run.pc = "remove" /\ "helper" \notin parts /\ run' = Idle
    /\ Note /\ Fine /\ UNCHANGED <<data, marks, services, programs>>
Removed ==
    /\ run.pc = "remove" /\ run.i = 0 /\ Go("delete")
    /\ Note /\ Fine /\ UNCHANGED <<data, marks, services, programs>>

(***************************************************************************)
(* Configure.                                                              *)
(***************************************************************************)
\* CheckRuntime runs every program once, and touches nothing.
CheckRuntime ==
    /\ run.pc = "check"
    /\ \/ Fine /\ Go("options")
       \/ Fault /\ run' = Idle
    /\ Note /\ UNCHANGED <<data, marks, services, programs>>

\* initdb makes the cluster with the password of the administrator; cut off, it may have
\* made nothing, a part or all of it.
Created == [state |-> "whole", admin |-> secret["postgres-admin-password"], role |-> "none",
            base |-> FALSE]
InitDbCut ==
    IF run.pc = "initdb" /\ cluster.state = "none"
    THEN cluster' \in {cluster, [NoCluster EXCEPT !.state = "partial"], Created}
    ELSE cluster' = cluster

\* Any command, check or file of Configure may fail.
Break ==
    /\ run.pc \in ConfigurePc /\ Fault /\ From("fail", 5) /\ InitDbCut
    /\ IF run.pc = "stopall" THEN Unstopped(This) ELSE UNCHANGED svc
    /\ Note
    /\ UNCHANGED <<conn, public, secret, schema, certs, enc, saved, marks, auto, programs>>

\* The options are written once.
Options ==
    /\ run.pc = "options" /\ conn' = TRUE /\ From("secrets", 1)
    /\ IF conn THEN UNCHANGED public ELSE public' \in BOOLEAN
    /\ Note /\ Fine
    /\ UNCHANGED <<secret, cluster, schema, certs, enc, saved, marks, services, programs>>

\* Mutant: it is always made.
MayCreateAlways == TRUE
\* A secret that is missing is made only while there is no cluster (PG_VERSION).
MayCreate == cluster.state = "none"
Secret ==
    /\ run.pc = "secrets" /\ run.i <= 3
    /\ LET s == Secrets[run.i] IN
       IF Present(s) THEN NextI(1) /\ UNCHANGED secret
       ELSE IF MayCreate
       THEN secret' = [secret EXCEPT ![s] = IF @ = "lost" THEN "second" ELSE "first"] /\ NextI(1)
       ELSE From("fail", 5) /\ UNCHANGED secret
    /\ Note /\ Fine
    /\ UNCHANGED <<conn, public, cluster, schema, certs, enc, saved, marks, services, programs>>
HaveSecrets ==
    /\ run.pc = "secrets" /\ run.i = 4 /\ From("stopall", 5)
    /\ Note /\ Fine /\ UNCHANGED <<data, marks, services, programs>>

StopAll ==
    /\ run.pc = "stopall" /\ Ended(This)
    /\ IF run.i = 1 THEN From("register", 1) ELSE NextI(-1)
    /\ Note /\ Fine /\ UNCHANGED <<data, marks, auto, programs>>
\* Old registrations are removed and the wrappers copied.
Register ==
    /\ run.pc = "register" /\ svc' = [svc EXCEPT ![This] = "missing"]
    /\ auto' = [auto EXCEPT ![This] = FALSE] /\ exes' = exes \cup {This}
    /\ IF run.i = Active THEN Go("initdb") ELSE NextI(1)
    /\ Note /\ Fine /\ UNCHANGED <<data, marks, files, parts>>

InitDb ==
    /\ run.pc = "initdb" /\ From("install", 1)
    /\ cluster' = IF cluster.state # "none" THEN cluster ELSE Created
    /\ Note /\ Fine
    /\ UNCHANGED <<conn, public, secret, schema, certs, enc, saved, marks, services, programs>>
Install ==
    /\ run.pc = "install"
    /\ svc' = [svc EXCEPT ![This] = "stopped"] /\ auto' = [auto EXCEPT ![This] = TRUE]
    /\ IF run.i = Active THEN Go("start") ELSE NextI(1)
    /\ Note /\ Fine /\ UNCHANGED <<data, marks, programs>>

\* A registered service is started, and waited for.
StartService(pc, s, next) ==
    /\ run.pc = pc
    /\ IF CanStart(s) THEN Started(s) /\ Go(next) ELSE From("fail", 5) /\ UNCHANGED svc
    /\ Note /\ Fine /\ UNCHANGED <<data, marks, auto, programs>>
StartServer == StartService("start", "Database", "role")
StartParser == StartService("parser", "Parser", "api")
StartApi == StartService("api", "Api", IF public THEN "certs" ELSE "worker")
StartProxy == StartService("proxy", "Proxy", "worker")
StartWorker == StartService("worker", "Worker", "done")

Role ==
    /\ run.pc = "role" /\ Go("base")
    /\ cluster' = [cluster EXCEPT !.role = IF @ = "none" THEN secret["database-password"] ELSE @]
    /\ Note /\ Fine
    /\ UNCHANGED <<conn, public, secret, schema, certs, enc, saved, marks, services, programs>>
Base ==
    /\ run.pc = "base" /\ cluster' = [cluster EXCEPT !.base = TRUE]
    /\ phase' = "migrating" /\ Go("migrate")
    /\ Note /\ Fine
    /\ UNCHANGED <<conn, public, secret, schema, certs, enc, saved, installed, services, programs>>

\* store.Migrate applies the missing revisions in one transaction; a database of a
\* later revision is refused.
Supported == schema <= files
Revised == schema' = files
Migrate ==
    /\ run.pc = "migrate"
    /\ IF Supported THEN Revised /\ Go("parser") ELSE From("fail", 5) /\ UNCHANGED schema
    /\ Note /\ Fine
    /\ UNCHANGED <<conn, public, secret, cluster, certs, enc, saved, marks, services, programs>>

\* validateCertificates: all four files are there and belong together.
ValidSet == certs = "whole"
\* CreateCertificates: a valid set is kept, any other files are refused.
Certificates ==
    /\ run.pc = "certs"
    /\ CASE ValidSet -> Go("proxy") /\ UNCHANGED certs
         [] certs = "partial" -> From("fail", 5) /\ UNCHANGED certs
         [] OTHER -> certs' = "partial" /\ Go("issue")
    /\ Note /\ Fine
    /\ UNCHANGED <<conn, public, secret, cluster, schema, enc, saved, marks, services, programs>>
Issued ==
    /\ run.pc = "issue" /\ certs' = "whole" /\ Go("proxy")
    /\ Note /\ Fine
    /\ UNCHANGED <<conn, public, secret, cluster, schema, enc, saved, marks, services, programs>>
Done ==
    /\ run.pc = "done" /\ run' = Idle /\ installed' = files /\ phase' = "complete"
    /\ Note /\ Fine /\ UNCHANGED <<data, services, programs>>

\* A service that cannot be stopped, or whose start cannot be left to the user, stays one
\* that Windows starts.
StopFailed ==
    /\ run.pc = "fail" /\ run.i > 1
    /\ \/ /\ Fine /\ Ended(This) /\ auto' = [auto EXCEPT ![This] = FALSE] /\ NextI(-1)
       \/ /\ Fault /\ ~Gone(This) /\ (Ended(This) \/ Unstopped(This)) /\ UNCHANGED auto
          /\ run' = [run EXCEPT !.i = @ - 1, !.lost = @ \cup {This}]
    /\ Note /\ UNCHANGED <<data, marks, programs>>
Failed ==
    /\ run.pc = "fail" /\ run.i = 1 /\ run' = Idle
    /\ halted' = {s \in Application : \A d \in run.lost : s \notin Group(d)}
    /\ Fine /\ UNCHANGED <<data, marks, services, programs, refused>>

(***************************************************************************)
(* Windows, the application and the owner.                                 *)
(***************************************************************************)
\* A stop that took too long ends after all.
Stops(s) ==
    /\ svc[s] = "stopping" /\ svc' = [svc EXCEPT ![s] = "stopped"]
    /\ UNCHANGED <<data, marks, auto, programs, run, halted, refused, faults>>

\* A restart may cut off initdb, the uninstaller and the copying.  Windows starts what is
\* registered for it, with what that needs; the proxy ends without its certificates.
Woken == UNION {Group(d) : d \in {s \in Service : auto[s] /\ \A n \in Group(s) : Able(n)}}
Restart ==
    /\ Fault /\ run' = Idle /\ InitDbCut
    /\ svc' = [s \in Service |-> IF svc[s] = "missing" THEN "missing"
                                 ELSE IF s \in Woken /\ (s = "Proxy" => certs = "whole")
                                 THEN "running" ELSE "stopped"]
    /\ \/ UNCHANGED programs
       \/ run.pc = "delete" /\ DeletedInPart
       \/ run.pc = "copy" /\ CopiedInPart
    /\ Note /\ UNCHANGED <<conn, public, secret, schema, certs, enc, saved, marks, auto>>

\* The server and the worker wait for a schema of their revision or of a later one.
Serving == {"Api", "Worker"} \cap Running # {} /\ "Database" \in Running /\ schema >= files
Write ==
    /\ Serving /\ Present("master-key") /\ saved' = FALSE
    /\ enc' = IF enc = "none" THEN secret["master-key"] ELSE enc
    /\ UNCHANGED <<conn, public, secret, cluster, schema, certs, marks, services, programs,
                   run, halted, refused, faults>>

\* Somebody removes a file of secrets.
LoseSecret(s) ==
    /\ run.pc = "idle" /\ Fault /\ secret[s] = "first" /\ secret' = [secret EXCEPT ![s] = "lost"]
    /\ UNCHANGED <<conn, public, cluster, schema, certs, enc, saved, marks, services, programs,
                   run, halted, refused>>

InstallerStep ==
    \/ Delete \/ Copy \/ Refuse \/ ColdBackup \/ HotBackup \/ Quieten \/ StartDatabase
    \/ BackUp \/ StopDatabase \/ Mark \/ Restore \/ Restored \/ Remove \/ NoHelper
    \/ Removed \/ CheckRuntime \/ Break \/ Options \/ Secret \/ HaveSecrets \/ StopAll \/ Register
    \/ InitDb \/ Install \/ StartServer \/ StartParser \/ StartApi \/ StartProxy
    \/ StartWorker \/ Role \/ Base \/ Migrate \/ Certificates \/ Issued \/ Done
    \/ StopFailed \/ Failed
Next ==
    \/ InstallerStep \/ Uninstall \/ Reconfigure \/ Restart \/ Write
    \/ \E v \in Version : Begin(v)
    \/ \E s \in SecretFile : LoseSecret(s)
    \/ \E s \in Service : Stops(s)

\* The newest version is installed, and nothing is left to do.
Complete == phase = "complete" /\ installed = MaxVersion /\ files = MaxVersion

\* The user runs the newest installer again until the installation is complete.
Spec ==
    /\ Init /\ [][Next]_vars /\ WF_vars(InstallerStep)
    /\ SF_vars(Begin(MaxVersion) /\ ~Complete)
\* ... and removes the program first when the backup of its data fails.
PatientSpec == Spec /\ SF_vars(Uninstall /\ refused)
\* Every failure is one that the installer reports, and what is stopping stops.
ReportedSpec ==
    /\ Init /\ [][Next /\ ~Restart]_vars /\ WF_vars(InstallerStep)
    /\ \A s \in Service : WF_vars(Stops(s))
    /\ SF_vars(Begin(MaxVersion) /\ ~Complete)

(***************************************************************************)
(* Properties.                                                             *)
(***************************************************************************)
\* Every variable stays in its range.
TypeOK ==
    /\ conn \in BOOLEAN /\ public \in BOOLEAN /\ enc \in Key \cup {"none"} /\ saved \in BOOLEAN
    /\ secret \in [SecretFile -> Key \cup {"absent", "lost"}]
    /\ cluster \in [state : {"none", "partial", "whole"}, admin : Key \cup {"none"},
                    role : Key \cup {"none"}, base : BOOLEAN]
    /\ schema \in 0 .. MaxVersion /\ certs \in {"none", "partial", "whole"}
    /\ installed \in 0 .. MaxVersion /\ files \in 0 .. MaxVersion /\ exes \subseteq Service
    /\ parts \subseteq Parts /\ halted \subseteq Application
    /\ phase \in {"none", "prepared", "migrating", "complete"}
    /\ svc \in [Service -> {"missing", "stopped", "stopping", "running"}]
    /\ auto \in [Service -> BOOLEAN]
    /\ run \in [pc : Pc, to : 0 .. MaxVersion, i : 0 .. 6, was : SUBSET Service,
                lost : SUBSET Service, late : SUBSET Service]
    /\ refused \in BOOLEAN /\ faults \in 0 .. MaxFault

\* Data of the owner is migrated only after a complete backup of all of it
\* (engine.go:280-306, :319-352; windows/README.md:172-176).
BackedUp == [][schema' # schema /\ enc # "none" => saved]_vars

\* The keys in the files are those the cluster and its data were made with, or they
\* are missing: a key is never replaced under existing data (engine.go:173-185).
KeysMatch ==
    /\ enc # "none" => secret["master-key"] \in {enc, "lost"}
    /\ cluster.admin # "none" => secret["postgres-admin-password"] \in {cluster.admin, "lost"}
    /\ cluster.role # "none" => secret["database-password"] \in {cluster.role, "lost"}

\* What a failed configuration could stop stays stopped until the next attempt, also when
\* Windows restarts, but for what something that it could not stop needs (engine.go:144-156;
\* windows/README.md:190).
AppStaysStopped == halted \cap Running = {}

\* A backup that fails leaves the services running that had been running, except one whose
\* start fails as well, and one that is passed over because a stop is not over yet
\* (engine.go:307-318).
Resumed ==
    [][run.pc = "restore" /\ run'.pc = "idle" /\ faults' = faults
         => \A s \in run.was : svc[s] = "running" \/ s \in run.lost \cup run.late]_vars

\* ... or without the last exception: "If the backup has failed, the previous services are
\* started again" (windows/README.md:189).  The code does not keep it: README,
\* "Disagreements found".
AllResumed ==
    [][run.pc = "restore" /\ run'.pc = "idle" /\ faults' = faults
         => \A s \in run.was : svc[s] # "stopped" \/ s \in run.lost]_vars

\* upgrade-state.json says complete only of one program, one schema and whole data.
Honest ==
    phase = "complete" /\ files # 0 =>
        installed = files /\ schema = files /\ cluster.base /\ (public => certs = "whole")

\* After any failure the marks are true and nothing runs that must not.
MarksTrue == TypeOK /\ AppStaysStopped /\ Honest

\* Preparing an upgrade loses neither the data nor the service of the program.
UpgradeSafe == BackedUp /\ Resumed

\* What only a backup can repair.
Damaged ==
    \/ cluster.state = "partial" \/ certs = "partial"
    \/ cluster.state = "whole" /\ \E s \in SecretFile : ~Present(s)

\* What the installer cannot get past: an uninstaller without its key, its log or its
\* helper; saved data beside a part of a program that nothing can remove.
Stuck ==
    \/ Torn
    \/ Entry /\ "helper" \notin parts
    \/ conn /\ ~Entry /\ "dump" \in parts

\* Whatever failed before, the newest version gets installed in the end, unless something
\* is damaged, or the uninstaller or the copying was cut off where the installer cannot
\* get past it.
Completes == []<>(Complete \/ Damaged \/ Stuck)

\* "After fixing the error, run the installer again" (custom-messages.iss:120-121): with
\* nothing damaged, no restart and nothing failing any more, that is enough.
\* The code does not keep it: README, "Disagreements found".
RepeatWorks == []<>(Complete \/ Damaged \/ Stuck)

\* "Installing an older version is forbidden" (windows/README.md:165): the program is
\* never older than its database.  The code does not keep it: README, "Disagreements found".
NeverOlder == files # 0 => files >= schema
====================================================================================
