---------------------------- MODULE SyncCommands ----------------------------
(***************************************************************************)
(* The commands of the CLI that set up, install and remove the background  *)
(* services and prune local session files (cli.ts), next to the sync       *)
(* daemon.  They share config.json, sync.env and rag.env and await between *)
(* their reads and writes of them; only the write of config.json has a     *)
(* lock.  A URL is the transport it is for, or "tunnel" for a database     *)
(* behind the SSH tunnel of the RAG worker.                                *)
(***************************************************************************)
EXTENDS Naturals, FiniteSets

CONSTANTS
    Terminals,         \* processes: each runs one command after the other
    SessionFiles,      \* the local files of the Codex source
    MaxCommands,       \* bound: commands
    MaxCommandFaults   \* bound: kills and failures of systemctl

ASSUME CommandsAssumption ==
    "free" \notin Terminals /\ MaxCommands \in Nat /\ MaxCommandFaults \in Nat

VARIABLES
    settings,       \* config.json
    settingsLock,   \* config.json.lock: "free", or who made it
    syncEnv,        \* the URL in sync.env
    ragEnv,         \* rag.env: which name its variable has, and the URL
    units,          \* systemd: unit -> "none", "written" or "on"
    wants,          \* the kind of database the RAG unit was written for
    daemon,         \* sync run: its state, and what it read of the settings at its start
    local,          \* session file -> what became of it
    mirrored,       \* session file -> its rows in the mirror
    command,        \* terminal -> the command it runs
    torn,           \* history: "sync" or "rag" was set up in part, or over another's write
    overtaken,      \* history: keep_remote_on_missing was lost, or came too late for a daemon
    commandsLeft, commandFaults

settingsvars == <<settings, settingsLock>>
servicevars == <<units, wants, daemon>>
filevars == <<local, mirrored>>
boundvars == <<commandsLeft, commandFaults>>
commandvars == <<settingsvars, syncEnv, ragEnv, servicevars, filevars, command, torn, overtaken,
                 boundvars>>

Transports == {"s3", "postgres"}
Defaults == [enabled |-> FALSE, transport |-> "s3", keep |-> FALSE, rag |-> "off"]
NotRunning == [at |-> "off", transport |-> "s3", keep |-> FALSE]
Units == {"sync", "rag", "tunnel"}
\* doing: the command; at: its next step; loaded: the settings it has read; url, token: from
\* its flags, then the URL it writes; tunnel: --ssh-host; install: --install; unit: the unit it
\* installs or removes; plan: the files to prune; alone: no other command has written since it read the settings.
NoCommand == [doing |-> "none", at |-> "idle", loaded |-> Defaults, url |-> "none", token |-> FALSE,
              tunnel |-> FALSE, install |-> FALSE, unit |-> "sync", plan |-> {}, alone |-> TRUE]

\* Nothing is set up, or the mirror is.
CommandsInit ==
    /\ \/ settings = Defaults /\ syncEnv = "none" /\ mirrored = [f \in SessionFiles |-> "none"]
       \/ /\ settings = [Defaults EXCEPT !.enabled = TRUE, !.transport = "postgres"]
          /\ syncEnv = "postgres"
          /\ mirrored = [f \in SessionFiles |-> "live"]
    /\ settingsLock = "free"
    /\ ragEnv = [name |-> "none", url |-> "none"]
    /\ units = [u \in Units |-> IF u = "sync" /\ settings.enabled THEN "on" ELSE "none"]
    /\ wants = "none"
    /\ daemon = NotRunning
    /\ local = [f \in SessionFiles |-> "there"]
    /\ command = [p \in Terminals |-> NoCommand]
    /\ torn = {} /\ overtaken = FALSE
    /\ commandsLeft = MaxCommands /\ commandFaults = MaxCommandFaults

CommandFault == commandFaults > 0 /\ commandFaults' = commandFaults - 1 /\ UNCHANGED commandsLeft

\* Terminal p goes on as c.
Continue(p, c) == command' = [command EXCEPT ![p] = c]
\* The same, after a write that the commands of the others have not read.
Written(p, c) ==
    command' = [q \in Terminals |-> IF q = p THEN c
                ELSE [command[q] EXCEPT !.alone = @ /\ command[q].at = "idle"]]
Step(p, step) == [command[p] EXCEPT !.at = step]
UnitStep(p, unit, step) == [command[p] EXCEPT !.at = step, !.unit = unit]
\* What is torn when p writes: everything, when it has not read what another wrote.
TornBy(p) == IF command[p].alone THEN {} ELSE {"sync", "rag"}
\* What is torn when p ends before its next step.
Unfinished(p) ==
    CASE command[p].doing = "sync setup" /\ command[p].at \in {"save", "rename"} -> {"sync"}
      [] command[p].doing = "rag setup" /\ command[p].tunnel
            /\ command[p].at \in {"unlock", "tunnel url"} -> {"rag"}
      [] OTHER -> {}
Fail(p) == Continue(p, NoCommand) /\ torn' = torn \cup Unfinished(p)

\* A command begins: it loads the settings.
Begin(p, c) ==
    /\ command[p].at = "idle"
    /\ commandsLeft > 0 /\ commandsLeft' = commandsLeft - 1
    /\ Continue(p, [c EXCEPT !.loaded = settings])
    /\ UNCHANGED <<settingsvars, syncEnv, ragEnv, servicevars, filevars, torn, overtaken, commandFaults>>

-----------------------------------------------------------------------------
(* saveConfig. *)

\* Mutant: a setup leaves the transport as it was.
SavedTransport(p) ==
    LET c == command[p] IN
    CASE c.doing = "sync setup" -> [c.loaded EXCEPT !.enabled = TRUE]
      [] c.doing = "rag setup" ->
           [c.loaded EXCEPT !.rag = IF c.tunnel \/ @ = "tunnel" THEN "tunnel" ELSE "direct"]
      [] c.doing = "prune" -> [c.loaded EXCEPT !.keep = TRUE]
\* What each command changes in the settings it has loaded.
Saved(p) ==
    LET c == command[p] IN
    CASE c.doing = "sync setup" -> [c.loaded EXCEPT !.enabled = TRUE, !.transport = c.url]
      [] c.doing = "rag setup" ->
           [c.loaded EXCEPT !.rag = IF c.tunnel \/ @ = "tunnel" THEN "tunnel" ELSE "direct"]
      [] c.doing = "prune" -> [c.loaded EXCEPT !.keep = TRUE]

\* The lock is made, or the configuration is busy, also when its holder was killed.
LockSettings(p) ==
    /\ command[p].at = "save"
    /\ IF settingsLock = "free"
         THEN settingsLock' = p /\ Continue(p, Step(p, "rename")) /\ UNCHANGED torn
         ELSE Fail(p) /\ UNCHANGED settingsLock
    /\ UNCHANGED <<settings, syncEnv, ragEnv, servicevars, filevars, overtaken, boundvars>>

\* The whole configuration is replaced, with what was loaded before.
RenameSettings(p) ==
    /\ command[p].at = "rename"
    /\ settings' = Saved(p)
    /\ Written(p, Step(p, "unlock"))
    /\ torn' = (IF command[p].doing = "sync setup" THEN torn \ {"sync"} ELSE torn) \cup TornBy(p)
    /\ overtaken' = (overtaken \/ (settings.keep /\ ~Saved(p).keep))
    /\ UNCHANGED <<settingsLock, syncEnv, ragEnv, servicevars, filevars, boundvars>>

AfterSave(p) ==
    LET c == command[p] IN
    CASE c.doing = "prune" -> Step(p, "prune")
      [] c.doing = "rag setup" /\ c.tunnel -> Step(p, "tunnel url")
      [] c.doing = "rag setup" /\ ~c.tunnel /\ c.install -> Step(p, "rag load")
      [] c.doing = "sync setup" /\ c.install -> Step(p, "sync load")
      [] OTHER -> NoCommand
UnlockSettings(p) ==
    /\ command[p].at = "unlock"
    /\ settingsLock' = "free"
    /\ Continue(p, AfterSave(p))
    /\ UNCHANGED <<settings, syncEnv, ragEnv, servicevars, filevars, torn, overtaken, boundvars>>

-----------------------------------------------------------------------------
(* sync setup: sync.env is written first, the configuration after it. *)

SyncSetup(p) == \E url \in Transports \cup {"none"}, install \in BOOLEAN :
    \E token \in {FALSE, url = "s3"} :
        Begin(p, [NoCommand EXCEPT !.doing = "sync setup", !.at = "sync url",
                                   !.url = url, !.token = token, !.install = install])

\* Without a flag the URL is the one stored for the transport of the settings; the S3
\* transport falls back to a database URL.
SetupURL(p) ==
    IF command[p].url # "none" THEN command[p].url
    ELSE IF command[p].loaded.transport \in {"s3", syncEnv} THEN syncEnv
    ELSE "none"
\* The token of the receiver is stored beside its URL.
HasToken(p, url) == url = "s3" => command[p].token \/ syncEnv = "s3"
WriteSyncURL(p) ==
    /\ command[p].at = "sync url"
    /\ LET url == SetupURL(p) IN
       IF url # "none" /\ HasToken(p, url)
         THEN syncEnv' = url /\ Written(p, [Step(p, "save") EXCEPT !.url = url])
         ELSE Continue(p, NoCommand) /\ UNCHANGED syncEnv
    /\ UNCHANGED <<settingsvars, ragEnv, servicevars, filevars, torn, overtaken, boundvars>>

-----------------------------------------------------------------------------
(* sync install, sync uninstall. *)

SyncInstall(p) == Begin(p, [NoCommand EXCEPT !.doing = "sync install", !.at = "sync load"])

\* The settings are read again; a URL that is not for their transport is refused.
LoadToInstall(p) ==
    /\ command[p].at = "sync load"
    /\ LET given == command[p].url
           url == IF given = "none" /\ syncEnv = settings.transport THEN syncEnv ELSE given
       IN IF url \notin {"none", settings.transport} \/ (url = "s3" /\ syncEnv # "s3")
            THEN Continue(p, NoCommand)
            ELSE Continue(p, [Step(p, IF url = "none" THEN "write" ELSE "sync env") EXCEPT
                                !.loaded = settings, !.url = url, !.alone = TRUE])
    /\ UNCHANGED <<settingsvars, syncEnv, ragEnv, servicevars, filevars, torn, overtaken, boundvars>>
RewriteSyncEnv(p) ==
    /\ command[p].at = "sync env"
    /\ syncEnv' = command[p].url
    /\ Written(p, Step(p, "write"))
    /\ torn' = torn \cup TornBy(p)
    /\ UNCHANGED <<settingsvars, ragEnv, servicevars, filevars, overtaken, boundvars>>

\* A unit file is replaced; a unit that is on stays so.
WriteUnit(p) ==
    /\ command[p].at = "write"
    /\ units' = [units EXCEPT ![command[p].unit] = IF @ = "on" THEN "on" ELSE "written"]
    /\ wants' = IF command[p].unit = "rag" THEN command[p].loaded.rag ELSE wants
    /\ Written(p, Step(p, "enable"))
    /\ torn' = torn \cup TornBy(p)
    /\ UNCHANGED <<settingsvars, syncEnv, ragEnv, daemon, filevars, overtaken, boundvars>>
\* systemctl enable --now.  The tunnel comes before the unit that wants it.
EnableUnit(p) ==
    /\ command[p].at = "enable"
    /\ \/ /\ units' = [units EXCEPT ![command[p].unit] = "on"]
          /\ Written(p, IF command[p].unit = "tunnel" THEN UnitStep(p, "rag", "write") ELSE NoCommand)
          /\ torn' = torn \cup TornBy(p)
          /\ UNCHANGED boundvars
       \/ Fail(p) /\ CommandFault /\ UNCHANGED units
    /\ UNCHANGED <<settingsvars, syncEnv, ragEnv, wants, daemon, filevars, overtaken>>

\* systemctl disable --now, whose failure is ignored, then the removal of the file.
DisableUnit(p) ==
    /\ command[p].at = "disable"
    /\ \/ /\ units' = [units EXCEPT ![command[p].unit] = IF @ = "on" THEN "written" ELSE @]
          /\ daemon' = IF command[p].unit = "sync" THEN NotRunning ELSE daemon
          /\ torn' = torn \cup TornBy(p)
          /\ UNCHANGED boundvars
       \/ CommandFault /\ torn' = torn \cup {"rag"} /\ UNCHANGED <<units, daemon>>
    /\ Written(p, Step(p, "remove"))
    /\ UNCHANGED <<settingsvars, syncEnv, ragEnv, wants, filevars, overtaken>>
RemoveUnit(p) ==
    /\ command[p].at = "remove"
    /\ units' = [units EXCEPT ![command[p].unit] = IF @ = "on" THEN "on" ELSE "none"]
    /\ Written(p, IF command[p].unit = "rag" THEN UnitStep(p, "tunnel", "disable") ELSE NoCommand)
    /\ UNCHANGED <<settingsvars, syncEnv, ragEnv, wants, daemon, filevars, torn, overtaken, boundvars>>

SyncUninstall(p) == Begin(p, [NoCommand EXCEPT !.doing = "sync uninstall", !.at = "disable"])

-----------------------------------------------------------------------------
(* rag setup, rag install, rag uninstall. *)

RagSetup(p) == \E tunnel, install \in BOOLEAN :
    Begin(p, [NoCommand EXCEPT !.doing = "rag setup", !.at = "save",
                               !.tunnel = tunnel, !.install = install])

\* The URL through the tunnel is derived from the one of the sync, after the settings name it.
WriteTunnelURL(p) ==
    /\ command[p].at = "tunnel url"
    /\ IF syncEnv = "postgres"
         THEN /\ ragEnv' = [name |-> "tunnel", url |-> "tunnel"]
              /\ Written(p, IF command[p].install THEN Step(p, "rag load") ELSE NoCommand)
              /\ torn' = torn \cup TornBy(p)
         ELSE Fail(p) /\ UNCHANGED ragEnv
    /\ UNCHANGED <<settingsvars, syncEnv, servicevars, filevars, overtaken, boundvars>>

RagInstall(p) == Begin(p, [NoCommand EXCEPT !.doing = "rag install", !.at = "rag load"])
LoadToInstallRag(p) ==
    /\ command[p].at = "rag load"
    /\ Continue(p, IF settings.rag = "off" THEN NoCommand
                   ELSE [Step(p, "rag env") EXCEPT !.loaded = settings, !.alone = TRUE])
    /\ UNCHANGED <<settingsvars, syncEnv, ragEnv, servicevars, filevars, torn, overtaken, boundvars>>

\* ragDatabaseURLFor: rag.env comes before sync.env, when it has the name the settings give.
RagURL(p) ==
    IF ragEnv.name = command[p].loaded.rag THEN ragEnv.url
    ELSE IF syncEnv = "postgres" THEN "postgres"
    ELSE "none"
WriteRagEnv(p) ==
    /\ command[p].at = "rag env"
    /\ ragEnv' = IF RagURL(p) = "none" THEN ragEnv
                 ELSE [name |-> command[p].loaded.rag, url |-> RagURL(p)]
    /\ Written(p, UnitStep(p, IF command[p].loaded.rag = "tunnel" THEN "tunnel" ELSE "rag", "write"))
    /\ torn' = torn \cup TornBy(p)
    /\ UNCHANGED <<settingsvars, syncEnv, servicevars, filevars, overtaken, boundvars>>

RagUninstall(p) ==
    Begin(p, [NoCommand EXCEPT !.doing = "rag uninstall", !.at = "disable", !.unit = "rag"])

-----------------------------------------------------------------------------
(* sync prune. *)

\* A daemon that holds the sync lock is seen, one that is about to take it is not.
Prune(p) ==
    /\ daemon.at # "up"
    /\ Begin(p, [NoCommand EXCEPT !.doing = "prune", !.at = "load"])
LoadToPrune(p) ==
    /\ command[p].at = "load"
    /\ Continue(p, IF settings.enabled /\ settings.transport = "postgres"
                   THEN [Step(p, "plan") EXCEPT !.loaded = settings] ELSE NoCommand)
    /\ UNCHANGED <<settingsvars, syncEnv, ragEnv, servicevars, filevars, torn, overtaken, boundvars>>

\* Mutant: the files go first.
PlannedRemoval(p) == "prune"
\* The configuration is saved, if need be, before the files go.
Planned(p) == IF command[p].loaded.keep THEN "prune" ELSE "save"
\* Local files whose rows the mirror has.  The source may not be uploaded, and a file may
\* have changed since the answer.
Plan(p) ==
    /\ command[p].at = "plan"
    /\ \/ \E plan \in SUBSET {f \in SessionFiles : local[f] = "there" /\ mirrored[f] = "live"} :
            /\ plan # {} /\ syncEnv = "postgres"
            /\ Continue(p, [Step(p, Planned(p)) EXCEPT !.plan = plan])
       \/ Continue(p, NoCommand)
    /\ UNCHANGED <<settingsvars, syncEnv, ragEnv, servicevars, filevars, torn, overtaken, boundvars>>
PruneFile(p) ==
    /\ command[p].at = "prune"
    /\ \E f \in command[p].plan :
         IF local[f] = "there"
           THEN /\ local' = [local EXCEPT ![f] = "pruned"]
                /\ Continue(p, IF command[p].plan = {f} THEN NoCommand
                               ELSE [command[p] EXCEPT !.plan = @ \ {f}])
                /\ overtaken' = (overtaken \/ (daemon.at # "off" /\ ~daemon.keep))
           ELSE Continue(p, NoCommand) /\ UNCHANGED <<local, overtaken>>
    /\ UNCHANGED <<settingsvars, syncEnv, ragEnv, servicevars, mirrored, torn, boundvars>>

-----------------------------------------------------------------------------
(* What happens around the commands. *)

\* sync run reads the settings once, before it takes the lock.
DaemonLoads ==
    /\ daemon.at = "off" /\ units["sync"] = "on" /\ settings.enabled
    /\ daemon' = [at |-> "starting", transport |-> settings.transport, keep |-> settings.keep]
    /\ UNCHANGED <<settingsvars, syncEnv, ragEnv, units, wants, filevars, command, torn, overtaken, boundvars>>
DaemonLocks ==
    /\ daemon.at = "starting"
    /\ daemon' = [daemon EXCEPT !.at = "up"]
    /\ UNCHANGED <<settingsvars, syncEnv, ragEnv, units, wants, filevars, command, torn, overtaken, boundvars>>
DaemonStops ==
    /\ daemon.at # "off"
    /\ daemon' = NotRunning
    /\ UNCHANGED <<settingsvars, syncEnv, ragEnv, units, wants, filevars, command, torn, overtaken, boundvars>>

\* A pass mirrors a file that is there.  The rows of one that is not are deleted, unless
\* they are to be kept; a tree that shrank as a whole waits (JsonlDiscovery).
DaemonPasses(f) ==
    /\ daemon.at = "up" /\ daemon.transport = "postgres"
    /\ IF local[f] = "there"
         THEN mirrored' = [mirrored EXCEPT ![f] = "live"]
         ELSE /\ mirrored[f] = "live" /\ ~daemon.keep
              /\ mirrored' = [mirrored EXCEPT ![f] = "deleted"]
    /\ UNCHANGED <<settingsvars, syncEnv, ragEnv, servicevars, local, command, torn, overtaken, boundvars>>

UserRemoves(f) ==
    /\ local[f] = "there"
    /\ local' = [local EXCEPT ![f] = "removed"]
    /\ UNCHANGED <<settingsvars, syncEnv, ragEnv, servicevars, mirrored, command, torn, overtaken, boundvars>>

Kill(p) ==
    /\ command[p].at # "idle" /\ CommandFault
    /\ Fail(p)
    /\ UNCHANGED <<settingsvars, syncEnv, ragEnv, servicevars, filevars, overtaken>>

CommandStarts(p) ==
    \/ SyncSetup(p) \/ SyncInstall(p) \/ SyncUninstall(p)
    \/ RagSetup(p) \/ RagInstall(p) \/ RagUninstall(p) \/ Prune(p)
CommandStep(p) ==
    \/ LockSettings(p) \/ RenameSettings(p) \/ UnlockSettings(p)
    \/ WriteSyncURL(p) \/ LoadToInstall(p) \/ RewriteSyncEnv(p)
    \/ WriteUnit(p) \/ EnableUnit(p) \/ DisableUnit(p) \/ RemoveUnit(p)
    \/ WriteTunnelURL(p) \/ LoadToInstallRag(p) \/ WriteRagEnv(p)
    \/ LoadToPrune(p) \/ Plan(p) \/ PruneFile(p)
    \/ Kill(p)
CommandsNext ==
    \/ \E p \in Terminals : CommandStarts(p) \/ CommandStep(p)
    \/ DaemonLoads \/ DaemonLocks \/ DaemonStops
    \/ \E f \in SessionFiles : DaemonPasses(f) \/ UserRemoves(f)

CommandsSpec == CommandsInit /\ [][CommandsNext]_commandvars

-----------------------------------------------------------------------------
(* Properties *)

Settings == [enabled : BOOLEAN, transport : Transports, keep : BOOLEAN,
             rag : {"off", "direct", "tunnel"}]
CommandsTypeOK ==
    /\ settings \in Settings
    /\ settingsLock \in Terminals \cup {"free"}
    /\ syncEnv \in Transports \cup {"none"}
    /\ ragEnv \in [name : {"none", "direct", "tunnel"}, url : {"none", "postgres", "tunnel"}]
    /\ units \in [Units -> {"none", "written", "on"}]
    /\ wants \in {"none", "direct", "tunnel"}
    /\ daemon \in [at : {"off", "starting", "up"}, transport : Transports, keep : BOOLEAN]
    /\ local \in [SessionFiles -> {"there", "pruned", "removed"}]
    /\ mirrored \in [SessionFiles -> {"none", "live", "deleted"}]
    /\ DOMAIN command = Terminals
    /\ \A p \in Terminals : command[p].loaded \in Settings /\ command[p].plan \subseteq SessionFiles
                              /\ command[p].unit \in Units
    /\ torn \subseteq {"sync", "rag"}

\* What is set up can be served: the enabled sync finds a URL for its transport, and a RAG
\* worker that wants the tunnel finds the tunnel and a URL through it, unless a setup ended
\* in the middle, two commands overlapped or systemctl could not stop the worker; the next
\* whole sync setup mends the first (cli.ts:759-764, 1236-1246).
Whole(setup) == setup \notin torn /\ \A p \in Terminals : setup \notin Unfinished(p)
SetUpIsServed ==
    /\ settings.enabled /\ Whole("sync") => syncEnv = settings.transport
    /\ units["rag"] = "on" /\ wants = "tunnel" /\ Whole("rag")
         => units["tunnel"] = "on" /\ ragEnv.url = "tunnel"

\* The rows of a pruned file stay in the mirror (cli.ts:1059-1062), wherever the prune is
\* killed and whenever the daemon starts, unless a command that knew nothing of the prune
\* wrote the configuration after it, or a daemon had read the configuration before it.
PrunedRowsKept ==
    ~overtaken => \A f \in SessionFiles : local[f] = "pruned" => mirrored[f] = "live"
=============================================================================
