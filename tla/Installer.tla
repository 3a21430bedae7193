------------------------------ MODULE Installer ------------------------------
(* The installer (install.sh) and what it runs to edit OpenCode's configuration
   (scripts/configure.ts): one transaction over a checkout and two configuration files,
   rolled back when a later step fails, next to the model selector of the TUI (tui.ts),
   which edits the same files under the same lock, and a user who edits them under none.

   A configuration file is what the user has put in it, counted in edits, and its plugin
   entry: none, or the model it names. Digests are the contents themselves.              *)
EXTENDS Naturals

CONSTANTS
    Installers, Selectors,  \* processes: install.sh, a selection in the TUI
    CommitSignals,          \* whether install.sh can be interrupted while it commits
    MaxEdits,               \* bound: edits of the user in the end
    MaxInstallFaults        \* bound: failing steps, kills, timeouts, slow holders

ASSUME InstallAssumption ==
    /\ Installers \cap Selectors = {}
    /\ {"free", "user"} \cap (Installers \cup Selectors) = {}
    /\ CommitSignals \in BOOLEAN
    /\ MaxEdits \in Nat /\ MaxInstallFaults \in Nat

VARIABLES
    config,        \* file -> its content
    checkout,      \* the managed checkout: "none", "old" or "new"
    installLock,   \* holder of the two locks of install.sh, or "free"
    configLock,    \* [holder, old]: the lock of configure.ts; old: past its 300 seconds
    proc,          \* process -> its state
    edits,         \* history: file -> the edits the user has made
    raced,         \* history: the files edited while a process was about to replace them
    slow,          \* history: a lock was taken from a process that still worked
    installFaults

installvars == <<config, checkout, installLock, configLock, proc, edits, raced, slow, installFaults>>

ConfigFiles == {"server", "tui"}
Procs == Installers \cup Selectors
NoConfig == [edit |-> 0, plugin |-> "absent"]
Configured(c) == c.plugin \notin {"absent", "none"}
\* at: the step; doing: what configure.ts was run for; read and saved: the contents it read
\* and backed up; changed: the files to write; done: the files written, then to restore;
\* recorded: the transaction state exists; before, head and others: what the transaction found and the
\* files others have changed since; incomplete: the rollback was refused.
Idle == [at |-> "idle", doing |-> "apply", model |-> "selected", read |-> [f \in ConfigFiles |-> NoConfig],
         saved |-> [f \in ConfigFiles |-> NoConfig], changed |-> {}, done |-> {}, recorded |-> FALSE,
         before |-> [f \in ConfigFiles |-> NoConfig], head |-> "none", others |-> {},
         incomplete |-> FALSE]

InstallInit ==
    /\ config = [f \in ConfigFiles |-> IF f = "server" THEN [edit |-> 1, plugin |-> "none"] ELSE NoConfig]
    /\ checkout = "none"
    /\ installLock = "free"
    /\ configLock = [holder |-> "free", old |-> FALSE]
    /\ proc = [p \in Procs |-> Idle]
    /\ edits = [f \in ConfigFiles |-> config[f].edit]
    /\ raced = {}
    /\ slow = FALSE
    /\ installFaults = MaxInstallFaults

Fault == installFaults > 0 /\ installFaults' = installFaults - 1
\* What a process that ends leaves to tell.
Ended(p, step) ==
    [Idle EXCEPT !.at = step, !.before = proc[p].before, !.others = proc[p].others,
                 !.incomplete = proc[p].incomplete]
Ends == {"done", "failed", "dead"}
Proceed(p, step) ==
    proc' = [proc EXCEPT ![p] = IF step \in Ends THEN Ended(p, step) ELSE [@ EXCEPT !.at = step]]

\* Process p writes: config becomes c, and the files that differ were changed by another.
Put(p, c, next) ==
    /\ config' = c
    /\ proc' = [q \in Procs |-> IF q = p THEN next
                ELSE [proc[q] EXCEPT !.others = @ \cup {f \in ConfigFiles : c[f] # config[f]}]]

-------------------------------------------------------------------------------
(* install.sh. *)

\* Both locks are held through the whole transaction; one of a dead process is removed.
BeginInstall(p) ==
    /\ proc[p].at = "idle" /\ p \in Installers
    /\ installLock \in {"free"} \cup {q \in Installers : proc[q].at = "dead"}
    /\ installLock' = p
    /\ proc' = [proc EXCEPT ![p] =
         [Idle EXCEPT !.at = "checkout", !.before = config, !.head = checkout]]
    /\ UNCHANGED <<config, checkout, configLock, edits, raced, slow, installFaults>>

\* Clone or fast-forward.
Checkout(p) ==
    /\ proc[p].at = "checkout"
    /\ \/ /\ checkout' = "new" /\ Proceed(p, "wait") /\ UNCHANGED installFaults
       \/ /\ checkout' \in {checkout, "new"} /\ Proceed(p, "finish") /\ Fault
    /\ UNCHANGED <<config, installLock, configLock, edits, raced, slow>>

\* The isolated and the target verification.
Verify(p) ==
    /\ proc[p].at = "verify"
    /\ \/ Proceed(p, "commit") /\ UNCHANGED installFaults
       \/ Proceed(p, "finish") /\ Fault
    /\ UNCHANGED <<config, checkout, installLock, configLock, edits, raced, slow>>

\* configure.ts removes the state file; then the shell ends the transaction, unless a signal
\* that came meanwhile runs the trap first.
Commit(p) ==
    /\ proc[p].at = "commit"
    /\ \/ /\ Proceed(p, "done")
          /\ installLock' = "free"
          /\ UNCHANGED installFaults
       \/ /\ CommitSignals /\ Fault
          /\ proc' = [proc EXCEPT ![p].at = "finish", ![p].recorded = FALSE]
          /\ UNCHANGED installLock
    /\ UNCHANGED <<config, checkout, configLock, edits, raced, slow>>

\* The trap: the configuration is rolled back if its transaction was recorded.
RollsBack(p) == proc[p].recorded
Finish(p) ==
    /\ proc[p].at = "finish"
    /\ IF RollsBack(p)
         THEN proc' = [proc EXCEPT ![p].at = "wait", ![p].doing = "rollback"]
         ELSE Proceed(p, "undo")
    /\ UNCHANGED <<config, checkout, installLock, configLock, edits, raced, slow, installFaults>>

\* Mutant: the checkout is rolled back also when the configuration's rollback was refused.
UndoneAlways(p) == proc[p].head
\* The checkout follows the configuration: back, or kept when its rollback was refused.
Undone(p) == IF proc[p].incomplete THEN checkout ELSE proc[p].head
Undo(p) ==
    /\ proc[p].at = "undo"
    /\ checkout' = Undone(p)
    /\ Proceed(p, "failed")
    /\ installLock' = "free"
    /\ UNCHANGED <<config, configLock, edits, raced, slow, installFaults>>

-------------------------------------------------------------------------------
(* tui.ts: a selection runs configure.ts with another model. *)

Select(p) ==
    /\ proc[p].at = "idle" /\ p \in Selectors
    /\ proc' = [proc EXCEPT ![p] = [Idle EXCEPT !.at = "wait", !.model = "chosen"]]
    /\ UNCHANGED <<config, checkout, installLock, configLock, edits, raced, slow, installFaults>>

-------------------------------------------------------------------------------
(* configure.ts. *)

\* What the caller does with the exit of configure.ts.
Exit(p, ok) ==
    IF p \in Selectors THEN IF ok THEN "done" ELSE "failed"
    ELSE IF proc[p].doing = "rollback" THEN "undo"
    ELSE IF ok THEN "verify" ELSE "finish"

\* The steps of configure.ts under its lock.
InConfigure == {"read", "backup", "write", "check", "restore"}
\* withConfigLock: a free lock is taken, one past its age is removed first.
LockConfig(p) ==
    /\ proc[p].at = "wait"
    /\ configLock.holder = "free" \/ configLock.old
    /\ configLock' = [holder |-> p, old |-> FALSE]
    /\ slow' = (slow \/ (configLock.holder # "free" /\ proc[configLock.holder].at \in InConfigure))
    /\ Proceed(p, IF proc[p].doing = "apply" THEN "read" ELSE "check")
    /\ UNCHANGED <<config, checkout, installLock, edits, raced, installFaults>>
WaitTimesOut(p) ==
    /\ proc[p].at = "wait" /\ configLock.holder # "free" /\ Fault
    /\ proc' = [proc EXCEPT ![p].at = Exit(p, FALSE),
                            ![p].incomplete = proc[p].doing = "rollback"]
    /\ UNCHANGED <<config, checkout, installLock, configLock, edits, raced, slow>>
Ages ==
    /\ configLock.holder # "free" /\ ~configLock.old
    /\ \/ proc[configLock.holder].at = "dead" /\ UNCHANGED installFaults
       \/ Fault
    /\ configLock' = [configLock EXCEPT !.old = TRUE]
    /\ UNCHANGED <<config, checkout, installLock, proc, edits, raced, slow>>
\* The finally of withConfigLock removes the directory, whoever made it.
Free == configLock' = [holder |-> "free", old |-> FALSE]

\* The contents are read long before they are written: the preflight runs in between. The
\* selector needs both entries; an installer keeps the model it finds.
Read(p) ==
    LET chosen == IF p \in Selectors \/ ~Configured(config["server"]) THEN proc[p].model
                  ELSE config["server"].plugin
        refused == p \in Selectors /\ \E f \in ConfigFiles : ~Configured(config[f])
    IN /\ proc[p].at = "read"
       /\ IF refused
            THEN Proceed(p, Exit(p, FALSE)) /\ Free
            ELSE /\ proc' = [proc EXCEPT ![p].at = "backup", ![p].model = chosen, ![p].read = config,
                        ![p].changed = {f \in ConfigFiles : config[f].plugin # chosen}, ![p].done = {}]
                 /\ UNCHANGED configLock
       /\ UNCHANGED <<config, checkout, installLock, edits, raced, slow, installFaults>>

Applied(p, f) == [proc[p].read[f] EXCEPT !.plugin = proc[p].model]

\* Copies of the files as they are now, and the state of the transaction for the rollback.
Backup(p) ==
    /\ proc[p].at = "backup"
    /\ IF proc[p].changed = {}
         THEN Proceed(p, Exit(p, TRUE)) /\ Free
         ELSE /\ proc' = [proc EXCEPT ![p].at = "write", ![p].saved = config,
                                      ![p].recorded = p \in Installers]
              /\ UNCHANGED configLock
    /\ UNCHANGED <<config, checkout, installLock, edits, raced, slow, installFaults>>

\* The files are replaced one after the other, the server's first.
Write(p) ==
    /\ proc[p].at = "write"
    /\ \E f \in proc[p].changed \ proc[p].done :
         /\ f = "tui" => "server" \notin proc[p].changed \ proc[p].done
         /\ Put(p, [config EXCEPT ![f] = Applied(p, f)], [proc[p] EXCEPT !.done = @ \cup {f}])
    /\ UNCHANGED <<checkout, installLock, configLock, edits, raced, slow, installFaults>>
Wrote(p) ==
    /\ proc[p].at = "write" /\ proc[p].done = proc[p].changed
    /\ Proceed(p, Exit(p, TRUE)) /\ Free
    /\ UNCHANGED <<config, checkout, installLock, edits, raced, slow, installFaults>>

\* Mutant: the handler restores only the files it has replaced.
RestoredWritten(p) == [f \in ConfigFiles |-> IF f = "tui" /\ f \in proc[p].done THEN proc[p].saved[f]
                                             ELSE config[f]]
\* The handler of a failed write restores every target and forgets the transaction.
Restored(p) == [f \in ConfigFiles |-> IF f \in proc[p].changed THEN proc[p].saved[f] ELSE config[f]]
WriteFails(p) ==
    /\ proc[p].at = "write" /\ Fault
    /\ Put(p, Restored(p), [proc[p] EXCEPT !.at = Exit(p, FALSE), !.recorded = FALSE])
    /\ Free
    /\ UNCHANGED <<checkout, installLock, edits, raced, slow>>

\* Before its rollback every file must be as the transaction found it or as it left it.
Untouched(p, f) == config[f] = proc[p].read[f]
\* Mutant: the rollback does not look whether a file was changed since.
ApprovesAll(p) == TRUE
Approves(p) == \A f \in proc[p].changed : Untouched(p, f) \/ config[f] = Applied(p, f)
\* What is to restore is settled here: an edit made after it is overwritten.
Check(p) ==
    /\ proc[p].at = "check"
    /\ IF Approves(p)
         THEN /\ proc' = [proc EXCEPT ![p].at = "restore",
                         ![p].done = {f \in proc[p].changed : ~Untouched(p, f)}]
              /\ UNCHANGED configLock
         ELSE proc' = [proc EXCEPT ![p].at = "undo", ![p].incomplete = TRUE] /\ Free
    /\ UNCHANGED <<config, checkout, installLock, edits, raced, slow, installFaults>>
PutBack(p) == [f \in ConfigFiles |-> IF f \in proc[p].done THEN proc[p].saved[f] ELSE config[f]]
Restore(p) ==
    /\ proc[p].at = "restore"
    /\ Put(p, PutBack(p), [proc[p] EXCEPT !.at = "undo", !.recorded = FALSE])
    /\ Free
    /\ UNCHANGED <<checkout, installLock, edits, raced, slow, installFaults>>

-------------------------------------------------------------------------------
(* What happens around it. *)

\* configure.ts is killed and install.sh sees it fail, or both are: locks stay behind.
ConfigureKilled(p) ==
    /\ proc[p].at \in InConfigure /\ p \in Installers /\ Fault
    /\ proc' = [proc EXCEPT ![p].at = Exit(p, FALSE), ![p].incomplete = proc[p].doing = "rollback"]
    /\ UNCHANGED <<config, checkout, installLock, configLock, edits, raced, slow>>
InstallerKilled(p) ==
    /\ proc[p].at \notin {"idle"} \cup Ends /\ Fault
    /\ Proceed(p, "dead")
    /\ UNCHANGED <<config, checkout, installLock, configLock, edits, raced, slow>>

\* The user edits a file, with an editor or with another tool.
About(p, f) == proc[p].at \in {"backup", "write", "restore"} /\ (f \in proc[p].changed)
Edit(f) ==
    /\ edits["server"] + edits["tui"] <= MaxEdits
    /\ edits' = [edits EXCEPT ![f] = @ + 1]
    /\ Put("user", [config EXCEPT ![f] = [edit |-> @.edit + 1,
                                  plugin |-> IF @.plugin = "absent" THEN "none" ELSE @.plugin]], {})
    /\ raced' = raced \cup (IF \E p \in Procs : About(p, f) THEN {f} ELSE {})
    /\ UNCHANGED <<checkout, installLock, configLock, slow, installFaults>>

ConfigureNext(p) ==
    \/ LockConfig(p) \/ WaitTimesOut(p) \/ Read(p) \/ Backup(p) \/ Write(p) \/ Wrote(p)
    \/ WriteFails(p) \/ Check(p) \/ Restore(p) \/ ConfigureKilled(p) \/ InstallerKilled(p)
InstallNext ==
    \/ \E p \in Installers :
         BeginInstall(p) \/ Checkout(p) \/ Verify(p) \/ Commit(p) \/ Finish(p) \/ Undo(p)
    \/ \E p \in Selectors : Select(p)
    \/ \E p \in Procs : ConfigureNext(p)
    \/ Ages
    \/ \E f \in ConfigFiles : Edit(f)

InstallSpec == InstallInit /\ [][InstallNext]_installvars

-------------------------------------------------------------------------------
(* Properties. *)

Content == [edit : 0..MaxEdits + 1, plugin : {"absent", "none", "selected", "chosen"}]
InstallTypeOK ==
    /\ config \in [ConfigFiles -> Content]
    /\ checkout \in {"none", "old", "new"}
    /\ installLock \in Installers \cup {"free"}
    /\ configLock.holder \in Procs \cup {"free"}
    /\ \A p \in Procs :
         /\ proc[p].done \subseteq proc[p].changed /\ proc[p].changed \subseteq ConfigFiles
         /\ proc[p].recorded => p \in Installers
         /\ proc[p].at \in {"check", "restore"} => proc[p].doing = "rollback" /\ proc[p].recorded
    /\ raced \subseteq ConfigFiles

\* What the user puts into a file is never lost to a transaction or to its rollback, as
\* long as the edit does not fall between the read and the write of one operation
\* (configure.ts:269-291, 419-443).
EditsKept == \A f \in ConfigFiles \ raced : config[f].edit = edits[f]

\* No configuration points at a checkout that was removed or rolled back (README.md:73),
\* whoever edited, selected or failed meanwhile, and also while the transaction and its
\* rollback run, as long as no lock was taken from a process that still worked.
EntryResolves == ~slow => \A f \in ConfigFiles : Configured(config[f]) => checkout = "new"

\* A transaction that failed, and whose rollback was not refused, leaves every file nobody
\* else has changed as it found it (README.md:73).
FailureUndone ==
    \A p \in Installers :
        proc[p].at = "failed" /\ ~proc[p].incomplete
          => \A f \in ConfigFiles \ proc[p].others : config[f] = proc[p].before[f]
===============================================================================
