----------------------------- MODULE MCHandlers -----------------------------
(***************************************************************************)
(* What a host or a person calls, in one run: the hooks, the Pi adapter,   *)
(* the chain of ledgers, the installer and the commands of the CLI.  They  *)
(* share no state with each other: the initial state chooses the one that  *)
(* runs, the others rest.                                                  *)
(***************************************************************************)
EXTENDS MCCompactionHooks, PiSession, LedgerChain, Installer, SyncCommands

VARIABLE part   \* the component that runs

Parts == {"hooks", "pi", "ledger", "install", "commands"}

----------------------------------------------------------------------------
(* Instances *)

\* LedgerChain: two requests with three rules, an edit and a failed build.
TwoRequests == {1, 2}
ThreeRules == [r \in TwoRequests |-> IF r = 2 THEN <<12, 13>> ELSE <<11>>]
EditsThenFails ==
    {[tool |-> "edit", status |-> "completed", text |-> 1, paths |-> <<2, 1, 3>>],
     [tool |-> "build", status |-> "error", text |-> 2, paths |-> <<>>]}
TwoOfEach == [k \in Sections |-> 2]
MoreImportantLarger ==
    [k \in Sections |-> IF k \in {"recent_requests", "todos", "next_actions"} THEN 2 ELSE 1]

\* PiSession: of two items next to each other one is larger.
OddItemsLarger == [id \in 1..MaxEntries |-> 1 + (id % 2)]

----------------------------------------------------------------------------

\* One initial state of each component for the runs of the others.
HooksRest == OneInit /\ study = "alone"
LedgerRests == LedgerInit /\ budget = Max(Budgets)
CommandsRest == CommandsInit /\ settings = Defaults

hookvars == <<vars, trouble, study>>
handlervars == <<part, hookvars, pivars, ledgervars, installvars, commandvars>>

HandlersInit ==
    /\ part \in Parts
    /\ PiInit /\ InstallInit
    /\ IF part = "hooks" THEN OneInit ELSE HooksRest
    /\ IF part = "ledger" THEN LedgerInit ELSE LedgerRests
    /\ IF part = "commands" THEN CommandsInit ELSE CommandsRest

HandlersNext ==
    /\ UNCHANGED part
    /\ IF part = "hooks" THEN OneNext ELSE UNCHANGED hookvars
    /\ IF part = "pi" THEN PiNext ELSE UNCHANGED pivars
    /\ IF part = "ledger" THEN LedgerNext ELSE UNCHANGED ledgervars
    /\ IF part = "install" THEN InstallNext ELSE UNCHANGED installvars
    /\ IF part = "commands" THEN CommandsNext ELSE UNCHANGED commandvars

HandlersSpec == HandlersInit /\ [][HandlersNext]_handlervars

\* Bound of the Pi session: /recall is used in short sessions without pins, and pin
\* updates in short sessions without /recall.
PiBound ==
    part = "pi" =>
        \/ handles = {} /\ pinUpdates = 0
        \/ lastId < 4 - pinUpdates /\ (handles = {} \/ pinUpdates = 0)

\* Bound of the ledger: todos change right after a compaction; a change commutes with turns
\* and results.
TodosAtCompaction ==
    todoChanges' # todoChanges =>
        messages # <<>> /\ messages[Len(messages)].kind \in {"summary", "native"}

RagCommands == {"rag setup", "rag install", "rag uninstall"}
\* Bound of the commands: the terminals are alike, so the second is used when the first is;
\* only the first installs what it sets up; the daemon runs and files go as long as there
\* is no RAG command, which knows of neither.
CommandsBound ==
    /\ command["t2"].at = "idle" /\ command'["t2"].at # "idle" =>
         command["t1"].at # "idle" /\ (command'["t2"].doing = "sync setup" => ~command'["t2"].install)
    /\ <<daemon, local>>' # <<daemon, local>> =>
         settings.rag = "off" /\ \A p \in Terminals : command[p].doing \notin RagCommands

----------------------------------------------------------------------------
\* The variables of the component that runs have the values its module describes.
HandlersTypeOK ==
    CASE part = "hooks" -> TypeOK
      [] part = "pi" -> PiTypeOK
      [] part = "ledger" -> LedgerTypeOK
      [] part = "install" -> InstallTypeOK
      [] part = "commands" -> CommandsTypeOK
=============================================================================
