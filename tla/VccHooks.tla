------------------------------ MODULE VccHooks ------------------------------
(***************************************************************************)
(* The OpenCode V1 plugin hooks of src/src/server.ts with vcc_mode=hybrid: *)
(* experimental.session.compacting, experimental.text.complete,            *)
(* experimental.compaction.autocontinue and event, over VccAttemptStore.   *)
(* The transform hook does not touch VCC attempts.                         *)
(*                                                                         *)
(* An attempt is never assigned to: a hook holds the one it read over its  *)
(* awaits and puts a changed copy into the store, which may have dropped   *)
(* the original meanwhile.                                                 *)
(*                                                                         *)
(* The canonical source of a session is abstracted to its revision.  A     *)
(* collection pages backwards from the newest message with a cursor, so it *)
(* is the session as of its first page.  All digests of an attempt (source *)
(* manifest, index, docket, candidate) are functions of that revision, the *)
(* candidate's also of whether a patch was applied.                        *)
(***************************************************************************)
EXTENDS AttemptStore, Sequences

CONSTANTS
    Faults,         \* TRUE when client calls fail and limits are exceeded
    MaxTime,        \* bound: ticks of Date.now()
    MaxRevision,    \* bound: changes of a session's history
    MaxCompactions, \* bound: summary messages of a session
    MaxParts,       \* bound: text parts of one summary message
    MaxEvents       \* bound: undelivered events of one session

ASSUME VccAssumption ==
    /\ Faults \in BOOLEAN
    /\ {MaxTime, MaxRevision, MaxCompactions, MaxParts, MaxEvents} \subseteq Nat

VARIABLES
    store,      \* vccAttempts
    now,        \* Date.now()
    durable,    \* durable[s]: the session as the host stores it
    call,       \* call[s]: where the host is, with the locals of the hook it awaits
    events,     \* events[s]: events the bus has still to deliver
    quiet       \* history: quiet[s], since the newest compaction of s began no time
                \* passed, no event arrived, nothing failed and no message was stored

vccvars == <<store, now, durable, call, events, quiet>>

----------------------------------------------------------------------------
(* Values *)

\* Compactions are numbered; the number stands for the ID of the parent message
\* and of its summary message.  0 is an ID that is not set.
Outcome == {"source_incomplete", "candidate_ready", "vcc_success", "degraded_summary", "no_text"}
Validation == {"pending", "provider", "fallback", "invalid"}
VccAttempt ==
    [createdAt : Nat, compactionTargetID : Nat, summaryMessageID : Nat, textPartID : Nat,
     sourceComplete : BOOLEAN, manifest : Nat, outcome : Outcome, validation : Validation]

ASSUME VccAttemptAssumption == NoAttempt \notin VccAttempt

\* What validateVccAttempt refuses, so that set() throws.
Consistent(a) ==
    /\ a.outcome \in {"candidate_ready", "vcc_success"} => a.sourceComplete
    /\ a.sourceComplete => a.outcome \notin {"source_incomplete", "degraded_summary"}

\* A stored text: blank, what the model wrote, a degraded summary, or a projection.
Text == [kind : {"blank", "raw", "degraded", "success"}, revision : Nat, patched : BOOLEAN]
Plain(kind) == [kind |-> kind, revision |-> 0, patched |-> FALSE]
Projection(revision, patched) == [kind |-> "success", revision |-> revision, patched |-> patched]

\* parts: of the newest summary message; spoke: the model wrote something in its
\* first part; turn: the text of the newest ordinary assistant message.
Durable == [revision : Nat, compaction : Nat, parts : Seq(Text), spoke : BOOLEAN, turn : Text]

Collected == [complete : BOOLEAN, revision : Nat]
NoSource == [complete |-> FALSE, revision |-> 0]

HostPoints == {"idle", "turn", "summary", "stream", "verdict", "gone"}
HookPoints ==
    {"compacting", "compacting_rest", "text", "text_target", "text_prepare", "text_rest",
     "auto", "auto_load", "auto_prepare", "auto_rest"}

\* loaded: the source the hook collected; raw and ordinary: the part that is
\* completed, a summary's or an ordinary message's; active: the attempt the hook
\* holds; asked: the revision when autocontinue was called; enabled: its answer.
Call ==
    [at : HostPoints \cup HookPoints, loaded : Collected, raw : {"blank", "prose", "patch"},
     ordinary : BOOLEAN, active : VccAttempt \cup {NoAttempt}, asked : Nat, enabled : BOOLEAN]

Event == {"session.compacted", "session.idle", "session.error", "session.deleted"}

----------------------------------------------------------------------------
(* Initial state *)

IdleCall ==
    [at |-> "idle", loaded |-> NoSource, raw |-> "blank", ordinary |-> FALSE,
     active |-> NoAttempt, asked |-> 0, enabled |-> FALSE]

VccInit ==
    /\ store = EmptyStore
    /\ now = 0
    /\ durable = [s \in Sessions |-> [revision |-> 0, compaction |-> 0, parts |-> <<>>,
                                      spoke |-> FALSE, turn |-> Plain("raw")]]
    /\ call = [s \in Sessions |-> IdleCall]
    /\ events = [s \in Sessions |-> <<>>]
    /\ quiet = [s \in Sessions |-> FALSE]

Disturb(s) == quiet' = [quiet EXCEPT ![s] = FALSE]

HostReaches(s, p) ==
    call' = [call EXCEPT ![s] = [IdleCall EXCEPT !.at = p, !.asked = call[s].asked]]

Emit(s, published) ==
    /\ Len(events[s]) + Len(published) <= MaxEvents
    /\ events' = [events EXCEPT ![s] = @ \o published]

----------------------------------------------------------------------------
(* The host (external) *)

Prompt(s) ==
    /\ call[s].at = "idle"
    /\ durable[s].revision < MaxRevision
    /\ durable' = [durable EXCEPT ![s].revision = @ + 1]
    /\ HostReaches(s, "turn")
    /\ UNCHANGED <<store, now, events, quiet>>

\* A queued user message is stored while hooks run.
HistoryMoves(s) ==
    /\ call[s].at \notin {"idle", "gone"}
    /\ durable[s].revision < MaxRevision
    /\ durable' = [durable EXCEPT ![s].revision = @ + 1]
    /\ Disturb(s)
    /\ UNCHANGED <<store, now, call, events>>

\* A text part of an ordinary assistant message is complete.
StreamTurn(s) ==
    /\ call[s].at = "turn"
    /\ call' = [call EXCEPT ![s].at = "text", ![s].raw = "prose", ![s].ordinary = TRUE]
    /\ UNCHANGED <<store, now, durable, events, quiet>>

FinishTurn(s) ==
    /\ call[s].at = "turn"
    /\ HostReaches(s, "idle")
    /\ Emit(s, <<"session.idle">>)
    /\ UNCHANGED <<store, now, durable, quiet>>

\* The parent message of the compaction is stored before the hook is called.
BeginCompaction(s) ==
    /\ call[s].at \in {"idle", "turn"}
    /\ durable[s].compaction < MaxCompactions
    /\ call' = [call EXCEPT ![s].at = "compacting"]
    /\ quiet' = [quiet EXCEPT ![s] = TRUE]
    /\ UNCHANGED <<store, now, durable, events>>

WriteSummary(s) ==
    /\ call[s].at = "summary"
    /\ durable' = [durable EXCEPT ![s].compaction = @ + 1, ![s].parts = <<>>, ![s].spoke = FALSE]
    /\ HostReaches(s, "stream")
    /\ UNCHANGED <<store, now, events, quiet>>

\* The compaction is cancelled, its summary message is not stored.
CancelCompaction(s) ==
    /\ Faults
    /\ call[s].at = "summary"
    /\ HostReaches(s, "idle")
    /\ Emit(s, <<"session.idle">>)
    /\ UNCHANGED <<store, now, durable, quiet>>

StreamText(s) ==
    /\ call[s].at = "stream"
    /\ Len(durable[s].parts) < MaxParts
    /\ \E raw \in {"blank", "prose", "patch"} :
        /\ call' = [call EXCEPT ![s].at = "text", ![s].raw = raw]
        /\ durable' = [durable EXCEPT ![s].spoke = @ \/ (durable[s].parts = <<>> /\ raw # "blank")]
    /\ UNCHANGED <<store, now, events, quiet>>

\* A manual compaction ends; any other asks whether to continue.
FinishSummary(s) ==
    /\ call[s].at = "stream"
    /\ \/ /\ HostReaches(s, "idle")
          /\ Emit(s, <<"session.compacted", "session.idle">>)
       \/ /\ call' = [call EXCEPT ![s].at = "auto", ![s].asked = durable[s].revision]
          /\ UNCHANGED events
    /\ UNCHANGED <<store, now, durable, quiet>>

FailSummary(s) ==
    /\ Faults
    /\ call[s].at = "stream"
    /\ HostReaches(s, "idle")
    /\ Emit(s, <<"session.error", "session.idle">>)
    /\ UNCHANGED <<store, now, durable, quiet>>

ActOnVerdict(s) ==
    /\ call[s].at = "verdict"
    /\ \/ /\ call[s].enabled
          /\ HostReaches(s, "turn")
          /\ Emit(s, <<"session.compacted">>)
       \/ /\ ~call[s].enabled
          /\ HostReaches(s, "idle")
          /\ Emit(s, <<"session.compacted", "session.idle">>)
    /\ UNCHANGED <<store, now, durable, quiet>>

DeleteSession(s) ==
    /\ call[s].at = "idle"
    /\ HostReaches(s, "gone")
    /\ Emit(s, <<"session.deleted">>)
    /\ UNCHANGED <<store, now, durable, quiet>>

Tick ==
    /\ now < MaxTime
    /\ now' = now + 1
    /\ quiet' = [s \in Sessions |-> FALSE]
    /\ UNCHANGED <<store, durable, call, events>>

----------------------------------------------------------------------------
(* prepareVccOpenCodeCompaction *)

\* The first page is read.  The collection is incomplete when a later page fails or
\* is malformed, or a page, byte or docket limit is hit.
CollectSession(s, next) ==
    /\ \E complete \in {TRUE, ~Faults} :
        call' = [call EXCEPT ![s].at = next,
                             ![s].loaded = [complete |-> complete, revision |-> durable[s].revision]]
    /\ IF call'[s].loaded.complete THEN UNCHANGED quiet ELSE Disturb(s)
    /\ UNCHANGED <<store, now, durable, events>>

\* vccAttemptMetadata; target is 0 for pending-text-complete.
NewAttempt(source, target) ==
    [createdAt |-> now, compactionTargetID |-> target, summaryMessageID |-> 0, textPartID |-> 0,
     sourceComplete |-> source.complete, manifest |-> source.revision,
     outcome |-> IF source.complete THEN "candidate_ready" ELSE "source_incomplete",
     validation |-> "pending"]

----------------------------------------------------------------------------
(* experimental.session.compacting *)

CompactingCollect(s) ==
    /\ call[s].at = "compacting"
    /\ CollectSession(s, "compacting_rest")

\* newestOpenCodeCompactionParent finds the parent of this compaction, unless the
\* very first page failed.
CompactingStore(s) ==
    /\ call[s].at = "compacting_rest"
    /\ \E found \in {TRUE, call[s].loaded.complete} :
        store' = Set(store, s, NewAttempt(call[s].loaded, IF found THEN durable[s].compaction + 1 ELSE 0))
    /\ HostReaches(s, "summary")
    /\ UNCHANGED <<now, durable, events, quiet>>

CompactingFail(s) ==
    /\ Faults
    /\ call[s].at \in {"compacting", "compacting_rest"}
    /\ store' = Delete(store, s)
    /\ HostReaches(s, "summary")
    /\ Disturb(s)
    /\ UNCHANGED <<now, durable, events>>

----------------------------------------------------------------------------
(* experimental.text.complete: handleVccTextComplete *)

Part(s) == Len(durable[s].parts) + 1

\* The message the part belongs to: an ordinary message has no compaction's number.
Message(s) == IF call[s].ordinary THEN 0 ELSE durable[s].compaction

\* The hook returns; the host stores output.text and goes on.
Return(s, text) ==
    IF call[s].ordinary
    THEN /\ durable' = [durable EXCEPT ![s].turn = text]
         /\ HostReaches(s, "turn")
    ELSE /\ durable' = [durable EXCEPT ![s].parts = Append(@, text)]
         /\ HostReaches(s, "stream")

\* Mutant: the part the attempt is bound to is not compared.
BoundElsewhereByMessage(s, a) == a.summaryMessageID # 0 /\ a.summaryMessageID # Message(s)

\* The attempt belongs to another part or another message.
BoundElsewhere(s, a) ==
    \/ a.textPartID # 0 /\ (a.textPartID # Part(s) \/ a.summaryMessageID # Message(s))
    \/ a.summaryMessageID # 0 /\ a.summaryMessageID # Message(s)

\* From the call to the first await.
TextStart(s) ==
    /\ call[s].at = "text"
    /\ LET st == CleanupExpired(store, now)
           active == st.map[s]
           ours   == active # NoAttempt /\ ~BoundElsewhere(s, active)
       IN /\ store' = st
          /\ \/ /\ ~ours
                /\ Return(s, Plain("blank"))
             \/ /\ ours
                /\ call' = [call EXCEPT ![s].at = "text_target", ![s].active = active]
                /\ UNCHANGED durable
    /\ UNCHANGED <<now, events, quiet>>

Bind(s, a) ==
    IF a.summaryMessageID # 0 THEN a
    ELSE [a EXCEPT !.compactionTargetID = durable[s].compaction,
                   !.summaryMessageID = durable[s].compaction, !.textPartID = Part(s)]

\* The message and its parent are loaded: a text of another kind of message, or of a
\* compaction that is not the target, is blanked; otherwise the attempt is bound.
TextTarget(s) ==
    /\ call[s].at = "text_target"
    /\ LET active  == call[s].active
           bound   == Bind(s, active)
           foreign == \/ call[s].ordinary
                      \/ /\ active.summaryMessageID = 0
                         /\ active.compactionTargetID \notin {0, durable[s].compaction}
           st      == IF active.summaryMessageID = 0 THEN Set(store, s, bound) ELSE store
       IN \/ /\ foreign
             /\ Return(s, Plain("blank"))
             /\ UNCHANGED store
          \/ /\ ~foreign
             /\ call[s].raw = "blank"
             /\ store' = Set(st, s, [bound EXCEPT !.outcome = "no_text", !.validation = "invalid"])
             /\ Return(s, Plain("blank"))
          \/ /\ ~foreign
             /\ call[s].raw # "blank"
             /\ store' = st
             /\ call' = [call EXCEPT ![s].at = "text_prepare", ![s].active = bound]
             /\ UNCHANGED durable
    /\ UNCHANGED <<now, events, quiet>>

TextCollect(s) ==
    /\ call[s].at = "text_prepare"
    /\ CollectSession(s, "text_rest")

\* The source is the one the attempt was prepared from and its candidate unpatched.
SameCompleteSource(a, source) ==
    /\ a.sourceComplete
    /\ source.complete
    /\ source.revision = a.manifest
    /\ a.validation # "provider"

Degraded(a) ==
    [a EXCEPT !.sourceComplete = FALSE, !.outcome = "degraded_summary", !.validation = "invalid"]

Succeeded(a, accepted) ==
    [a EXCEPT !.outcome = "vcc_success", !.validation = IF accepted THEN "provider" ELSE "fallback"]

\* No ledger, or a summary that does not fit: the text is blank, the attempt deleted.
TextUnrendered(s) ==
    /\ Faults
    /\ call[s].at = "text_rest"
    /\ store' = Delete(store, s)
    /\ Return(s, Plain("blank"))
    /\ Disturb(s)
    /\ UNCHANGED <<now, events>>

TextDegraded(s) ==
    /\ call[s].at = "text_rest"
    /\ ~SameCompleteSource(call[s].active, call[s].loaded)
    /\ store' = Set(store, s, Degraded(call[s].active))
    /\ \E fits \in {TRUE, ~Faults} : Return(s, Plain(IF fits THEN "degraded" ELSE "blank"))
    /\ UNCHANGED <<now, events, quiet>>

\* A patch is validated against the candidate; anything else falls back to it.
TextSucceeded(s) ==
    /\ call[s].at = "text_rest"
    /\ SameCompleteSource(call[s].active, call[s].loaded)
    /\ LET accepted == call[s].raw = "patch" IN
       /\ store' = Set(store, s, Succeeded(call[s].active, accepted))
       /\ Return(s, Projection(call[s].loaded.revision, accepted))
    /\ UNCHANGED <<now, events, quiet>>

\* The recover callback.
TextFail(s) ==
    /\ Faults
    /\ call[s].at \in {"text_target", "text_prepare", "text_rest"}
    /\ store' = Delete(store, s)
    /\ Return(s, Plain("blank"))
    /\ Disturb(s)
    /\ UNCHANGED <<now, events>>

----------------------------------------------------------------------------
(* experimental.compaction.autocontinue: handleVccAutoContinue *)

Verdict(s, enabled) == call' = [call EXCEPT ![s].at = "verdict", ![s].enabled = enabled]

Continuable(a) ==
    /\ a # NoAttempt
    /\ a.outcome = "vcc_success"
    /\ a.validation # "invalid"
    /\ a.summaryMessageID # 0
    /\ a.textPartID # 0
    /\ a.sourceComplete

\* From the call to the first await.
AutoStart(s) ==
    /\ call[s].at = "auto"
    /\ LET st == CleanupExpired(store, now)
           active == st.map[s]
       IN /\ store' = st
          /\ IF Continuable(active)
             THEN call' = [call EXCEPT ![s].at = "auto_load", ![s].active = active]
             ELSE Verdict(s, FALSE)
    /\ UNCHANGED <<now, durable, events, quiet>>

AutoLoad(s) ==
    /\ call[s].at = "auto_load"
    /\ LET active == call[s].active
           found  == /\ active.summaryMessageID = durable[s].compaction
                     /\ active.textPartID \in DOMAIN durable[s].parts
                     /\ durable[s].parts[active.textPartID].kind # "blank"
       IN IF found THEN call' = [call EXCEPT ![s].at = "auto_prepare"] ELSE Verdict(s, FALSE)
    /\ UNCHANGED <<store, now, durable, events, quiet>>

AutoCollect(s) ==
    /\ call[s].at = "auto_prepare"
    /\ CollectSession(s, "auto_rest")

\* Mutant: the source is not compared with the one the attempt was prepared from.
AutoFinishUncompared(s) ==
    /\ call[s].at = "auto_rest"
    /\ LET active == call[s].active IN
       Verdict(s, durable[s].parts[active.textPartID] =
                      Projection(active.manifest, active.validation = "provider"))
    /\ store' = Delete(store, s)
    /\ UNCHANGED <<now, durable, events, quiet>>

\* Mutant: the digest of the patch is expected to be null.
AutoFinishUnpatched(s) ==
    /\ call[s].at = "auto_rest"
    /\ LET active == call[s].active IN
       Verdict(s, /\ call[s].loaded = [complete |-> TRUE, revision |-> active.manifest]
                  /\ durable[s].parts[active.textPartID] = Projection(active.manifest, FALSE))
    /\ store' = Delete(store, s)
    /\ UNCHANGED <<now, durable, events, quiet>>

AutoFinish(s) ==
    /\ call[s].at = "auto_rest"
    /\ LET active == call[s].active IN
       Verdict(s, /\ call[s].loaded = [complete |-> TRUE, revision |-> active.manifest]
                  /\ durable[s].parts[active.textPartID] =
                         Projection(active.manifest, active.validation = "provider"))
    /\ store' = Delete(store, s)
    /\ UNCHANGED <<now, durable, events, quiet>>

\* The recover callback deletes only the attempt of the other store.
AutoFail(s) ==
    /\ Faults
    /\ call[s].at \in {"auto_load", "auto_prepare", "auto_rest"}
    /\ Verdict(s, FALSE)
    /\ Disturb(s)
    /\ UNCHANGED <<store, now, durable, events>>

----------------------------------------------------------------------------
(* event *)

\* Every event of a session ends its attempt.
DeliverEvent(s) ==
    /\ events[s] # <<>>
    /\ events' = [events EXCEPT ![s] = Tail(@)]
    /\ store' = Delete(store, s)
    /\ Disturb(s)
    /\ UNCHANGED <<now, durable, call>>

\* session.error without a session.
DeliverOtherEvent ==
    /\ store' = CleanupExpired(store, now)
    /\ UNCHANGED <<now, durable, call, events, quiet>>

----------------------------------------------------------------------------
(* Specification *)

HostStep(s) ==
    \/ Prompt(s) \/ HistoryMoves(s) \/ StreamTurn(s) \/ FinishTurn(s) \/ BeginCompaction(s)
    \/ WriteSummary(s) \/ CancelCompaction(s) \/ StreamText(s) \/ FinishSummary(s)
    \/ FailSummary(s) \/ ActOnVerdict(s) \/ DeleteSession(s)

HookStep(s) ==
    \/ CompactingCollect(s) \/ CompactingStore(s) \/ CompactingFail(s)
    \/ TextStart(s) \/ TextTarget(s) \/ TextCollect(s)
    \/ TextUnrendered(s) \/ TextDegraded(s) \/ TextSucceeded(s) \/ TextFail(s)
    \/ AutoStart(s) \/ AutoLoad(s) \/ AutoCollect(s) \/ AutoFinish(s) \/ AutoFail(s)

SessionStep(s) == HostStep(s) \/ HookStep(s) \/ DeliverEvent(s)

VccNext ==
    \/ \E s \in Sessions : SessionStep(s)
    \/ DeliverOtherEvent
    \/ Tick

VccSpec == VccInit /\ [][VccNext]_vccvars

----------------------------------------------------------------------------
(* Properties *)

\* Types, and what set() demands of every attempt it is given (state.ts:142-148): a
\* copy that did not satisfy it would make the hook throw.
VccTypeOK ==
    /\ store \in Stores(VccAttempt)
    /\ \A s \in Live(store) : Consistent(store.map[s])
    /\ now \in Nat
    /\ durable \in [Sessions -> Durable]
    /\ call \in [Sessions -> Call]
    /\ events \in [Sessions -> Seq(Event)]
    /\ quiet \in [Sessions -> BOOLEAN]

\* Auto-continuation fails closed (server.ts:643-691): it is enabled only on a summary
\* with one text, a projection of the whole history as it was when the host asked,
\* whatever events deleted and stale copies put back meanwhile.
VccContinueSound ==
    \A s \in Sessions :
        call[s].at = "verdict" /\ call[s].enabled =>
            \E i \in DOMAIN durable[s].parts :
                /\ durable[s].parts[i].kind = "success"
                /\ durable[s].parts[i].revision = call[s].asked
                /\ \A j \in DOMAIN durable[s].parts : j # i => durable[s].parts[j].kind = "blank"

\* A summary message gets at most one text (server.ts:487-626), also when events,
\* failures or expiry end the attempt between two of its parts.
OneSummaryText ==
    \A s \in Sessions :
        Cardinality({i \in DOMAIN durable[s].parts : durable[s].parts[i].kind # "blank"}) <= 1

\* When nothing fails, no message and no event arrives during the compaction, a response
\* with text in its first part continues, patched or not (server.ts:591-626, 674-690).
QuietContinues ==
    \A s \in Sessions :
        /\ call[s].at = "verdict"
        /\ durable[s].spoke
        /\ quiet[s]
        => call[s].enabled

\* Normal turns are left unchanged (README.md:282), and a text completion of an
\* ordinary assistant message is ignored (test/server.test.ts:1805).
OrdinaryTextKept == \A s \in Sessions : durable[s].turn.kind = "raw"
=============================================================================
