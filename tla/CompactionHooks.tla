-------------------------- MODULE CompactionHooks --------------------------
(***************************************************************************)
(* The OpenCode V1 plugin hooks of src/src/server.ts with vcc_mode=off:    *)
(* experimental.session.compacting, experimental.chat.messages.transform,  *)
(* experimental.text.complete, experimental.compaction.autocontinue and    *)
(* event, over the shared AttemptStore.                                    *)
(*                                                                         *)
(* The host (OpenCode) is external.  For one session it calls the hooks in *)
(* sequence and awaits each; its event bus calls the event hook in order   *)
(* of publication but at any later time, also between two awaits of a      *)
(* running hook, and the hooks of other sessions interleave over the same  *)
(* store.  Each action is the code that runs between two awaits.           *)
(*                                                                         *)
(* What a recovery ledger says is abstracted to what decides whether two   *)
(* ledgers are equal: the revision of the durable history and todos it was *)
(* built from, and the prior compaction whose ledger it chains.            *)
(***************************************************************************)
EXTENDS AttemptStore, Sequences

CONSTANTS
    DedicatedModel, \* TRUE when options.model is not SELECTED_MODEL
    PromptEvents,   \* TRUE when the bus delivers an event before the host goes on
    Faults,         \* TRUE when client calls, the model and the host may fail
    MaxTime,        \* bound: ticks of Date.now()
    MaxRevision,    \* bound, per session: changes of its history and todos
    MaxCompactions, \* bound, per session: summary messages
    MaxParts,       \* bound: text parts of one summary message
    MaxEvents,      \* bound: undelivered events of one session
    MaxRestarts     \* bound: restarts of the host process

ASSUME HooksAssumption ==
    /\ DedicatedModel \in BOOLEAN
    /\ PromptEvents \in BOOLEAN
    /\ Faults \in BOOLEAN
    /\ MaxTime \in Nat
    /\ MaxRevision \in [Sessions -> Nat]
    /\ MaxCompactions \in [Sessions -> Nat]
    /\ MaxParts \in Nat
    /\ MaxEvents \in Nat
    /\ MaxRestarts \in Nat

VARIABLES
    store,      \* attempts, the AttemptStore of this plugin instance
    now,        \* Date.now()
    durable,    \* durable[s]: the session as the host stores it
    call,       \* call[s]: where the host is, with the locals of the hook it awaits
    events,     \* events[s]: events the bus has still to deliver
    sent,       \* sent[s]: what the last transform hook let through to the model
    recovered,  \* history: whether a model turn got recovery for the newest summary
    restarts    \* history: restarts so far

vars == <<store, now, durable, call, events, sent, recovered, restarts>>

----------------------------------------------------------------------------
(* Values *)

Ledger == [revision : Nat, prior : Nat]
NoLedger == [revision |-> 0, prior |-> 0]

\* A text part: blank, prose that is no plugin summary, a JSON projection bound
\* to a ledger, or a plugin-valid summary that ends with a ledger's block.
Text == [kind : {"blank", "prose", "json", "plugin"}, ledger : Ledger]
Blank == [kind |-> "blank", ledger |-> NoLedger]
Prose == [kind |-> "prose", ledger |-> NoLedger]
Json(l) == [kind |-> "json", ledger |-> l]
PluginText(l) == [kind |-> "plugin", ledger |-> l]

\* Compactions of a session are numbered: the number stands for the ID of the
\* compaction parent and of its summary message.  0 is an ID that is not set.
Validation == {"pending", "provider", "fallback", "invalid"}
Attempt ==
    [createdAt : Nat, ledger : Ledger, summaryMessageID : Nat, textPartID : Nat,
     validation : Validation, recoveryUserID : BOOLEAN, recoveryComplete : BOOLEAN]

\* Map.get tells a key that is not there from every attempt.
ASSUME AttemptAssumption == NoAttempt \notin Attempt

\* revision: changes of messages and todos.  compaction: the newest one whose
\* summary message exists; parts and error are that message's, later says that an
\* ordinary user message follows it.  prior: the newest plugin-valid one before it.
Durable ==
    [revision : Nat, compaction : Nat, prior : Nat, parts : Seq(Text),
     error : BOOLEAN, later : BOOLEAN]

\* Points of the host between hooks, and points of a hook between its awaits.
HostPoints == {"idle", "turn", "request", "model", "summary", "stream", "verdict", "gone"}
HookPoints ==
    {"compacting", "compacting_prior", "transform_load", "transform_prior", "transform_replay",
     "text", "text_prior", "auto", "auto_prior"}

\* loaded: the ledger of the data the hook loaded; raw: the text a part was
\* streamed with; active: the attempt object the hook holds; compacting: the
\* transform serves a compaction request; born: the ledger of the session when
\* the newest compaction began; enabled: what autocontinue returned.
Call ==
    [at : HostPoints \cup HookPoints, loaded : Ledger, raw : Text,
     active : Attempt \cup {NoAttempt}, compacting : BOOLEAN, born : Ledger, enabled : BOOLEAN]

Event == {"session.compacted", "session.idle", "session.error", "session.deleted"}

Sent == [history : {"unchanged", "sanitized", "recovered", "failed"}, ledger : Ledger]

\* none: no model turn got recovery for the newest summary; turn: one did;
\* done: the host ended the loop of that turn normally.  A failure of the turn or
\* of a hook starts over.
Recovered == {"none", "turn", "done"}

----------------------------------------------------------------------------
(* Pure parts of the hooks *)

\* summaryText joins the text parts: prose or a second summary next to a plugin
\* summary makes the whole invalid, blank parts do not.
Valid(parts) ==
    LET spoken == {i \in DOMAIN parts : parts[i].kind # "blank"} IN
    \E i \in spoken : spoken = {i} /\ parts[i].kind = "plugin"

\* parsePluginLedger: the ledger whose block the text carries.
SummaryLedger(parts) == parts[CHOOSE i \in DOMAIN parts : parts[i].kind = "plugin"].ledger

\* The newest plugin-valid summary, with the newest summary message excluded or not.
NewestPrior(d, excludeNewest) ==
    IF ~excludeNewest /\ d.compaction > 0 /\ Valid(d.parts) THEN d.compaction ELSE d.prior

LedgerOf(d, excludeNewest) == [revision |-> d.revision, prior |-> NewestPrior(d, excludeNewest)]

InvalidBeforeNewestUser(d) ==
    d.compaction > 0 /\ d.later /\ (d.error \/ ~Valid(d.parts))

NewAttempt(ledger, summary) ==
    [createdAt |-> now, ledger |-> ledger, summaryMessageID |-> summary, textPartID |-> 0,
     validation |-> "pending", recoveryUserID |-> FALSE, recoveryComplete |-> FALSE]

----------------------------------------------------------------------------
(* Initial state *)

EmptySession ==
    [revision |-> 0, compaction |-> 0, prior |-> 0, parts |-> <<>>, error |-> FALSE, later |-> FALSE]

IdleCall ==
    [at |-> "idle", loaded |-> NoLedger, raw |-> Blank, active |-> NoAttempt,
     compacting |-> FALSE, born |-> NoLedger, enabled |-> FALSE]

NothingSent == [history |-> "unchanged", ledger |-> NoLedger]

Init ==
    /\ store = EmptyStore
    /\ now = 0
    /\ durable = [s \in Sessions |-> EmptySession]
    /\ call = [s \in Sessions |-> IdleCall]
    /\ events = [s \in Sessions |-> <<>>]
    /\ sent = [s \in Sessions |-> NothingSent]
    /\ recovered = [s \in Sessions |-> "none"]
    /\ restarts = 0

\* The host goes on at point p; the locals of the hook that returned are gone.
Goto(s, p) == call' = [call EXCEPT ![s] = [IdleCall EXCEPT !.at = p, !.born = call[s].born]]

Emit(s, published) ==
    /\ Len(events[s]) + Len(published) <= MaxEvents
    /\ events' = [events EXCEPT ![s] = @ \o published]

----------------------------------------------------------------------------
(* The host (external): turns, compactions, events *)

HostAt(s, points) ==
    /\ call[s].at \in points
    /\ PromptEvents => events[s] = <<>>

\* A user prompt is stored and the loop starts.
Prompt(s) ==
    /\ HostAt(s, {"idle"})
    /\ durable[s].revision < MaxRevision[s]
    /\ durable' = [durable EXCEPT ![s].revision = @ + 1, ![s].later = durable[s].compaction > 0]
    /\ Goto(s, "turn")
    /\ UNCHANGED <<store, now, events, sent, recovered, restarts>>

\* While hooks run, a todo changes or a queued user message is stored.
HistoryMoves(s) ==
    /\ call[s].at \notin {"idle", "gone"}
    /\ durable[s].revision < MaxRevision[s]
    /\ \E message \in BOOLEAN :
        durable' = [durable EXCEPT ![s].revision = @ + 1,
                                   ![s].later = @ \/ (message /\ durable[s].compaction > 0)]
    /\ UNCHANGED <<store, now, call, events, sent, recovered, restarts>>

\* A compaction starts: manually, before a turn that would overflow, or after it.
BeginCompaction(s) ==
    /\ HostAt(s, {"idle", "turn", "model"})
    /\ durable[s].compaction < MaxCompactions[s]
    /\ call' = [call EXCEPT ![s].at = "compacting", ![s].born = LedgerOf(durable[s], FALSE)]
    /\ UNCHANGED <<store, now, durable, events, sent, recovered, restarts>>

\* The model turn ends in a tool call (the loop goes on) or ends the loop.
FinishTurn(s) ==
    /\ HostAt(s, {"model"})
    /\ \/ /\ Goto(s, "turn")
          /\ UNCHANGED <<events, recovered>>
       \/ /\ Goto(s, "idle")
          /\ Emit(s, <<"session.idle">>)
          /\ recovered' = [recovered EXCEPT ![s] = IF @ = "turn" THEN "done" ELSE @]
    /\ UNCHANGED <<store, now, durable, sent, restarts>>

\* The model turn fails, and the recovery it carried with it.
FailTurn(s) ==
    /\ Faults
    /\ HostAt(s, {"model"})
    /\ Goto(s, "idle")
    /\ Emit(s, <<"session.error", "session.idle">>)
    /\ recovered' = [recovered EXCEPT ![s] = "none"]
    /\ UNCHANGED <<store, now, durable, sent, restarts>>

\* The summary message is stored; the request to the compaction model is sent.
WriteSummary(s) ==
    /\ HostAt(s, {"summary"})
    /\ durable' = [durable EXCEPT
            ![s].compaction = @ + 1, ![s].prior = NewestPrior(durable[s], FALSE),
            ![s].parts = <<>>, ![s].error = FALSE, ![s].later = FALSE]
    /\ Goto(s, "stream")
    /\ recovered' = [recovered EXCEPT ![s] = "none"]
    /\ UNCHANGED <<store, now, events, sent, restarts>>

\* The compaction is cancelled before its summary message exists.
CancelCompaction(s) ==
    /\ Faults
    /\ HostAt(s, {"summary"})
    /\ Goto(s, "idle")
    /\ Emit(s, <<"session.idle">>)
    /\ UNCHANGED <<store, now, durable, sent, recovered, restarts>>

\* A text part of the summary is complete; the text hook is called with it.
StreamText(s) ==
    /\ HostAt(s, {"stream"})
    /\ Len(durable[s].parts) < MaxParts
    /\ \E raw \in {Prose, Json(call[s].born), PluginText(call[s].born), PluginText(NoLedger)} :
        call' = [call EXCEPT ![s].at = "text", ![s].raw = raw]
    /\ UNCHANGED <<store, now, durable, events, sent, recovered, restarts>>

\* The response ends well: a manual compaction stops, an overflow compaction
\* replays the user message; any other calls the autocontinue hook (AutoStart).
FinishSummary(s) ==
    /\ HostAt(s, {"stream"})
    /\ \/ /\ Goto(s, "idle")
          /\ Emit(s, <<"session.compacted", "session.idle">>)
          /\ UNCHANGED durable
       \/ /\ Goto(s, "turn")
          /\ Emit(s, <<"session.compacted">>)
          /\ durable' = [durable EXCEPT ![s].later = TRUE]
    /\ UNCHANGED <<store, now, sent, recovered, restarts>>

\* The response fails: the summary message keeps the error.
FailSummary(s) ==
    /\ Faults
    /\ HostAt(s, {"stream"})
    /\ durable' = [durable EXCEPT ![s].error = TRUE]
    /\ Goto(s, "idle")
    /\ Emit(s, <<"session.error", "session.idle">>)
    /\ UNCHANGED <<store, now, sent, recovered, restarts>>

\* The host acts on output.enabled: a synthetic continue message, or the end of the loop.
ActOnVerdict(s) ==
    /\ HostAt(s, {"verdict"})
    /\ IF call[s].enabled
       THEN /\ durable' = [durable EXCEPT ![s].later = TRUE]
            /\ Goto(s, "turn")
            /\ Emit(s, <<"session.compacted">>)
       ELSE /\ Goto(s, "idle")
            /\ Emit(s, <<"session.compacted", "session.idle">>)
            /\ UNCHANGED durable
    /\ UNCHANGED <<store, now, sent, recovered, restarts>>

DeleteSession(s) ==
    /\ HostAt(s, {"idle"})
    /\ Goto(s, "gone")
    /\ Emit(s, <<"session.deleted">>)
    /\ UNCHANGED <<store, now, durable, sent, recovered, restarts>>

Tick ==
    /\ now < MaxTime
    /\ now' = now + 1
    /\ UNCHANGED <<store, durable, call, events, sent, recovered, restarts>>

\* The host process dies and starts again: a new plugin instance, the same sessions.
Restart ==
    /\ restarts < MaxRestarts
    /\ restarts' = restarts + 1
    /\ store' = EmptyStore
    /\ call' = [s \in Sessions |-> IF call[s].at = "gone" THEN call[s] ELSE IdleCall]
    /\ events' = [s \in Sessions |-> <<>>]
    /\ sent' = [s \in Sessions |-> NothingSent]
    /\ recovered' = [s \in Sessions |-> "none"]
    /\ UNCHANGED <<now, durable>>

----------------------------------------------------------------------------
(* experimental.session.compacting *)

CompactingLoad(s) ==
    /\ call[s].at = "compacting"
    /\ call' = [call EXCEPT ![s].at = "compacting_prior", ![s].loaded = LedgerOf(durable[s], FALSE)]
    /\ UNCHANGED <<store, now, durable, events, sent, recovered, restarts>>

CompactingStore(s) ==
    /\ call[s].at = "compacting_prior"
    /\ store' = Set(store, s, NewAttempt(call[s].loaded, 0))
    /\ Goto(s, "request")
    /\ UNCHANGED <<now, durable, events, sent, recovered, restarts>>

\* Mutant: the recover callback leaves the attempt of the compaction before.
CompactingFailKeeps(s) ==
    /\ Faults
    /\ call[s].at \in {"compacting", "compacting_prior"}
    /\ Goto(s, "request")
    /\ recovered' = [recovered EXCEPT ![s] = "none"]
    /\ UNCHANGED <<store, now, durable, events, sent, restarts>>

\* The recover callback; the host goes on with its native prompt.
CompactingFail(s) ==
    /\ Faults
    /\ call[s].at \in {"compacting", "compacting_prior"}
    /\ store' = Delete(store, s)
    /\ Goto(s, "request")
    /\ recovered' = [recovered EXCEPT ![s] = "none"]
    /\ UNCHANGED <<now, durable, events, sent, restarts>>

----------------------------------------------------------------------------
(* experimental.chat.messages.transform *)

AfterTransform(compacting) == IF compacting THEN "summary" ELSE "model"

Let(s, history, ledger, compacting) ==
    /\ sent' = [sent EXCEPT ![s] = [history |-> history, ledger |-> ledger]]
    /\ Goto(s, AfterTransform(compacting))

\* An attempt without recovery in play: the clone is bounded unless the session's
\* own model compacts, to keep the provider's prompt cache.
PlainHistory == IF DedicatedModel THEN "sanitized" ELSE "unchanged"

\* From the call to the first await.  What sanitizeOverflowReplay may still do
\* when no attempt is left touches only the cloned replay message.
Transform(s) ==
    /\ HostAt(s, {"turn", "request"})
    /\ LET st         == CleanupExpired(store, now)
           attempt    == st.map[s]
           invalid    == InvalidBeforeNewestUser(durable[s])
           compacting == call[s].at = "request"
           Await(p)   == call' = [call EXCEPT ![s].at = p, ![s].active = attempt,
                                              ![s].compacting = compacting]
       IN \/ /\ attempt = NoAttempt
             /\ invalid
             /\ store' = st
             /\ Await("transform_load")
             /\ UNCHANGED sent
          \/ /\ attempt = NoAttempt
             /\ ~invalid
             /\ store' = st
             /\ Let(s, "unchanged", NoLedger, compacting)
          \/ /\ attempt # NoAttempt
             /\ attempt.summaryMessageID # 0
             /\ ~invalid
             /\ store' = Delete(st, s)
             /\ Let(s, "unchanged", NoLedger, compacting)
          \/ /\ attempt # NoAttempt
             /\ attempt.recoveryComplete
             /\ invalid \/ attempt.summaryMessageID = 0
             /\ store' = st
             /\ Let(s, "unchanged", NoLedger, compacting)
          \/ /\ attempt # NoAttempt
             /\ ~attempt.recoveryComplete
             /\ invalid
             /\ store' = st
             /\ Await("transform_replay")
             /\ UNCHANGED sent
          \/ /\ attempt # NoAttempt
             /\ ~attempt.recoveryComplete
             /\ ~invalid
             /\ attempt.summaryMessageID = 0
             /\ store' = st
             /\ Let(s, PlainHistory, NoLedger, compacting)
    /\ UNCHANGED <<now, durable, events, recovered, restarts>>

\* rebuildAttempt: the session is loaded, then older pages are searched.
TransformLoad(s) ==
    /\ call[s].at = "transform_load"
    /\ call' = [call EXCEPT ![s].at = "transform_prior", ![s].loaded = LedgerOf(durable[s], TRUE)]
    /\ UNCHANGED <<store, now, durable, events, sent, recovered, restarts>>

\* Mutant: the attempt is bound to the summary only in the store.
TransformRebuiltUnbound(s) ==
    /\ call[s].at = "transform_prior"
    /\ store' = Set(store, s, NewAttempt(call[s].loaded, durable[s].compaction))
    /\ call' = [call EXCEPT ![s].at = "transform_replay", ![s].active = NewAttempt(call[s].loaded, 0)]
    /\ UNCHANGED <<now, durable, events, sent, recovered, restarts>>

TransformRebuilt(s) ==
    /\ call[s].at = "transform_prior"
    /\ LET attempt == NewAttempt(call[s].loaded, durable[s].compaction) IN
       /\ store' = Set(store, s, attempt)
       /\ call' = [call EXCEPT ![s].at = "transform_replay", ![s].active = attempt]
    /\ UNCHANGED <<now, durable, events, sent, recovered, restarts>>

\* isOverflowReplay has answered: the recovery part joins the newest user message.
\* The attempt is the object read before the await; when the store has dropped it
\* meanwhile, the assignment to recoveryUserID is to an object nobody else holds.
TransformRecover(s) ==
    /\ call[s].at = "transform_replay"
    /\ Let(s, "recovered", call[s].active.ledger, call[s].compacting)
    /\ store' = IF store.map[s] = NoAttempt THEN store
                ELSE Mutate(store, s, [store.map[s] EXCEPT !.recoveryUserID = TRUE])
    /\ recovered' = IF call[s].compacting THEN recovered ELSE [recovered EXCEPT ![s] = "turn"]
    /\ UNCHANGED <<now, durable, events, restarts>>

TransformFail(s) ==
    /\ Faults
    /\ call[s].at \in {"transform_load", "transform_prior", "transform_replay"}
    /\ store' = Delete(store, s)
    /\ Let(s, "failed", NoLedger, call[s].compacting)
    /\ recovered' = [recovered EXCEPT ![s] = "none"]
    /\ UNCHANGED <<now, durable, events, restarts>>

----------------------------------------------------------------------------
(* experimental.text.complete *)

\* The part that is being completed.
Part(s) == Len(durable[s].parts) + 1

StoreText(s, text) == durable' = [durable EXCEPT ![s].parts = Append(@, text)]

BelongsElsewhere(s, attempt) ==
    attempt.summaryMessageID # 0 /\ attempt.summaryMessageID # durable[s].compaction

\* Mutant: the verdict is the kind of text.
JudgeByKind(raw, ledger) == IF raw \in {Json(ledger), PluginText(ledger)} THEN raw.kind ELSE "fallback"

\* How the text of a part validates against the attempt's ledger.
Judge(raw, ledger) == IF raw \in {Json(ledger), PluginText(ledger)} THEN "provider" ELSE "fallback"

\* Mutant: every part of the response gets the summary.
CompleteEveryPart(s, st, attempt) ==
    /\ store' = Mutate(st, s, [attempt EXCEPT
            !.textPartID = Part(s), !.summaryMessageID = durable[s].compaction,
            !.validation = Judge(call[s].raw, attempt.ledger)])
    /\ StoreText(s, PluginText(attempt.ledger))

\* The synchronous rest of the hook, with the attempt in hand.
Complete(s, st, attempt) ==
    IF attempt.textPartID # 0 /\ attempt.textPartID # Part(s)
    THEN /\ store' = st
         /\ StoreText(s, Blank)
    ELSE /\ store' = Mutate(st, s, [attempt EXCEPT
                !.textPartID = Part(s), !.summaryMessageID = durable[s].compaction,
                !.validation = Judge(call[s].raw, attempt.ledger)])
         /\ StoreText(s, PluginText(attempt.ledger))

\* The message and the session are loaded; the attempt is looked up only now.
TextLoad(s) ==
    /\ call[s].at = "text"
    /\ LET st == CleanupExpired(store, now)
           attempt == st.map[s]
       IN IF attempt = NoAttempt \/ BelongsElsewhere(s, attempt)
          THEN /\ store' = st
               /\ call' = [call EXCEPT ![s].at = "text_prior", ![s].loaded = LedgerOf(durable[s], TRUE)]
               /\ UNCHANGED durable
          ELSE /\ Complete(s, st, attempt)
               /\ Goto(s, "stream")
    /\ UNCHANGED <<now, events, sent, recovered, restarts>>

\* rebuildAttempt has searched the older pages.
TextRebuilt(s) ==
    /\ call[s].at = "text_prior"
    /\ LET attempt == NewAttempt(call[s].loaded, durable[s].compaction) IN
       Complete(s, Set(store, s, attempt), attempt)
    /\ Goto(s, "stream")
    /\ UNCHANGED <<now, events, sent, recovered, restarts>>

\* The attempt a rebuild leaves when the fallback does not fit.
UnfitAttempt(s) ==
    [NewAttempt(call[s].loaded, durable[s].compaction) EXCEPT
        !.textPartID = Part(s), !.validation = "invalid"]
\* It was stored and bound to the part before.  The host stores the text as the model wrote it.
TextUnfit(s) ==
    /\ Faults
    /\ call[s].at = "text_prior"
    /\ store' = Set(store, s, UnfitAttempt(s))
    /\ StoreText(s, call[s].raw)
    /\ Goto(s, "stream")
    /\ UNCHANGED <<now, events, sent, recovered, restarts>>

\* A client call fails, or (bound) the fallback does not fit after the stored attempt was
\* bound to the part.  The host stores the text as the model wrote it.
TextFail(s) ==
    /\ Faults
    /\ call[s].at \in {"text", "text_prior"}
    /\ LET st      == CleanupExpired(store, now)
           attempt == st.map[s]
       IN \E bound \in BOOLEAN :
          /\ bound => /\ call[s].at = "text"
                      /\ attempt # NoAttempt
                      /\ ~BelongsElsewhere(s, attempt)
                      /\ attempt.textPartID \in {0, Part(s)}
          /\ store' = IF attempt = NoAttempt THEN st
                      ELSE Mutate(st, s, [attempt EXCEPT
                             !.summaryMessageID = durable[s].compaction, !.validation = "invalid",
                             !.textPartID = IF bound THEN Part(s) ELSE @])
    /\ StoreText(s, call[s].raw)
    /\ Goto(s, "stream")
    /\ UNCHANGED <<now, events, sent, recovered, restarts>>

----------------------------------------------------------------------------
(* experimental.compaction.autocontinue *)

\* From the call to the first await: the attempt is read before the session is loaded.
AutoStart(s) ==
    /\ HostAt(s, {"stream"})
    /\ LET st == CleanupExpired(store, now) IN
       /\ store' = st
       /\ call' = [call EXCEPT ![s].at = "auto", ![s].active = st.map[s]]
    /\ UNCHANGED <<now, durable, events, sent, recovered, restarts>>

AutoLoad(s) ==
    /\ call[s].at = "auto"
    /\ LET active  == call[s].active
           refused == /\ active # NoAttempt
                      /\ active.summaryMessageID = durable[s].compaction
                      /\ active.validation = "invalid"
       IN IF ~refused /\ Valid(durable[s].parts)
          THEN /\ call' = [call EXCEPT ![s].at = "auto_prior", ![s].active = NoAttempt,
                                       ![s].loaded = LedgerOf(durable[s], TRUE)]
               /\ UNCHANGED store
          ELSE /\ Goto(s, "verdict")
               /\ store' = Delete(store, s)
    /\ UNCHANGED <<now, durable, events, sent, recovered, restarts>>

\* Mutant: a plugin-valid summary continues whatever ledger it carries.
AutoTrusting(s) ==
    /\ call[s].at = "auto_prior"
    /\ call' = [call EXCEPT ![s].at = "verdict", ![s].enabled = TRUE]
    /\ store' = Delete(store, s)
    /\ UNCHANGED <<now, durable, events, sent, recovered, restarts>>

AutoRebuilt(s) ==
    /\ call[s].at = "auto_prior"
    /\ call' = [call EXCEPT ![s].at = "verdict",
                            ![s].enabled = SummaryLedger(durable[s].parts) = call[s].loaded]
    /\ store' = Delete(store, s)
    /\ UNCHANGED <<now, durable, events, sent, recovered, restarts>>

AutoFail(s) ==
    /\ Faults
    /\ call[s].at \in {"auto", "auto_prior"}
    /\ Goto(s, "verdict")
    /\ store' = Delete(store, s)
    /\ UNCHANGED <<now, durable, events, sent, recovered, restarts>>

----------------------------------------------------------------------------
(* event *)

\* Mutant: no tombstone.
AfterIdleDeletes(st, s) == Delete(st, s)

\* Mutant: an attempt that gave no recovery outlives its turn.
AfterIdleKeeps(st, s) ==
    IF st.map[s] # NoAttempt /\ st.map[s].recoveryUserID
    THEN Mutate(st, s, [st.map[s] EXCEPT !.recoveryComplete = TRUE])
    ELSE st

\* An attempt that gave recovery to a user turn stays, as a tombstone.
AfterIdle(st, s) ==
    LET attempt == st.map[s] IN
    IF attempt # NoAttempt /\ attempt.recoveryUserID
    THEN Mutate(st, s, [attempt EXCEPT !.recoveryComplete = TRUE])
    ELSE Delete(st, s)

DeliverEvent(s) ==
    /\ events[s] # <<>>
    /\ events' = [events EXCEPT ![s] = Tail(@)]
    /\ \/ /\ Head(events[s]) = "session.idle"
          /\ store' = AfterIdle(CleanupExpired(store, now), s)
       \/ /\ Head(events[s]) \in {"session.compacted", "session.error", "session.deleted"}
          /\ store' = Delete(store, s)
    /\ UNCHANGED <<now, durable, call, sent, recovered, restarts>>

\* An error event without a session, or any other event.
DeliverOtherEvent ==
    /\ store' = CleanupExpired(store, now)
    /\ UNCHANGED <<now, durable, call, events, sent, recovered, restarts>>

----------------------------------------------------------------------------
(* Specification *)

HostStep(s) ==
    \/ Prompt(s) \/ HistoryMoves(s) \/ BeginCompaction(s) \/ FinishTurn(s) \/ FailTurn(s)
    \/ WriteSummary(s) \/ CancelCompaction(s) \/ StreamText(s) \/ FinishSummary(s)
    \/ FailSummary(s) \/ ActOnVerdict(s) \/ DeleteSession(s)

HookStep(s) ==
    \/ CompactingLoad(s) \/ CompactingStore(s) \/ CompactingFail(s)
    \/ Transform(s) \/ TransformLoad(s) \/ TransformRebuilt(s) \/ TransformRecover(s) \/ TransformFail(s)
    \/ TextLoad(s) \/ TextRebuilt(s) \/ TextUnfit(s) \/ TextFail(s)
    \/ AutoStart(s) \/ AutoLoad(s) \/ AutoRebuilt(s) \/ AutoFail(s)

Next ==
    \/ \E s \in Sessions : HostStep(s) \/ HookStep(s) \/ DeliverEvent(s)
    \/ DeliverOtherEvent
    \/ Tick
    \/ Restart

Spec == Init /\ [][Next]_vars

----------------------------------------------------------------------------
(* Properties *)

TypeOK ==
    /\ store \in Stores(Attempt)
    /\ now \in Nat
    /\ durable \in [Sessions -> Durable]
    /\ call \in [Sessions -> Call]
    /\ events \in [Sessions -> Seq(Event)]
    /\ sent \in [Sessions -> Sent]
    /\ recovered \in [Sessions -> Recovered]
    /\ restarts \in Nat

\* The attempt object a transform holds over an await is the one in the store, or
\* the store has dropped it (server.ts:222-261): no other hook put another there.
HeldAttemptIsStored ==
    \A s \in Sessions :
        call[s].at = "transform_replay" /\ store.map[s] # NoAttempt =>
            /\ store.map[s].createdAt = call[s].active.createdAt
            /\ store.map[s].ledger = call[s].active.ledger
            /\ store.map[s].summaryMessageID = call[s].active.summaryMessageID

\* Auto-continuation fails closed (server.ts:372-403): it is enabled only on a summary
\* message whose one nonblank text is a plugin summary, whatever the events, evictions
\* and failures before, and the ledger in it is not older than the compaction and
\* chains the summary before it, never itself.
AutoContinueSound ==
    \A s \in Sessions :
        call[s].at = "verdict" /\ call[s].enabled =>
            /\ Valid(durable[s].parts)
            /\ SummaryLedger(durable[s].parts).revision >= call[s].born.revision
            /\ SummaryLedger(durable[s].parts).prior = durable[s].prior

\* Recovery context is never that of an earlier compaction (server.ts:215-261): its
\* ledger was built after the newest compaction of the session began.
RecoveryLedgerFresh ==
    \A s \in Sessions :
        sent[s].history = "recovered" /\ call[s].at \in {"model", "summary"} =>
            /\ sent[s].ledger.revision >= call[s].born.revision
            /\ sent[s].ledger.prior <= durable[s].compaction

\* An attempt changes only by the hooks and events of its own session, but for
\* expiry, eviction at the cap and a restart (server.ts:405-453, state.ts:79-118).
AttemptsIsolated ==
    [][\A s \in Sessions :
         store'.map[s] # store.map[s] =>
            \/ call'[s] # call[s] \/ events'[s] # events[s] \/ restarts' # restarts
            \/ /\ store'.map[s] = NoAttempt
               /\ Expired(store.map[s], now) \/ Cardinality(Live(store')) >= MaxAttempts]_vars

\* A model turn after an invalid summary goes without recovery context only when an
\* earlier turn had it, or the hook failed (README.md:305: the plugin "can rebuild
\* recovery context on the next user turn").
RecoveryNotLost ==
    [][\A s \in Sessions :
         call'[s].at = "model" /\ call[s].at # "model" /\ InvalidBeforeNewestUser(durable[s])
           => sent'[s].history \in {"recovered", "failed"} \/ recovered[s] # "none"]_vars
=============================================================================
