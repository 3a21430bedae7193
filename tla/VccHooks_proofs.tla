--------------------------- MODULE VccHooks_proofs ---------------------------
(***************************************************************************)
(* Proofs about VccHooks: a summary has at most one text, a session only   *)
(* continues on a projection of the history it was asked about, and it     *)
(* does continue when nothing disturbs its compaction, for any number of   *)
(* sessions (that fit into the store, for the last), any cap and time to   *)
(* live, any faults and any order of the events.  And about VccSource: a   *)
(* collection has what did not change, a candidate depends on its messages *)
(* only and leaves nothing out that fits, and its handles are answered,    *)
(* for any page size and limits, however the session changes meanwhile.    *)
(***************************************************************************)
EXTENDS VccHooks, VccSource, AttemptStore_proofs, Listing_proofs

----------------------------------------------------------------------------
(* The invariant, of the durable session d, the call c and the attempt a in
   the store that belong to one session. *)

TextPoints == {"text", "text_target", "text_prepare", "text_rest"}
AutoPoints == {"auto", "auto_load", "auto_prepare", "auto_rest"}
\* The points at which a hook holds an attempt over an await.
Holding == {"text_target", "text_prepare", "text_rest", "auto_load", "auto_prepare", "auto_rest"}

\* The newest summary of the session is being written.
Summarizing(c) == c.at = "stream" \/ (c.at \in TextPoints /\ ~c.ordinary)

Written(d, i) == d.parts[i].kind # "blank"

\* An attempt as set() takes it, bound to a message and a part or to neither, not newer
\* than the history.
Sound(d, a) ==
    /\ Consistent(a) /\ (a.summaryMessageID = 0 <=> a.textPartID = 0)
    /\ a.manifest <= d.revision

\* When autocontinue is called, the attempt in the store is not newer than the history the
\* host asked about.
StoredSound(d, c, a) ==
    a # NoAttempt => Sound(d, a) /\ (c.at = "auto" => a.manifest <= c.asked)

\* The attempt the text hook holds is bound to the part it completes.
HeldSound(d, c) ==
    /\ c.at \in Holding => c.active \in VccAttempt /\ Sound(d, c.active)
    /\ c.at = "text_target" => c.active.textPartID \in {0, Len(d.parts) + 1}
    /\ c.at \in {"text_prepare", "text_rest"} =>
         c.active.textPartID = Len(d.parts) + 1 /\ ~c.ordinary
    /\ c.loaded.revision <= d.revision

\* A summary with a text is written only with the attempt bound to one of its parts or
\* gone, and it has none yet while the text hook holds an attempt.
OneText(d, c, a) ==
    /\ c.at = "stream" => ~c.ordinary
    /\ Summarizing(c) => d.compaction # 0
    /\ \A i, j \in DOMAIN d.parts : Written(d, i) /\ Written(d, j) => i = j
    /\ \A i \in DOMAIN d.parts :
         Written(d, i) /\ Summarizing(c) =>
            /\ c.at \in {"stream", "text"}
            /\ a # NoAttempt => a.textPartID \in 1..Len(d.parts)

\* Autocontinue holds an attempt from before the question and loads the history after it.
Continuing(d, c) ==
    /\ c.at \in AutoPoints => c.asked <= d.revision
    /\ c.at \in {"auto_load", "auto_prepare", "auto_rest"} => c.active.manifest <= c.asked
    /\ c.at \in {"auto_prepare", "auto_rest"} => c.active.textPartID \in DOMAIN d.parts
    /\ c.at = "auto_rest" => c.asked <= c.loaded.revision

\* VccContinueSound, of one session.
Continues(d, c) ==
    c.at = "verdict" /\ c.enabled =>
        \E i \in DOMAIN d.parts :
            /\ d.parts[i].kind = "success"
            /\ d.parts[i].revision = c.asked
            /\ \A j \in DOMAIN d.parts : j # i => d.parts[j].kind = "blank"

SessionInv(d, c, a) ==
    /\ StoredSound(d, c, a)
    /\ HeldSound(d, c)
    /\ OneText(d, c, a)
    /\ Continuing(d, c)
    /\ Continues(d, c)

VccInv ==
    /\ VccTypeOK
    /\ \A s \in Sessions : SessionInv(durable[s], call[s], store.map[s])

----------------------------------------------------------------------------
(* Values *)

LEMMA VccValues ==
    /\ NoSource \in Collected
    /\ IdleCall \in Call
    /\ EmptyStore \in Stores(VccAttempt)
    /\ \A k \in {"blank", "raw", "degraded", "success"} : Plain(k) \in Text /\ Plain(k).kind = k
    /\ \A r \in Nat, b \in BOOLEAN : Projection(r, b) \in Text
<1>1. NoSource \in Collected
  BY DEF NoSource, Collected
<1>2. IdleCall \in Call
  BY <1>1 DEF IdleCall, Call, HostPoints
<1>3. EmptyStore \in Stores(VccAttempt)
  BY DEF EmptyStore, Stores
<1>4. \A k \in {"blank", "raw", "degraded", "success"} : Plain(k) \in Text /\ Plain(k).kind = k
  BY DEF Plain, Text
<1>5. \A r \in Nat, b \in BOOLEAN : Projection(r, b) \in Text
  BY DEF Projection, Text
<1> QED BY <1>1, <1>2, <1>3, <1>4, <1>5

----------------------------------------------------------------------------
(* Steps of one session *)

\* An attempt can always be forgotten.
LEMMA Forgotten ==
    ASSUME NEW d, NEW c, NEW a, SessionInv(d, c, a)
    PROVE  SessionInv(d, c, NoAttempt)
BY DEF SessionInv, StoredSound, OneText

\* What a step of session s has to show.
LEMMA SessionKeeps ==
    ASSUME VccInv, NEW s \in Sessions,
           durable' \in [Sessions -> Durable], call' \in [Sessions -> Call],
           store' \in Stores(VccAttempt), now' \in Nat,
           events' \in [Sessions -> Seq(Event)], quiet' \in [Sessions -> BOOLEAN],
           \A t \in Sessions \ {s} :
               /\ durable'[t] = durable[t] /\ call'[t] = call[t]
               /\ store'.map[t] \in {store.map[t], NoAttempt},
           SessionInv(durable'[s], call'[s], store'.map[s])
    PROVE  VccInv'
<1>1. ASSUME NEW t \in Sessions
      PROVE  SessionInv(durable'[t], call'[t], store'.map[t])
  <2>1. CASE t = s
    BY <2>1
  <2>2. CASE t # s
    BY <2>2, Forgotten DEF VccInv
  <2> QED BY <2>1, <2>2
<1>2. \A t \in Sessions : store'.map[t] # NoAttempt => Consistent(store'.map[t])
  BY <1>1 DEF SessionInv, StoredSound, Sound
<1>3. VccTypeOK'
  BY <1>2 DEF VccTypeOK, Live
<1> QED BY <1>1, <1>3 DEF VccInv

\* The types of what belongs to one session.
LEMMA SessionTypes ==
    ASSUME VccInv, NEW s \in Sessions
    PROVE  /\ durable[s] \in Durable /\ call[s] \in Call
           /\ store.map[s] \in VccAttempt \cup {NoAttempt}
           /\ store \in Stores(VccAttempt)
           /\ SessionInv(durable[s], call[s], store.map[s])
BY DEF VccInv, VccTypeOK, Stores

LEMMA QuietTypes ==
    ASSUME VccInv, NEW s \in Sessions, Disturb(s)
    PROVE  quiet' \in [Sessions -> BOOLEAN]
BY DEF VccInv, VccTypeOK, Disturb

LEMMA EmitTypes ==
    ASSUME VccInv, NEW s \in Sessions, NEW published \in Seq(Event), Emit(s, published)
    PROVE  events' \in [Sessions -> Seq(Event)]
<1>1. events[s] \o published \in Seq(Event)
  BY DEF VccInv, VccTypeOK
<1> QED BY <1>1 DEF Emit, VccInv, VccTypeOK

LEMMA ReachTypes ==
    ASSUME VccInv, NEW s \in Sessions, NEW p \in HostPoints, HostReaches(s, p)
    PROVE  /\ call' \in [Sessions -> Call]
           /\ call'[s].at = p /\ call'[s].ordinary = FALSE /\ call'[s].loaded.revision = 0
           /\ \A t \in Sessions \ {s} : call'[t] = call[t]
<1>1. call[s].asked \in Nat
  BY DEF VccInv, VccTypeOK, Call
<1> DEFINE c == [IdleCall EXCEPT !.at = p, !.asked = call[s].asked]
<1>2. c.at = p /\ c.ordinary = FALSE /\ c.loaded.revision = 0
  BY DEF IdleCall, NoSource
<1>3. c \in Call
  BY <1>1, VccValues DEF Call
<1>4. call' = [call EXCEPT ![s] = c]
  BY DEF HostReaches
<1> HIDE DEF c
<1> QED BY <1>2, <1>3, <1>4 DEF VccInv, VccTypeOK

\* Where no text is written and nobody asks whether to continue, little is left to hold.
LEMMA RestKeeps ==
    ASSUME NEW d \in Durable, NEW c \in Call, NEW a, NEW old, SessionInv(d, old, a),
           c.at \in {"idle", "turn", "summary", "gone", "compacting", "compacting_rest"},
           c.loaded.revision <= d.revision
    PROVE  SessionInv(d, c, a)
<1>1. StoredSound(d, c, a)
  BY DEF SessionInv, StoredSound
<1>2. HeldSound(d, c)
  BY DEF HeldSound, Holding
<1>3. OneText(d, c, a)
  BY DEF SessionInv, OneText, Summarizing, TextPoints
<1>4. Continuing(d, c) /\ Continues(d, c)
  BY DEF Continuing, Continues, AutoPoints
<1> QED BY <1>1, <1>2, <1>3, <1>4 DEF SessionInv

\* The history only grows.
LEMMA LaterKeeps ==
    ASSUME NEW d \in Durable, NEW c \in Call, NEW a \in VccAttempt \cup {NoAttempt},
           SessionInv(d, c, a)
    PROVE  SessionInv([d EXCEPT !.revision = d.revision + 1], c, a)
<1> DEFINE e == [d EXCEPT !.revision = d.revision + 1]
<1>1. /\ e.revision = d.revision + 1 /\ d.revision \in Nat
      /\ e.parts = d.parts /\ e.compaction = d.compaction
  BY DEF Durable
<1> HIDE DEF e
<1>2. StoredSound(e, c, a)
  BY <1>1 DEF SessionInv, StoredSound, Sound, VccAttempt
<1>3. HeldSound(e, c)
  <2>1. c.loaded.revision \in Nat
    BY DEF Call, Collected
  <2> QED BY <1>1, <2>1 DEF SessionInv, HeldSound, Sound, VccAttempt
<1>4. OneText(e, c, a)
  BY <1>1 DEF SessionInv, OneText, Written
<1>5. Continuing(e, c) /\ Continues(e, c)
  BY <1>1 DEF SessionInv, Continuing, Continues, Call
<1>6. SessionInv(e, c, a)
  BY <1>2, <1>3, <1>4, <1>5 DEF SessionInv
<1> QED BY <1>6 DEF e

----------------------------------------------------------------------------
(* The host *)

LEMMA EventLists ==
    /\ <<"session.idle">> \in Seq(Event) /\ <<"session.compacted">> \in Seq(Event)
    /\ <<"session.deleted">> \in Seq(Event)
    /\ <<"session.compacted", "session.idle">> \in Seq(Event)
    /\ <<"session.error", "session.idle">> \in Seq(Event)
BY DEF Event

\* The host moves on and leaves the session as it is.
LEMMA HostRests ==
    ASSUME VccInv, NEW s \in Sessions, NEW p \in {"idle", "turn", "gone"}, HostReaches(s, p),
           UNCHANGED <<store, now, durable, quiet>>,
           UNCHANGED events \/ \E published \in Seq(Event) : Emit(s, published)
    PROVE  VccInv'
<1>1. /\ call' \in [Sessions -> Call]
      /\ call'[s].at = p /\ call'[s].loaded.revision = 0
      /\ \A t \in Sessions \ {s} : call'[t] = call[t]
  BY ReachTypes DEF HostPoints
<1>2. SessionInv(durable'[s], call'[s], store'.map[s])
  <2>1. 0 <= durable[s].revision
    BY SessionTypes DEF Durable
  <2> QED BY <1>1, <2>1, SessionTypes, RestKeeps
<1>3. events' \in [Sessions -> Seq(Event)]
  BY EmitTypes DEF VccInv, VccTypeOK
<1> QED BY <1>1, <1>2, <1>3, SessionKeeps DEF VccInv, VccTypeOK

LEMMA PromptKeeps == ASSUME VccInv, NEW s \in Sessions, Prompt(s) PROVE VccInv'
<1>1. /\ call' \in [Sessions -> Call]
      /\ call'[s].at = "turn" /\ call'[s].loaded.revision = 0
      /\ \A t \in Sessions \ {s} : call'[t] = call[t]
  BY ReachTypes DEF Prompt, HostPoints
<1> DEFINE d == [durable[s] EXCEPT !.revision = durable[s].revision + 1]
<1>2. d \in Durable /\ 0 <= d.revision
  BY SessionTypes DEF Durable
<1>3. SessionInv(d, call[s], store.map[s])
  BY SessionTypes, LaterKeeps
<1>4. durable' = [durable EXCEPT ![s] = d]
  BY DEF Prompt
<1> HIDE DEF d
<1>5. durable' \in [Sessions -> Durable] /\ durable'[s] = d
  BY <1>2, <1>4 DEF VccInv, VccTypeOK
<1>6. SessionInv(durable'[s], call'[s], store'.map[s])
  BY <1>1, <1>2, <1>3, <1>5, RestKeeps DEF Prompt
<1> QED BY <1>1, <1>4, <1>5, <1>6, SessionKeeps DEF Prompt, VccInv, VccTypeOK

LEMMA HistoryMovesKeeps == ASSUME VccInv, NEW s \in Sessions, HistoryMoves(s) PROVE VccInv'
<1> DEFINE d == [durable[s] EXCEPT !.revision = durable[s].revision + 1]
<1>1. d \in Durable
  BY SessionTypes DEF Durable
<1>2. SessionInv(d, call[s], store.map[s])
  BY SessionTypes, LaterKeeps
<1>3. durable' = [durable EXCEPT ![s] = d]
  BY DEF HistoryMoves
<1> HIDE DEF d
<1>4. durable' \in [Sessions -> Durable] /\ durable'[s] = d
  BY <1>1, <1>3 DEF VccInv, VccTypeOK
<1>5. quiet' \in [Sessions -> BOOLEAN]
  BY QuietTypes DEF HistoryMoves
<1> QED BY <1>2, <1>3, <1>4, <1>5, SessionKeeps DEF HistoryMoves, VccInv, VccTypeOK

LEMMA StreamTurnKeeps == ASSUME VccInv, NEW s \in Sessions, StreamTurn(s) PROVE VccInv'
<1> DEFINE c == [call[s] EXCEPT !.at = "text", !.raw = "prose", !.ordinary = TRUE]
<1>1. c \in Call
  BY SessionTypes DEF Call, HookPoints
<1>2. /\ c.at = "text" /\ c.ordinary = TRUE /\ c.loaded = call[s].loaded
  BY SessionTypes DEF Call
<1>3. call' = [call EXCEPT ![s] = c]
  BY DEF StreamTurn
<1> HIDE DEF c
<1>4. call' \in [Sessions -> Call] /\ call'[s] = c
  BY <1>1, <1>3 DEF VccInv, VccTypeOK
<1>5. SessionInv(durable[s], c, store.map[s])
  BY <1>2, SessionTypes DEF SessionInv, StoredSound, HeldSound, OneText, Continuing, Continues,
     Summarizing, Holding, AutoPoints
<1> QED BY <1>3, <1>4, <1>5, SessionKeeps DEF StreamTurn, VccInv, VccTypeOK

LEMMA BeginCompactionKeeps == ASSUME VccInv, NEW s \in Sessions, BeginCompaction(s) PROVE VccInv'
<1> DEFINE c == [call[s] EXCEPT !.at = "compacting"]
<1>1. c \in Call
  BY SessionTypes DEF Call, HookPoints
<1>2. c.at = "compacting" /\ c.loaded = call[s].loaded
  BY SessionTypes DEF Call
<1>3. call' = [call EXCEPT ![s] = c]
  BY DEF BeginCompaction
<1> HIDE DEF c
<1>4. call' \in [Sessions -> Call] /\ call'[s] = c
  BY <1>1, <1>3 DEF VccInv, VccTypeOK
<1>5. SessionInv(durable[s], c, store.map[s])
  BY <1>1, <1>2, SessionTypes, RestKeeps DEF SessionInv, HeldSound
<1>6. quiet' \in [Sessions -> BOOLEAN]
  BY DEF BeginCompaction, VccInv, VccTypeOK
<1> QED BY <1>3, <1>4, <1>5, <1>6, SessionKeeps DEF BeginCompaction, VccInv, VccTypeOK

\* A new summary has no text yet.
LEMMA WriteSummaryKeeps == ASSUME VccInv, NEW s \in Sessions, WriteSummary(s) PROVE VccInv'
<1>1. /\ call' \in [Sessions -> Call]
      /\ call'[s].at = "stream" /\ ~call'[s].ordinary /\ call'[s].loaded.revision = 0
      /\ \A t \in Sessions \ {s} : call'[t] = call[t]
  BY ReachTypes DEF WriteSummary, HostPoints
<1> DEFINE d == [durable[s] EXCEPT !.compaction = durable[s].compaction + 1, !.parts = <<>>, !.spoke = FALSE]
<1>2. /\ durable[s].compaction + 1 \in Nat /\ durable[s].compaction + 1 # 0
      /\ durable[s].revision \in Nat
  BY SessionTypes DEF Durable
<1>3. d \in Durable
  <2>1. ASSUME NEW n \in Nat, NEW none \in Seq(Text), NEW b \in BOOLEAN
        PROVE  [durable[s] EXCEPT !.compaction = n, !.parts = none, !.spoke = b] \in Durable
    BY SessionTypes DEF Durable
  <2>2. <<>> \in Seq(Text) /\ FALSE \in BOOLEAN
    OBVIOUS
  <2> QED BY <1>2, <2>1, <2>2
<1>4. d.compaction # 0 /\ d.parts = <<>> /\ d.revision = durable[s].revision
  BY <1>2, SessionTypes DEF Durable
<1>5. durable' = [durable EXCEPT ![s] = d]
  BY DEF WriteSummary
<1> HIDE DEF d
<1>6. durable' \in [Sessions -> Durable] /\ durable'[s] = d
  BY <1>3, <1>5 DEF VccInv, VccTypeOK
<1>7. SessionInv(d, call'[s], store.map[s])
  BY <1>1, <1>2, <1>4, SessionTypes DEF SessionInv, StoredSound, Sound, HeldSound, OneText, Continuing,
     Continues, Holding, AutoPoints
<1> QED BY <1>1, <1>5, <1>6, <1>7, SessionKeeps DEF WriteSummary, VccInv, VccTypeOK

LEMMA StreamTextKeeps == ASSUME VccInv, NEW s \in Sessions, StreamText(s) PROVE VccInv'
<1>1. PICK raw \in {"blank", "prose", "patch"} :
        /\ call' = [call EXCEPT ![s].at = "text", ![s].raw = raw]
        /\ durable' = [durable EXCEPT ![s].spoke = durable[s].spoke \/ (durable[s].parts = <<>> /\ raw # "blank")]
  BY DEF StreamText
<1> DEFINE c == [call[s] EXCEPT !.at = "text", !.raw = raw]
           spoke == durable[s].spoke \/ (durable[s].parts = <<>> /\ raw # "blank")
           d == [durable[s] EXCEPT !.spoke = spoke]
<1>2. c \in Call
  BY SessionTypes DEF Call, HookPoints
<1>3. c.at = "text" /\ c.loaded = call[s].loaded /\ c.ordinary = call[s].ordinary
  BY SessionTypes DEF Call
<1>4. d \in Durable
  <2>1. spoke \in BOOLEAN
    OBVIOUS
  <2> QED BY <2>1, SessionTypes DEF Durable
<1>5. d.compaction = durable[s].compaction /\ d.parts = durable[s].parts /\ d.revision = durable[s].revision
  BY SessionTypes DEF Durable
<1>6. call' = [call EXCEPT ![s] = c] /\ durable' = [durable EXCEPT ![s] = d]
  BY <1>1
<1> HIDE DEF c, d, spoke
<1>7. /\ call' \in [Sessions -> Call] /\ call'[s] = c
      /\ durable' \in [Sessions -> Durable] /\ durable'[s] = d
  BY <1>2, <1>4, <1>6 DEF VccInv, VccTypeOK
<1>8. SessionInv(d, c, store.map[s])
  <2>1. call[s].at = "stream" /\ SessionInv(durable[s], call[s], store.map[s])
    BY SessionTypes DEF StreamText
  <2>2. StoredSound(d, c, store.map[s]) /\ HeldSound(d, c) /\ Continuing(d, c) /\ Continues(d, c)
    BY <1>3, <1>5, <2>1 DEF SessionInv, StoredSound, Sound, HeldSound, Continuing, Continues, Holding, AutoPoints
  <2>3. OneText(d, c, store.map[s])
    BY <1>3, <1>5, <2>1 DEF SessionInv, OneText, Summarizing, TextPoints, Written
  <2> QED BY <2>2, <2>3 DEF SessionInv
<1> QED BY <1>6, <1>7, <1>8, SessionKeeps DEF StreamText, VccInv, VccTypeOK

\* The host asks about the history as it is.
LEMMA FinishSummaryKeeps == ASSUME VccInv, NEW s \in Sessions, FinishSummary(s) PROVE VccInv'
<1>1. CASE HostReaches(s, "idle") /\ Emit(s, <<"session.compacted", "session.idle">>)
  BY <1>1, EventLists, HostRests DEF FinishSummary
<1>2. CASE /\ call' = [call EXCEPT ![s].at = "auto", ![s].asked = durable[s].revision]
           /\ UNCHANGED events
  <2> DEFINE c == [call[s] EXCEPT !.at = "auto", !.asked = durable[s].revision]
  <2>1. durable[s].revision \in Nat
    BY SessionTypes DEF Durable
  <2>2. c \in Call
    BY <2>1, SessionTypes DEF Call, HookPoints
  <2>3. c.at = "auto" /\ c.asked = durable[s].revision /\ c.loaded = call[s].loaded
    BY SessionTypes DEF Call
  <2>4. call' = [call EXCEPT ![s] = c]
    BY <1>2
  <2> HIDE DEF c
  <2>5. call' \in [Sessions -> Call] /\ call'[s] = c
    BY <2>2, <2>4 DEF VccInv, VccTypeOK
  <2>6. SessionInv(durable[s], c, store.map[s])
    BY <2>1, <2>3, SessionTypes DEF SessionInv, StoredSound, Sound, HeldSound, OneText, Continuing,
       Continues, Summarizing, TextPoints, Holding, AutoPoints
  <2> QED BY <1>2, <2>4, <2>5, <2>6, SessionKeeps DEF FinishSummary, VccInv, VccTypeOK
<1> QED BY <1>1, <1>2 DEF FinishSummary

LEMMA HostKeeps == ASSUME VccInv, NEW s \in Sessions, HostStep(s) PROVE VccInv'
<1>1. CASE FinishTurn(s)
  BY <1>1, EventLists, HostRests DEF FinishTurn
<1>2. CASE CancelCompaction(s)
  BY <1>2, EventLists, HostRests DEF CancelCompaction
<1>3. CASE FailSummary(s)
  BY <1>3, EventLists, HostRests DEF FailSummary
<1>4. CASE ActOnVerdict(s)
  BY <1>4, EventLists, HostRests DEF ActOnVerdict
<1>5. CASE DeleteSession(s)
  BY <1>5, EventLists, HostRests DEF DeleteSession
<1> QED BY <1>1, <1>2, <1>3, <1>4, <1>5, PromptKeeps, HistoryMovesKeeps, StreamTurnKeeps,
        BeginCompactionKeeps, WriteSummaryKeeps, StreamTextKeeps, FinishSummaryKeeps DEF HostStep

----------------------------------------------------------------------------
(* The collection of the source and experimental.session.compacting *)

LEMMA CollectTypes ==
    ASSUME VccInv, NEW s \in Sessions,
           NEW p \in {"compacting_rest", "text_rest", "auto_rest"}, CollectSession(s, p)
    PROVE  /\ call' \in [Sessions -> Call]
           /\ call'[s].at = p /\ call'[s].loaded.revision = durable[s].revision
           /\ call'[s].active = call[s].active /\ call'[s].ordinary = call[s].ordinary
           /\ call'[s].asked = call[s].asked
           /\ \A t \in Sessions \ {s} : call'[t] = call[t]
           /\ quiet' \in [Sessions -> BOOLEAN]
           /\ UNCHANGED <<store, now, durable, events>>
<1>1. PICK complete \in BOOLEAN :
        call' = [call EXCEPT ![s].at = p,
                             ![s].loaded = [complete |-> complete, revision |-> durable[s].revision]]
  BY DEF CollectSession
<1> DEFINE l == [complete |-> complete, revision |-> durable[s].revision]
           c == [call[s] EXCEPT !.at = p, !.loaded = l]
<1>2. l \in Collected /\ l.revision = durable[s].revision
  BY SessionTypes DEF Durable, Collected
<1>3. call' = [call EXCEPT ![s] = c]
  BY <1>1
<1> HIDE DEF l
<1>4. c \in Call
  <2>1. call[s] \in Call
    BY SessionTypes
  <2>2. p \in HookPoints
    BY DEF HookPoints
  <2>3. \A x \in Call, at \in HookPoints, loaded \in Collected : [x EXCEPT !.at = at, !.loaded = loaded] \in Call
    BY ONLY DEF Call
  <2> QED  BY ONLY <1>2, <2>1, <2>2, <2>3, Zenon
<1>5. /\ c.at = p /\ c.loaded = l /\ c.active = call[s].active
      /\ c.ordinary = call[s].ordinary /\ c.asked = call[s].asked
  BY SessionTypes DEF Call
<1> HIDE DEF c
<1>6. quiet' \in [Sessions -> BOOLEAN]
  BY QuietTypes DEF CollectSession, VccInv, VccTypeOK
<1> QED BY <1>2, <1>3, <1>4, <1>5, <1>6 DEF CollectSession, VccInv, VccTypeOK

LEMMA CompactingCollectKeeps ==
    ASSUME VccInv, NEW s \in Sessions, CompactingCollect(s) PROVE VccInv'
<1>1. CollectSession(s, "compacting_rest")
  BY DEF CompactingCollect
<1>2. SessionInv(durable[s], call'[s], store.map[s])
  BY <1>1, CollectTypes, SessionTypes, RestKeeps DEF Durable
<1> QED BY <1>1, <1>2, CollectTypes, SessionKeeps DEF VccInv, VccTypeOK

\* An attempt that replaces the one in the store, between the texts.
LEMMA CompactingStoreKeeps ==
    ASSUME VccInv, NEW s \in Sessions, CompactingStore(s) PROVE VccInv'
<1>1. PICK n \in Nat : store' = Set(store, s, NewAttempt(call[s].loaded, n))
  BY SessionTypes DEF CompactingStore, Durable
<1> DEFINE a == NewAttempt(call[s].loaded, n)
<1>2. a \in VccAttempt
  BY SessionTypes DEF NewAttempt, VccAttempt, Outcome, Validation, Call, Collected, VccInv, VccTypeOK
<1>3. Sound(durable[s], a)
  BY SessionTypes DEF NewAttempt, Sound, Consistent, SessionInv, HeldSound, Call, Collected
<1>4. store' = Set(store, s, a)
  BY <1>1
<1> HIDE DEF a
<1>5. /\ store' \in Stores(VccAttempt)
      /\ store'.map[s] \in {a, NoAttempt}
      /\ \A t \in Sessions \ {s} : store'.map[t] \in {store.map[t], NoAttempt}
  BY <1>2, <1>4, SessionTypes, SetStore
<1>6. /\ call' \in [Sessions -> Call]
      /\ call'[s].at = "summary" /\ call'[s].loaded.revision = 0
      /\ \A t \in Sessions \ {s} : call'[t] = call[t]
  BY ReachTypes DEF CompactingStore, HostPoints
<1>7. SessionInv(durable[s], call[s], NoAttempt)
  BY SessionTypes, Forgotten
<1>8. call[s].at = "compacting_rest" /\ durable[s].revision \in Nat
  BY SessionTypes DEF CompactingStore, Durable
<1>9. SessionInv(durable[s], call'[s], store'.map[s])
  BY <1>3, <1>5, <1>6, <1>7, <1>8 DEF SessionInv, StoredSound, HeldSound, OneText, Continuing,
     Continues, Summarizing, TextPoints, Holding, AutoPoints
<1> QED BY <1>5, <1>6, <1>9, SessionKeeps DEF CompactingStore, VccInv, VccTypeOK

LEMMA CompactingFailKeeps ==
    ASSUME VccInv, NEW s \in Sessions, CompactingFail(s) PROVE VccInv'
<1>1. /\ call' \in [Sessions -> Call]
      /\ call'[s].at = "summary" /\ call'[s].loaded.revision = 0
      /\ \A t \in Sessions \ {s} : call'[t] = call[t]
  BY ReachTypes DEF CompactingFail, HostPoints
<1>2. Shrinks(VccAttempt, store, store') /\ store'.map[s] = NoAttempt
  BY SessionTypes, DeleteShrinks DEF CompactingFail
<1>3. SessionInv(durable[s], call'[s], NoAttempt)
  BY <1>1, SessionTypes, Forgotten, RestKeeps DEF Durable
<1>4. quiet' \in [Sessions -> BOOLEAN]
  BY QuietTypes DEF CompactingFail
<1> QED BY <1>1, <1>2, <1>3, <1>4, SessionKeeps DEF CompactingFail, Shrinks, VccInv, VccTypeOK

----------------------------------------------------------------------------
(* experimental.text.complete *)

LEMMA ReturnTypes ==
    ASSUME VccInv, NEW s \in Sessions, NEW x \in Text, Return(s, x)
    PROVE  /\ durable' \in [Sessions -> Durable] /\ call' \in [Sessions -> Call]
           /\ durable'[s].revision = durable[s].revision
           /\ durable'[s].compaction = durable[s].compaction
           /\ durable'[s].spoke = durable[s].spoke
           /\ call'[s].loaded.revision = 0 /\ call'[s].ordinary = FALSE
           /\ call[s].ordinary => call'[s].at = "turn" /\ durable'[s].parts = durable[s].parts
           /\ ~call[s].ordinary => /\ call'[s].at = "stream"
                                   /\ durable'[s].parts = Append(durable[s].parts, x)
           /\ \A t \in Sessions \ {s} : durable'[t] = durable[t] /\ call'[t] = call[t]
<1>1. CASE call[s].ordinary
  <2> DEFINE d == [durable[s] EXCEPT !.turn = x]
  <2>1. d \in Durable
    BY SessionTypes DEF Durable
  <2>2. /\ d.revision = durable[s].revision /\ d.compaction = durable[s].compaction
        /\ d.parts = durable[s].parts /\ d.spoke = durable[s].spoke
    BY SessionTypes DEF Durable
  <2>3. durable' = [durable EXCEPT ![s] = d]
    BY <1>1 DEF Return
  <2> HIDE DEF d
  <2>4. HostReaches(s, "turn")
    BY <1>1 DEF Return
  <2> QED BY <1>1, <2>1, <2>2, <2>3, <2>4, ReachTypes DEF HostPoints, VccInv, VccTypeOK
<1>2. CASE ~call[s].ordinary
  <2> DEFINE parts == Append(durable[s].parts, x)
             d == [durable[s] EXCEPT !.parts = parts]
  <2>1. parts \in Seq(Text)
    BY SessionTypes DEF Durable
  <2>2. durable' = [durable EXCEPT ![s] = d]
    BY <1>2 DEF Return
  <2> HIDE DEF parts
  <2>3. d \in Durable
    BY <2>1, SessionTypes DEF Durable
  <2>4. /\ d.revision = durable[s].revision /\ d.compaction = durable[s].compaction
        /\ d.parts = parts /\ d.spoke = durable[s].spoke
    BY SessionTypes DEF Durable
  <2> HIDE DEF d
  <2>5. HostReaches(s, "stream")
    BY <1>2 DEF Return
  <2> QED BY <1>2, <2>2, <2>3, <2>4, <2>5, ReachTypes DEF HostPoints, VccInv, VccTypeOK, parts
<1> QED BY <1>1, <1>2

\* No part of the newest summary has a text.
NoText(s) == \A i \in DOMAIN durable[s].parts : ~Written(durable[s], i)

\* The hook returns a text, with the attempt b left in the store, or evicted.
LEMMA ReturnKeeps ==
    ASSUME VccInv, NEW s \in Sessions, call[s].at \in TextPoints,
           NEW x \in Text, Return(s, x),
           store' \in Stores(VccAttempt),
           \A t \in Sessions \ {s} : store'.map[t] \in {store.map[t], NoAttempt},
           NEW b, store'.map[s] \in {b, NoAttempt},
           b = NoAttempt \/ Sound(durable[s], b),
           ~call[s].ordinary =>
               /\ x.kind # "blank" => NoText(s)
               /\ \/ b = NoAttempt
                  \/ b.textPartID \in 1..(Len(durable[s].parts) + 1)
                  \/ x.kind = "blank" /\ NoText(s),
           now' = now, events' = events, quiet' \in [Sessions -> BOOLEAN]
    PROVE  VccInv'
<1> DEFINE d == durable[s]
           e == durable'[s]
           c == call'[s]
           a == store'.map[s]
<1>1. /\ d \in Durable /\ e \in Durable /\ e.revision = d.revision /\ e.compaction = d.compaction
      /\ c.loaded.revision = 0 /\ c.ordinary = FALSE
      /\ call[s].ordinary => c.at = "turn" /\ e.parts = d.parts
      /\ ~call[s].ordinary => c.at = "stream" /\ e.parts = Append(d.parts, x)
      /\ d.parts \in Seq(Text) /\ d.revision \in Nat
  BY ReturnTypes, SessionTypes DEF Durable
<1>2. SessionInv(d, call[s], store.map[s])
  BY SessionTypes
<1> HIDE DEF d, e, c, a
<1>3. c.at \in {"turn", "stream"}
  BY <1>1
<1>4. StoredSound(e, c, a)
  BY <1>1, <1>3 DEF StoredSound, Sound, a, d
<1>5. HeldSound(e, c) /\ Continuing(e, c) /\ Continues(e, c)
  BY <1>1, <1>3 DEF HeldSound, Continuing, Continues, Holding, AutoPoints
<1>6. OneText(e, c, a)
  <2>1. CASE call[s].ordinary
    BY <1>1, <1>2, <2>1 DEF SessionInv, OneText, Summarizing, TextPoints, Written
  <2>2. CASE ~call[s].ordinary
    <3>1. /\ DOMAIN e.parts = 1..(Len(d.parts) + 1) /\ DOMAIN d.parts = 1..Len(d.parts)
          /\ Len(e.parts) = Len(d.parts) + 1 /\ Len(d.parts) \in Nat
          /\ e.parts[Len(d.parts) + 1] = x
          /\ \A i \in DOMAIN d.parts : e.parts[i] = d.parts[i]
      BY <1>1, <2>2
    <3>2. \A i \in DOMAIN d.parts : Written(e, i) <=> Written(d, i)
      BY <3>1 DEF Written
    <3>3. Written(e, Len(d.parts) + 1) <=> x.kind # "blank"
      BY <3>1 DEF Written
    <3>4. d.compaction # 0
      BY <1>2, <2>2 DEF SessionInv, OneText, Summarizing
    <3>5. \A i, j \in DOMAIN e.parts : Written(e, i) /\ Written(e, j) => i = j
      BY <1>2, <2>2, <3>1, <3>2, <3>3 DEF SessionInv, OneText, NoText, d
    <3>6. ASSUME NEW i \in DOMAIN e.parts, Written(e, i), a # NoAttempt
          PROVE  a.textPartID \in 1..Len(e.parts)
      BY <2>2, <3>1, <3>2, <3>3, <3>6 DEF NoText, a, d
    <3> QED BY <1>1, <2>2, <3>4, <3>5, <3>6 DEF OneText, Summarizing
  <2> QED BY <2>1, <2>2
<1>7. SessionInv(e, c, a)
  BY <1>4, <1>5, <1>6 DEF SessionInv
<1>8. /\ durable' \in [Sessions -> Durable] /\ call' \in [Sessions -> Call]
      /\ \A t \in Sessions \ {s} : durable'[t] = durable[t] /\ call'[t] = call[t]
  BY ReturnTypes
<1> QED BY <1>7, <1>8, SessionKeeps DEF VccInv, VccTypeOK, e, c, a

\* The hook returns a blank, with the store as it was.
LEMMA ReturnBlank ==
    ASSUME VccInv, NEW s \in Sessions, call[s].at \in TextPoints,
           Return(s, Plain("blank")), store \in Stores(VccAttempt), store' = store,
           store.map[s] = NoAttempt \/ Sound(durable[s], store.map[s]),
           ~call[s].ordinary => NoText(s),
           now' = now, events' = events, quiet' \in [Sessions -> BOOLEAN]
    PROVE  VccInv'
<1> DEFINE b == store.map[s]
           x == Plain("blank")
<1>1. x \in Text /\ x.kind = "blank"
  BY VccValues
<1>2. /\ store' \in Stores(VccAttempt) /\ store'.map[s] \in {b, NoAttempt}
      /\ \A t \in Sessions \ {s} : store'.map[t] \in {store.map[t], NoAttempt}
      /\ b = NoAttempt \/ Sound(durable[s], b)
      /\ Return(s, x)
  OBVIOUS
<1>3. ~call[s].ordinary =>
        /\ x.kind # "blank" => NoText(s)
        /\ \/ b = NoAttempt
           \/ b.textPartID \in 1..(Len(durable[s].parts) + 1)
           \/ x.kind = "blank" /\ NoText(s)
  BY <1>1
<1> HIDE DEF b, x
<1> QED BY <1>1, <1>2, <1>3, ReturnKeeps

LEMMA TextStartKeeps == ASSUME VccInv, NEW s \in Sessions, TextStart(s) PROVE VccInv'
<1> DEFINE st == CleanupExpired(store, now)
           active == st.map[s]
           ours == active # NoAttempt /\ ~BoundElsewhere(s, active)
<1>1. store' = st /\ Shrinks(VccAttempt, store, st)
  BY SessionTypes, CleanupShrinks DEF TextStart
<1>2. /\ active \in {store.map[s], NoAttempt}
      /\ call[s].at = "text" /\ SessionInv(durable[s], call[s], store.map[s])
      /\ store.map[s] \in VccAttempt \cup {NoAttempt}
  BY <1>1, SessionTypes DEF TextStart, Shrinks
<1>s. /\ store' \in Stores(VccAttempt)
      /\ \A t \in Sessions \ {s} : store'.map[t] \in {store.map[t], NoAttempt}
  BY <1>1 DEF Shrinks
<1>u. now' = now /\ events' = events /\ quiet' \in [Sessions -> BOOLEAN]
  BY DEF TextStart, VccInv, VccTypeOK
<1>3. CASE ~ours /\ Return(s, Plain("blank"))
  <2>1. active = NoAttempt \/ Sound(durable[s], active)
    BY <1>2 DEF SessionInv, StoredSound
  <2>2. ~call[s].ordinary => active = NoAttempt \/ active.textPartID \in 1..(Len(durable[s].parts) + 1) \/ NoText(s)
    BY <1>2, SessionTypes DEF SessionInv, OneText, Summarizing, TextPoints, NoText, Durable
  <2>3. Plain("blank") \in Text /\ Plain("blank").kind = "blank"
    BY VccValues
  <2> HIDE DEF active
  <2>4. store'.map[s] = active
    BY <1>1 DEF active
  <2>5. call[s].at \in TextPoints /\ Return(s, Plain("blank"))
    BY <1>2, <1>3 DEF TextPoints
  <2> HIDE DEF st, ours
  <2> QED BY <1>s, <1>u, <2>1, <2>2, <2>3, <2>4, <2>5, ReturnKeeps
<1>4. CASE ours /\ call' = [call EXCEPT ![s].at = "text_target", ![s].active = active] /\ UNCHANGED durable
  <2> DEFINE c == [call[s] EXCEPT !.at = "text_target", !.active = active]
  <2>1. active \in VccAttempt /\ active = store.map[s]
    BY <1>2, <1>4
  <2>2. Sound(durable[s], active)
    BY <1>2, <2>1, <1>4 DEF SessionInv, StoredSound
  <2>3. active.textPartID \in {0, Len(durable[s].parts) + 1}
    BY <1>4 DEF BoundElsewhere, Part
  <2>4. ~call[s].ordinary => NoText(s)
    BY <1>2, <1>4, <2>1, <2>3, SessionTypes
       DEF SessionInv, OneText, Summarizing, TextPoints, NoText, Durable
  <2>5. call' = [call EXCEPT ![s] = c]
    BY <1>4
  <2> HIDE DEF active
  <2>6. c \in Call
    BY <2>1, SessionTypes DEF Call, HookPoints
  <2>7. c.at = "text_target" /\ c.active = active /\ c.loaded = call[s].loaded /\ c.ordinary = call[s].ordinary
    BY SessionTypes DEF Call
  <2> HIDE DEF c
  <2>8. StoredSound(durable[s], c, active) /\ HeldSound(durable[s], c)
    BY <1>2, <2>1, <2>2, <2>3, <2>7 DEF SessionInv, StoredSound, HeldSound
  <2>9. OneText(durable[s], c, active) /\ Continuing(durable[s], c) /\ Continues(durable[s], c)
    BY <1>2, <2>4, <2>7 DEF SessionInv, OneText, Continuing, Continues, Summarizing, TextPoints,
       AutoPoints, NoText
  <2>10. SessionInv(durable[s], c, store'.map[s])
    BY <1>1, <2>8, <2>9 DEF SessionInv, active
  <2>11. /\ call' \in [Sessions -> Call] /\ call'[s] = c
         /\ \A t \in Sessions \ {s} : call'[t] = call[t]
    BY <2>5, <2>6 DEF VccInv, VccTypeOK
  <2>12. durable' = durable /\ durable \in [Sessions -> Durable] /\ now \in Nat /\ events \in [Sessions -> Seq(Event)]
    BY <1>4 DEF VccInv, VccTypeOK
  <2> HIDE DEF st, ours
  <2> QED BY <1>s, <1>u, <2>10, <2>11, <2>12, SessionKeeps
<1> QED BY <1>3, <1>4 DEF TextStart

\* What binding the attempt gives.
LEMMA BindSound ==
    ASSUME VccInv, NEW s \in Sessions, call[s].at = "text_target", ~call[s].ordinary,
           NEW b, b = Bind(s, call[s].active)
    PROVE  b \in VccAttempt /\ Sound(durable[s], b) /\ b.textPartID = Len(durable[s].parts) + 1
<1> DEFINE a == call[s].active
           d == durable[s]
<1>1. /\ a \in VccAttempt /\ Sound(d, a) /\ a.textPartID \in {0, Len(d.parts) + 1}
      /\ d.compaction # 0 /\ d.compaction \in Nat /\ Len(d.parts) \in Nat
  BY SessionTypes DEF SessionInv, HeldSound, OneText, Summarizing, TextPoints, Holding, Durable
<1>2. CASE a.summaryMessageID # 0
  BY <1>1, <1>2 DEF Bind, Sound
<1>3. CASE a.summaryMessageID = 0
  <2> HIDE DEF d
  <2>1. b = [a EXCEPT !.compactionTargetID = d.compaction, !.summaryMessageID = d.compaction,
                      !.textPartID = Len(d.parts) + 1]
    BY <1>3 DEF Bind, Part, d
  <2> HIDE DEF a
  <2>2. Len(d.parts) + 1 \in Nat /\ Len(d.parts) + 1 # 0
    BY <1>1
  <2>3. b \in VccAttempt
    BY <1>1, <2>1, <2>2 DEF VccAttempt
  <2>4. /\ b.summaryMessageID = d.compaction /\ b.textPartID = Len(d.parts) + 1
        /\ b.outcome = a.outcome /\ b.sourceComplete = a.sourceComplete /\ b.manifest = a.manifest
    BY <1>1, <2>1 DEF VccAttempt
  <2>5. Sound(d, b)
    BY <1>1, <2>2, <2>4 DEF Sound, Consistent
  <2> QED BY <2>3, <2>4, <2>5 DEF d
<1> QED BY <1>2, <1>3

LEMMA TextTargetKeeps == ASSUME VccInv, NEW s \in Sessions, TextTarget(s) PROVE VccInv'
<1> DEFINE active == call[s].active
           bound == Bind(s, active)
           foreign == \/ call[s].ordinary
                      \/ /\ active.summaryMessageID = 0
                         /\ active.compactionTargetID \notin {0, durable[s].compaction}
           st == IF active.summaryMessageID = 0 THEN Set(store, s, bound) ELSE store
           none == [bound EXCEPT !.outcome = "no_text", !.validation = "invalid"]
<1>1. /\ call[s].at = "text_target" /\ call[s].at \in TextPoints
      /\ SessionInv(durable[s], call[s], store.map[s]) /\ store \in Stores(VccAttempt)
      /\ call[s] \in Call
  BY SessionTypes DEF TextTarget, TextPoints
<1>2. ~call[s].ordinary => NoText(s)
  BY <1>1 DEF SessionInv, OneText, Summarizing, NoText
<1>3. Plain("blank") \in Text /\ Plain("blank").kind = "blank"
  BY VccValues
<1>u. now' = now /\ events' = events /\ quiet' \in [Sessions -> BOOLEAN]
  BY DEF TextTarget, VccInv, VccTypeOK
<1>4. CASE foreign /\ Return(s, Plain("blank")) /\ UNCHANGED store
  <2>1. store.map[s] = NoAttempt \/ Sound(durable[s], store.map[s])
    BY <1>1 DEF SessionInv, StoredSound
  <2>2. store' = store /\ Return(s, Plain("blank"))
    BY <1>4
  <2> HIDE DEF foreign, active, bound, st, none
  <2> QED BY <1>1, <1>2, <1>u, <2>1, <2>2, ReturnBlank
<1>5. ASSUME ~foreign
      PROVE  /\ bound \in VccAttempt /\ Sound(durable[s], bound) /\ ~call[s].ordinary
             /\ bound.textPartID = Len(durable[s].parts) + 1
             /\ st \in Stores(VccAttempt)
             /\ \A t \in Sessions \ {s} : st.map[t] \in {store.map[t], NoAttempt}
             /\ st.map[s] \in {bound, store.map[s], NoAttempt}
             /\ active.summaryMessageID = 0 => st.map[s] \in {bound, NoAttempt}
  <2>1. ~call[s].ordinary
    BY <1>5
  <2>2. bound \in VccAttempt /\ Sound(durable[s], bound) /\ bound.textPartID = Len(durable[s].parts) + 1
    BY <1>1, <2>1, BindSound
  <2> HIDE DEF bound, foreign
  <2> QED BY <1>1, <2>1, <2>2, SetStore
<1>6. CASE /\ ~foreign
           /\ store' = Set(st, s, none)
           /\ Return(s, Plain("blank"))
  <2>1. none \in VccAttempt
    BY <1>5, <1>6 DEF VccAttempt, Outcome, Validation
  <2>2. none.outcome = "no_text" /\ none.summaryMessageID = bound.summaryMessageID
        /\ none.textPartID = bound.textPartID /\ none.manifest = bound.manifest
    BY <1>5, <1>6 DEF VccAttempt
  <2>3. Sound(durable[s], none)
    BY <1>5, <1>6, <2>2 DEF Sound, Consistent
  <2> HIDE DEF none, st, foreign, bound
  <2>4. /\ store' \in Stores(VccAttempt) /\ store'.map[s] \in {none, NoAttempt}
        /\ \A t \in Sessions \ {s} : store'.map[t] \in {store.map[t], NoAttempt}
    <3>1. store' \in Stores(VccAttempt) /\ store'.map[s] \in {none, NoAttempt}
      BY <1>5, <1>6, <2>1, SetStore
    <3>2. \A t \in Sessions \ {s} : store'.map[t] \in {st.map[t], NoAttempt}
      BY <1>5, <1>6, <2>1, SetStore
    <3> QED BY <1>5, <1>6, <3>1, <3>2
  <2>5. Return(s, Plain("blank"))
    BY <1>6
  <2> QED BY <1>1, <1>2, <1>3, <1>u, <2>3, <2>4, <2>5, ReturnKeeps
<1>7. CASE /\ ~foreign
           /\ store' = st
           /\ call' = [call EXCEPT ![s].at = "text_prepare", ![s].active = bound]
           /\ UNCHANGED durable
  <2> DEFINE c == [call[s] EXCEPT !.at = "text_prepare", !.active = bound]
  <2>1. call' = [call EXCEPT ![s] = c]
    BY <1>7
  <2> HIDE DEF bound, st, foreign
  <2>2. c \in Call
    BY <1>1, <1>5, <1>7 DEF Call, HookPoints
  <2>3. c.at = "text_prepare" /\ c.active = bound /\ c.loaded = call[s].loaded /\ c.ordinary = call[s].ordinary
    BY <1>1 DEF Call
  <2> HIDE DEF c
  <2>4. StoredSound(durable[s], c, store'.map[s])
    BY <1>1, <1>5, <1>7, <2>3 DEF SessionInv, StoredSound
  <2>5. HeldSound(durable[s], c)
    BY <1>1, <1>5, <1>7, <2>3 DEF SessionInv, HeldSound
  <2>6. OneText(durable[s], c, store'.map[s]) /\ Continuing(durable[s], c) /\ Continues(durable[s], c)
    BY <1>1, <1>2, <1>5, <1>7, <2>3 DEF SessionInv, OneText, Continuing, Continues, Summarizing,
       TextPoints, AutoPoints, NoText
  <2>7. SessionInv(durable[s], c, store'.map[s])
    BY <2>4, <2>5, <2>6 DEF SessionInv
  <2>8. /\ call' \in [Sessions -> Call] /\ call'[s] = c
        /\ \A t \in Sessions \ {s} : call'[t] = call[t]
        /\ durable' = durable /\ durable \in [Sessions -> Durable]
        /\ now \in Nat /\ events \in [Sessions -> Seq(Event)]
    BY <1>7, <2>1, <2>2 DEF VccInv, VccTypeOK
  <2> QED BY <1>5, <1>7, <1>u, <2>7, <2>8, SessionKeeps
<1> QED BY <1>4, <1>6, <1>7 DEF TextTarget

LEMMA TextCollectKeeps == ASSUME VccInv, NEW s \in Sessions, TextCollect(s) PROVE VccInv'
<1>1. CollectSession(s, "text_rest") /\ call[s].at = "text_prepare"
  BY DEF TextCollect
<1>2. /\ call' \in [Sessions -> Call]
      /\ call'[s].at = "text_rest" /\ call'[s].loaded.revision = durable[s].revision
      /\ call'[s].active = call[s].active /\ call'[s].ordinary = call[s].ordinary
  BY <1>1, CollectTypes
<1>3. SessionInv(durable[s], call[s], store.map[s]) /\ durable[s].revision \in Nat
  BY SessionTypes DEF Durable
<1>4. SessionInv(durable[s], call'[s], store.map[s])
  BY <1>1, <1>2, <1>3 DEF SessionInv, StoredSound, HeldSound, OneText, Continuing, Continues,
     Summarizing, TextPoints, Holding, AutoPoints
<1> QED BY <1>1, <1>4, CollectTypes, SessionKeeps DEF VccInv, VccTypeOK

\* The attempt is deleted and the text blank.
LEMMA TextDropsKeeps ==
    ASSUME VccInv, NEW s \in Sessions, TextUnrendered(s) \/ TextFail(s) PROVE VccInv'
<1>1. call[s].at \in TextPoints /\ call[s].at # "text"
  BY DEF TextUnrendered, TextFail, TextPoints
<1>2. Return(s, Plain("blank")) /\ store' = Delete(store, s) /\ now' = now /\ events' = events
  BY DEF TextUnrendered, TextFail
<1>3. /\ store' \in Stores(VccAttempt) /\ store'.map[s] = NoAttempt
      /\ \A t \in Sessions \ {s} : store'.map[t] \in {store.map[t], NoAttempt}
  BY <1>2, SessionTypes, DeleteShrinks DEF Shrinks
<1>4. quiet' \in [Sessions -> BOOLEAN]
  BY QuietTypes DEF TextUnrendered, TextFail
<1>5. Plain("blank") \in Text /\ Plain("blank").kind = "blank"
  BY VccValues
<1> QED BY <1>1, <1>2, <1>3, <1>4, <1>5, ReturnKeeps

\* The attempt of the part is settled with the text of the part.
LEMMA TextSettlesKeeps ==
    ASSUME VccInv, NEW s \in Sessions, TextDegraded(s) \/ TextSucceeded(s) PROVE VccInv'
<1> DEFINE a == call[s].active
<1>1. /\ call[s].at = "text_rest" /\ call[s].at \in TextPoints
      /\ a \in VccAttempt /\ Sound(durable[s], a) /\ a.textPartID = Len(durable[s].parts) + 1
      /\ ~call[s].ordinary /\ NoText(s) /\ store \in Stores(VccAttempt)
      /\ call[s].loaded.revision \in Nat /\ Len(durable[s].parts) \in Nat
  BY SessionTypes DEF TextDegraded, TextSucceeded, SessionInv, HeldSound, OneText, Summarizing,
     TextPoints, Holding, NoText, Call, Collected, Durable
<1>2. now' = now /\ events' = events /\ quiet' \in [Sessions -> BOOLEAN]
  BY DEF TextDegraded, TextSucceeded, VccInv, VccTypeOK
<1>3. \E b \in VccAttempt, x \in Text :
        /\ Sound(durable[s], b) /\ b.textPartID = a.textPartID
        /\ store' = Set(store, s, b) /\ Return(s, x)
  <2>1. CASE TextDegraded(s)
    <3>1. \E x \in Text : Return(s, x)
      BY <2>1, VccValues DEF TextDegraded
    <3>2. store' = Set(store, s, Degraded(a))
      BY <2>1 DEF TextDegraded
    <3> HIDE DEF a
    <3>3. Degraded(a) \in VccAttempt
      BY <1>1 DEF Degraded, VccAttempt, Outcome, Validation
    <3>4. Sound(durable[s], Degraded(a)) /\ Degraded(a).textPartID = a.textPartID
      BY <1>1 DEF Degraded, VccAttempt, Sound, Consistent
    <3> QED BY <3>1, <3>2, <3>3, <3>4
  <2>2. CASE TextSucceeded(s)
    <3> DEFINE accepted == call[s].raw = "patch"
               b == Succeeded(a, accepted)
    <3>1. store' = Set(store, s, b) /\ Return(s, Projection(call[s].loaded.revision, accepted))
      BY <2>2 DEF TextSucceeded
    <3>2. a.sourceComplete
      BY <2>2 DEF TextSucceeded, SameCompleteSource
    <3> HIDE DEF a
    <3>3. b \in VccAttempt
      BY <1>1 DEF Succeeded, VccAttempt, Outcome, Validation
    <3>4. Sound(durable[s], b) /\ b.textPartID = a.textPartID
      BY <1>1, <3>2 DEF Succeeded, VccAttempt, Sound, Consistent
    <3>5. Projection(call[s].loaded.revision, accepted) \in Text
      BY <1>1, VccValues
    <3> HIDE DEF b
    <3> QED BY <3>1, <3>3, <3>4, <3>5
  <2> QED BY <2>1, <2>2
<1>4. PICK b \in VccAttempt, x \in Text :
        /\ Sound(durable[s], b) /\ b.textPartID = a.textPartID
        /\ store' = Set(store, s, b) /\ Return(s, x)
  BY <1>3
<1>5. /\ store' \in Stores(VccAttempt) /\ store'.map[s] \in {b, NoAttempt}
      /\ \A t \in Sessions \ {s} : store'.map[t] \in {store.map[t], NoAttempt}
  BY <1>1, <1>4, SetStore
<1>6. b.textPartID \in 1..(Len(durable[s].parts) + 1)
  BY <1>1, <1>4
<1> HIDE DEF a
<1> QED BY <1>1, <1>2, <1>4, <1>5, <1>6, ReturnKeeps

----------------------------------------------------------------------------
(* experimental.compaction.autocontinue *)

\* The call moves on, holding the attempt it held or one from the store.
LEMMA AutoTypes ==
    ASSUME VccInv, NEW s \in Sessions, NEW c \in Call, call' = [call EXCEPT ![s] = c],
           durable' = durable, now' = now, events' = events,
           quiet' \in [Sessions -> BOOLEAN], Shrinks(VccAttempt, store, store'),
           SessionInv(durable[s], c, store.map[s])
    PROVE  VccInv'
<1>1. SessionInv(durable[s], c, store'.map[s])
  BY Forgotten DEF Shrinks
<1>2. /\ call' \in [Sessions -> Call] /\ call'[s] = c
      /\ \A t \in Sessions \ {s} : call'[t] = call[t]
  BY DEF VccInv, VccTypeOK
<1>3. /\ durable' \in [Sessions -> Durable] /\ now' \in Nat /\ events' \in [Sessions -> Seq(Event)]
  BY DEF VccInv, VccTypeOK
<1> QED BY <1>1, <1>2, <1>3, SessionKeeps DEF Shrinks

LEMMA SameStore == ASSUME VccInv, store' = store PROVE Shrinks(VccAttempt, store, store')
BY DEF VccInv, VccTypeOK, Shrinks

\* The verdict of one session.
LEMMA VerdictKeeps ==
    ASSUME VccInv, NEW s \in Sessions, call[s].at \in AutoPoints,
           NEW enabled \in BOOLEAN, Verdict(s, enabled),
           durable' = durable, now' = now, events' = events,
           quiet' \in [Sessions -> BOOLEAN], Shrinks(VccAttempt, store, store'),
           enabled => \E i \in DOMAIN durable[s].parts :
               /\ durable[s].parts[i].kind = "success"
               /\ durable[s].parts[i].revision = call[s].asked
               /\ \A j \in DOMAIN durable[s].parts : j # i => durable[s].parts[j].kind = "blank"
    PROVE  VccInv'
<1> DEFINE c == [call[s] EXCEPT !.at = "verdict", !.enabled = enabled]
<1>1. c \in Call
  BY SessionTypes DEF Call, HostPoints
<1>2. /\ c.at = "verdict" /\ c.enabled = enabled /\ c.loaded = call[s].loaded /\ c.asked = call[s].asked
  BY SessionTypes DEF Call
<1>3. call' = [call EXCEPT ![s] = c]
  BY DEF Verdict
<1> HIDE DEF c
<1>4. SessionInv(durable[s], call[s], store.map[s])
  BY SessionTypes
<1>5. StoredSound(durable[s], c, store.map[s]) /\ HeldSound(durable[s], c)
  BY <1>2, <1>4 DEF SessionInv, StoredSound, HeldSound, Holding
<1>6. OneText(durable[s], c, store.map[s]) /\ Continuing(durable[s], c)
  BY <1>2, <1>4 DEF SessionInv, OneText, Continuing, Summarizing, TextPoints, AutoPoints
<1>7. Continues(durable[s], c)
  BY <1>2 DEF Continues
<1>8. SessionInv(durable[s], c, store.map[s])
  BY <1>5, <1>6, <1>7 DEF SessionInv
<1> QED BY <1>1, <1>3, <1>8, AutoTypes

LEMMA AutoStartKeeps == ASSUME VccInv, NEW s \in Sessions, AutoStart(s) PROVE VccInv'
<1> DEFINE st == CleanupExpired(store, now)
           active == st.map[s]
<1>1. store' = st /\ Shrinks(VccAttempt, store, st)
  BY SessionTypes, CleanupShrinks DEF AutoStart
<1>2. /\ call[s].at = "auto" /\ call[s] \in Call
      /\ SessionInv(durable[s], call[s], store.map[s])
      /\ store.map[s] \in VccAttempt \cup {NoAttempt} /\ active \in {store.map[s], NoAttempt}
  BY <1>1, SessionTypes DEF AutoStart, Shrinks
<1>u. /\ durable' = durable /\ now' = now /\ events' = events
      /\ quiet' \in [Sessions -> BOOLEAN] /\ Shrinks(VccAttempt, store, store')
  BY <1>1 DEF AutoStart, VccInv, VccTypeOK
<1>3. CASE Continuable(active) /\ call' = [call EXCEPT ![s].at = "auto_load", ![s].active = active]
  <2> DEFINE c == [call[s] EXCEPT !.at = "auto_load", !.active = active]
  <2>1. active \in VccAttempt /\ active = store.map[s] /\ active # NoAttempt
    BY <1>2, <1>3 DEF Continuable
  <2>2. Sound(durable[s], active) /\ active.manifest <= call[s].asked
    BY <1>2, <2>1 DEF SessionInv, StoredSound
  <2>3. call' = [call EXCEPT ![s] = c]
    BY <1>3
  <2> HIDE DEF active
  <2>4. c \in Call
    BY <1>2, <2>1 DEF Call, HookPoints
  <2>5. c.at = "auto_load" /\ c.active = active /\ c.loaded = call[s].loaded /\ c.asked = call[s].asked
    BY <1>2 DEF Call
  <2> HIDE DEF c
  <2>6. StoredSound(durable[s], c, store.map[s]) /\ HeldSound(durable[s], c)
    BY <1>2, <2>1, <2>2, <2>5 DEF SessionInv, StoredSound, HeldSound
  <2>7. OneText(durable[s], c, store.map[s]) /\ Continuing(durable[s], c) /\ Continues(durable[s], c)
    BY <1>2, <2>2, <2>5 DEF SessionInv, OneText, Continuing, Continues, Summarizing, TextPoints, AutoPoints
  <2>8. SessionInv(durable[s], c, store.map[s])
    BY <2>6, <2>7 DEF SessionInv
  <2> QED BY <1>u, <2>3, <2>4, <2>8, AutoTypes
<1>4. CASE Verdict(s, FALSE)
  BY <1>2, <1>4, <1>u, VerdictKeeps DEF AutoPoints
<1> QED BY <1>3, <1>4 DEF AutoStart

LEMMA AutoLoadKeeps == ASSUME VccInv, NEW s \in Sessions, AutoLoad(s) PROVE VccInv'
<1>1. /\ call[s].at = "auto_load" /\ call[s] \in Call
      /\ SessionInv(durable[s], call[s], store.map[s])
  BY SessionTypes DEF AutoLoad
<1>u. /\ durable' = durable /\ now' = now /\ events' = events
      /\ quiet' \in [Sessions -> BOOLEAN] /\ Shrinks(VccAttempt, store, store')
  BY SameStore DEF AutoLoad, VccInv, VccTypeOK
<1>2. CASE /\ call[s].active.textPartID \in DOMAIN durable[s].parts
           /\ call' = [call EXCEPT ![s].at = "auto_prepare"]
  <2> DEFINE c == [call[s] EXCEPT !.at = "auto_prepare"]
  <2>1. c \in Call
    BY <1>1 DEF Call, HookPoints
  <2>2. /\ c.at = "auto_prepare" /\ c.active = call[s].active /\ c.loaded = call[s].loaded
        /\ c.asked = call[s].asked
    BY <1>1 DEF Call
  <2>3. call' = [call EXCEPT ![s] = c]
    BY <1>2
  <2> HIDE DEF c
  <2>4. StoredSound(durable[s], c, store.map[s]) /\ HeldSound(durable[s], c)
    BY <1>1, <2>2 DEF SessionInv, StoredSound, HeldSound, Holding
  <2>5. OneText(durable[s], c, store.map[s]) /\ Continuing(durable[s], c) /\ Continues(durable[s], c)
    BY <1>1, <1>2, <2>2 DEF SessionInv, OneText, Continuing, Continues, Summarizing, TextPoints, AutoPoints
  <2>6. SessionInv(durable[s], c, store.map[s])
    BY <2>4, <2>5 DEF SessionInv
  <2> QED BY <1>u, <2>1, <2>3, <2>6, AutoTypes
<1>3. CASE Verdict(s, FALSE)
  BY <1>1, <1>3, <1>u, VerdictKeeps DEF AutoPoints
<1> QED BY <1>2, <1>3 DEF AutoLoad

\* The history that is loaded is not older than the one the host asked about.
LEMMA AutoCollectKeeps == ASSUME VccInv, NEW s \in Sessions, AutoCollect(s) PROVE VccInv'
<1>1. CollectSession(s, "auto_rest") /\ call[s].at = "auto_prepare"
  BY DEF AutoCollect
<1>2. /\ call' \in [Sessions -> Call]
      /\ call'[s].at = "auto_rest" /\ call'[s].loaded.revision = durable[s].revision
      /\ call'[s].active = call[s].active /\ call'[s].asked = call[s].asked
  BY <1>1, CollectTypes
<1>3. SessionInv(durable[s], call[s], store.map[s]) /\ durable[s].revision \in Nat
  BY SessionTypes DEF Durable
<1>4. SessionInv(durable[s], call'[s], store.map[s])
  BY <1>1, <1>2, <1>3 DEF SessionInv, StoredSound, HeldSound, OneText, Continuing, Continues,
     Summarizing, TextPoints, Holding, AutoPoints
<1> QED BY <1>1, <1>4, CollectTypes, SessionKeeps DEF VccInv, VccTypeOK

\* The source of the attempt is from before the question, the one that is compared with it
\* from after it: when they are one, it is the history the host asked about.
LEMMA AutoFinishKeeps == ASSUME VccInv, NEW s \in Sessions, AutoFinish(s) PROVE VccInv'
<1> DEFINE a == call[s].active
           d == durable[s]
           patched == a.validation = "provider"
           enabled == /\ call[s].loaded = [complete |-> TRUE, revision |-> a.manifest]
                      /\ d.parts[a.textPartID] = Projection(a.manifest, patched)
<1>1. /\ call[s].at = "auto_rest" /\ call[s].at \in AutoPoints /\ call[s] \in Call
      /\ SessionInv(d, call[s], store.map[s])
  BY SessionTypes DEF AutoFinish, AutoPoints
<1>u. /\ durable' = durable /\ now' = now /\ events' = events
      /\ quiet' \in [Sessions -> BOOLEAN] /\ Shrinks(VccAttempt, store, store')
  BY SessionTypes, DeleteShrinks DEF AutoFinish, VccInv, VccTypeOK
<1>2. Verdict(s, enabled) /\ enabled \in BOOLEAN
  BY DEF AutoFinish
<1>3. ASSUME enabled
      PROVE  \E i \in DOMAIN d.parts :
               /\ d.parts[i].kind = "success"
               /\ d.parts[i].revision = call[s].asked
               /\ \A j \in DOMAIN d.parts : j # i => d.parts[j].kind = "blank"
  <2>1. /\ a \in VccAttempt /\ a.textPartID \in DOMAIN d.parts
        /\ a.manifest <= call[s].asked /\ call[s].asked <= call[s].loaded.revision
    BY <1>1 DEF SessionInv, HeldSound, Continuing, Holding
  <2>2. call[s].loaded.revision = a.manifest
    BY <1>3
  <2>3. a.manifest = call[s].asked
    BY <1>1, <2>1, <2>2 DEF VccAttempt, Call
  <2>4. d.parts[a.textPartID].kind = "success" /\ d.parts[a.textPartID].revision = a.manifest
    BY <1>3 DEF Projection
  <2>5. \A j \in DOMAIN d.parts : j # a.textPartID => d.parts[j].kind = "blank"
    BY <1>1, <2>1, <2>4 DEF SessionInv, OneText, Written
  <2> QED BY <2>1, <2>3, <2>4, <2>5
<1> HIDE DEF enabled
<1> QED BY <1>1, <1>u, <1>2, <1>3, VerdictKeeps DEF d

LEMMA AutoFailKeeps == ASSUME VccInv, NEW s \in Sessions, AutoFail(s) PROVE VccInv'
<1>1. /\ call[s].at \in AutoPoints /\ Verdict(s, FALSE)
      /\ durable' = durable /\ now' = now /\ events' = events
      /\ quiet' \in [Sessions -> BOOLEAN] /\ Shrinks(VccAttempt, store, store')
  BY SameStore, QuietTypes DEF AutoFail, AutoPoints
<1> QED BY <1>1, VerdictKeeps

LEMMA HookKeeps == ASSUME VccInv, NEW s \in Sessions, HookStep(s) PROVE VccInv'
BY CompactingCollectKeeps, CompactingStoreKeeps, CompactingFailKeeps,
   TextStartKeeps, TextTargetKeeps, TextCollectKeeps, TextDropsKeeps, TextSettlesKeeps,
   AutoStartKeeps, AutoLoadKeeps, AutoCollectKeeps, AutoFinishKeeps, AutoFailKeeps DEF HookStep

----------------------------------------------------------------------------
(* Events, time and the whole *)

\* Attempts may be removed at any time.
LEMMA RemovedKeeps ==
    ASSUME VccInv, Shrinks(VccAttempt, store, store'), UNCHANGED <<durable, call>>,
           now' \in Nat, events' \in [Sessions -> Seq(Event)], quiet' \in [Sessions -> BOOLEAN]
    PROVE  VccInv'
<1>1. ASSUME NEW t \in Sessions
      PROVE  SessionInv(durable'[t], call'[t], store'.map[t])
  BY Forgotten DEF VccInv, Shrinks
<1>2. \A t \in Sessions : store'.map[t] # NoAttempt => Consistent(store'.map[t])
  BY <1>1 DEF SessionInv, StoredSound, Sound
<1>3. VccTypeOK'
  BY <1>2 DEF VccTypeOK, VccInv, Live, Shrinks
<1> QED BY <1>1, <1>3 DEF VccInv

LEMMA DeliverKeeps == ASSUME VccInv, NEW s \in Sessions, DeliverEvent(s) PROVE VccInv'
<1>1. Shrinks(VccAttempt, store, store')
  BY SessionTypes, DeleteShrinks DEF DeliverEvent
<1>2. events' \in [Sessions -> Seq(Event)]
  <2>1. Tail(events[s]) \in Seq(Event)
    BY DEF DeliverEvent, VccInv, VccTypeOK
  <2> QED BY <2>1 DEF DeliverEvent, VccInv, VccTypeOK
<1>3. quiet' \in [Sessions -> BOOLEAN]
  BY QuietTypes DEF DeliverEvent
<1> QED BY <1>1, <1>2, <1>3, RemovedKeeps DEF DeliverEvent, VccInv, VccTypeOK

LEMMA OtherKeeps == ASSUME VccInv, DeliverOtherEvent \/ Tick PROVE VccInv'
<1>1. Shrinks(VccAttempt, store, store')
  BY CleanupShrinks, SameStore DEF DeliverOtherEvent, Tick, VccInv, VccTypeOK
<1>2. /\ UNCHANGED <<durable, call>> /\ now' \in Nat /\ events' \in [Sessions -> Seq(Event)]
  BY DEF DeliverOtherEvent, Tick, VccInv, VccTypeOK
<1>3. quiet' \in [Sessions -> BOOLEAN]
  <2>1. CASE DeliverOtherEvent
    BY <2>1 DEF DeliverOtherEvent, VccInv, VccTypeOK
  <2>2. CASE Tick
    BY <2>2 DEF Tick
  <2> QED BY <2>1, <2>2
<1> QED BY <1>1, <1>2, <1>3, RemovedKeeps

LEMMA VccInitial == VccInit => VccInv
<1> SUFFICES ASSUME VccInit PROVE VccInv
  OBVIOUS
<1> USE DEF VccInit
<1>1. \A s \in Sessions : store.map[s] = NoAttempt /\ durable[s].parts = <<>> /\ durable[s].revision = 0
  BY DEF EmptyStore
<1>2. \A s \in Sessions : call[s].at = "idle" /\ call[s].loaded.revision = 0
  BY DEF IdleCall, NoSource
<1>3. ASSUME NEW s \in Sessions PROVE SessionInv(durable[s], call[s], store.map[s])
  BY <1>1, <1>2 DEF SessionInv, StoredSound, HeldSound, OneText, Continuing, Continues, Summarizing,
     TextPoints, Holding, AutoPoints
<1>4. durable \in [Sessions -> Durable]
  <2>1. Plain("raw") \in Text /\ <<>> \in Seq(Text)
    BY VccValues
  <2> QED BY <2>1 DEF Durable
<1>5. /\ store \in Stores(VccAttempt) /\ call \in [Sessions -> Call] /\ now \in Nat
      /\ events \in [Sessions -> Seq(Event)] /\ quiet \in [Sessions -> BOOLEAN]
  BY VccValues
<1>6. VccTypeOK
  BY <1>1, <1>4, <1>5 DEF VccTypeOK, Live
<1> QED BY <1>3, <1>6 DEF VccInv

LEMMA VccNextKeeps == VccInv /\ [VccNext]_vccvars => VccInv'
<1> SUFFICES ASSUME VccInv, [VccNext]_vccvars PROVE VccInv'
  OBVIOUS
<1>1. CASE \E s \in Sessions : SessionStep(s)
  BY <1>1, HostKeeps, HookKeeps, DeliverKeeps DEF SessionStep
<1>2. CASE DeliverOtherEvent \/ Tick
  BY <1>2, OtherKeeps
<1>3. CASE UNCHANGED vccvars
  BY <1>3, SameStore, RemovedKeeps DEF vccvars, VccInv, VccTypeOK
<1> QED BY <1>1, <1>2, <1>3 DEF VccNext

LEMMA VccInvariant == VccSpec => []VccInv
BY VccInitial, VccNextKeeps, PTL DEF VccSpec

\* Every attempt that is put into the store satisfies what set() demands, so that no hook
\* throws there (state.ts:142-148).
THEOREM VccTypeCorrect == VccSpec => []VccTypeOK
<1>1. VccInv => VccTypeOK
  BY DEF VccInv
<1> QED BY VccInvariant, <1>1, PTL

\* Auto-continuation fails closed: it is enabled only on a summary with one text, a
\* projection of the whole history as it was when the host asked (server.ts:643-691).
THEOREM VccContinuationSound == VccSpec => []VccContinueSound
<1>1. VccInv => VccContinueSound
  BY DEF VccInv, SessionInv, Continues, VccContinueSound
<1> QED BY VccInvariant, <1>1, PTL

\* A summary message gets at most one text, whatever ends the attempt between two of its
\* parts (server.ts:487-626).
THEOREM VccOneText == VccSpec => []OneSummaryText
<1>1. VccInv => OneSummaryText
  <2> SUFFICES ASSUME VccInv, NEW s \in Sessions
               PROVE  Cardinality({i \in DOMAIN durable[s].parts : durable[s].parts[i].kind # "blank"}) <= 1
    BY DEF OneSummaryText
  <2> DEFINE W == {i \in DOMAIN durable[s].parts : durable[s].parts[i].kind # "blank"}
  <2>1. \A i, j \in W : i = j
    BY SessionTypes DEF SessionInv, OneText, Written
  <2>2. CASE W = {}
    <3>1. Cardinality(W) = 0
      BY <2>2, FS_EmptySet, Zenon
    <3> QED BY <3>1
  <2>3. CASE W # {}
    <3>1. PICK i : W = {i}
      BY <2>1, <2>3
    <3>2. Cardinality(W) = 1
      BY <3>1, FS_Singleton, Zenon
    <3> QED BY <3>2
  <2> QED BY <2>2, <2>3
<1> QED BY VccInvariant, <1>1, PTL
----------------------------------------------------------------------------
(* The invariant of QuietContinues, of the durable session d, the call c and the attempt
   a of one session, at a time, as long as nothing disturbs its compaction. *)

\* The history the hooks read is the one the attempt was prepared from.
CollectedNow(d, c) == c.loaded.complete /\ c.loaded.revision = d.revision

Prepared(d, a) ==
    /\ a.sourceComplete /\ a.manifest = d.revision
    /\ a.outcome = "candidate_ready" /\ a.validation = "pending"
Unbound(a, target) == a.compactionTargetID = target /\ a.summaryMessageID = 0 /\ a.textPartID = 0
BoundToFirst(d, a) == a.summaryMessageID = d.compaction /\ a.textPartID = 1

\* The first text of the summary is the projection of the attempt.
Finished(d, a) ==
    /\ a.sourceComplete /\ a.manifest = d.revision
    /\ a.outcome = "vcc_success" /\ a.validation # "invalid"
    /\ BoundToFirst(d, a)
    /\ 1 \in DOMAIN d.parts /\ d.parts[1] = Projection(a.manifest, a.validation = "provider")

\* Stored in this instant, so that no clock can expire it.
Stored(a, time) == a # NoAttempt /\ a.createdAt = time

FirstText(d, c, a, time) ==
    /\ c.at \in {"stream", "text", "text_target"} =>
         Stored(a, time) /\ Prepared(d, a) /\ Unbound(a, d.compaction)
    /\ c.at = "text_target" => c.active = a
    /\ c.at \in {"text_prepare", "text_rest"} =>
         /\ c.active.createdAt = time /\ c.raw # "blank"
         /\ Prepared(d, c.active) /\ BoundToFirst(d, c.active)
    /\ c.at = "text_rest" => CollectedNow(d, c)

QuietSession(d, c, a, time) ==
    /\ c.at = "compacting_rest" => CollectedNow(d, c)
    /\ c.at = "summary" => Stored(a, time) /\ Prepared(d, a) /\ Unbound(a, d.compaction + 1)
    /\ Summarizing(c) /\ d.parts = <<>> => FirstText(d, c, a, time)
    /\ Summarizing(c) /\ d.parts # <<>> /\ d.spoke =>
         c.at \in {"stream", "text"} /\ Stored(a, time) /\ Finished(d, a)
    /\ c.at = "auto" /\ d.spoke => Stored(a, time) /\ Finished(d, a)
    /\ c.at \in {"auto_load", "auto_prepare", "auto_rest"} /\ d.spoke => Finished(d, c.active)
    /\ c.at = "auto_rest" => CollectedNow(d, c)
    /\ c.at = "verdict" /\ d.spoke => c.enabled

\* What the model wrote first is the part under way, and no attempt is from the future.
Spoken(d, c) ==
    Summarizing(c) /\ d.parts = <<>> => (d.spoke => c.at # "stream" /\ c.raw # "blank")
Aged(c, a, time) ==
    /\ a # NoAttempt => a.createdAt <= time
    /\ c.at \in Holding => c.active.createdAt <= time

SessionQuiet(d, c, a, time, still) ==
    Spoken(d, c) /\ Aged(c, a, time) /\ (still => QuietSession(d, c, a, time))

\* What the eviction relies on in a store that is not over its cap.
Irreflexive(st) == \A s \in Sessions : <<s, s>> \notin st.older

QuietInv ==
    /\ Irreflexive(store)
    /\ \A s \in Sessions : SessionQuiet(durable[s], call[s], store.map[s], now, quiet[s])

\* The sessions fit into the store.
Roomy == IsFiniteSet(Sessions) /\ Cardinality(Sessions) <= MaxAttempts

\* Of a session the store keeps its attempt, unless that is from before this instant.
KeepsStored(old, new, s, time) ==
    new.map[s] = old.map[s] \/ (new.map[s] = NoAttempt /\ ~Stored(old.map[s], time))

LEMMA CleanupKeepsStored ==
    ASSUME NEW st \in Stores(VccAttempt), Irreflexive(st), NEW time \in Nat,
           NEW clock \in Nat, clock <= time
    PROVE  /\ Irreflexive(CleanupExpired(st, clock))
           /\ \A s \in Sessions : KeepsStored(st, CleanupExpired(st, clock), s, time)
<1>1. Irreflexive(CleanupExpired(st, clock))
  BY DEF Irreflexive, CleanupExpired, KeepOnly
<1>2. ASSUME NEW s \in Sessions PROVE KeepsStored(st, CleanupExpired(st, clock), s, time)
  <2>1. Stored(st.map[s], time) => s \in Live(st) /\ ~Expired(st.map[s], clock)
    BY StoreAssumption DEF Stored, Live, Expired
  <2>2. st.map[s] \in VccAttempt \cup {NoAttempt}
    BY DEF Stores
  <2>3. CleanupExpired(st, clock).map[s] =
          IF s \in Live(st) /\ ~Expired(st.map[s], clock) THEN st.map[s] ELSE NoAttempt
    BY DEF CleanupExpired, KeepOnly
  <2> QED BY <2>1, <2>3 DEF KeepsStored
<1> QED BY <1>1, <1>2

LEMMA DeleteKeepsStored ==
    ASSUME NEW st \in Stores(VccAttempt), Irreflexive(st), NEW s \in Sessions, NEW time
    PROVE  /\ Irreflexive(Delete(st, s))
           /\ \A t \in Sessions \ {s} : KeepsStored(st, Delete(st, s), t, time)
BY DEF Irreflexive, Delete, KeepOnly, KeepsStored

\* What set() takes stays, and of the others what was stored in this instant.
LEMMA SetKeepsStored ==
    ASSUME Roomy, NEW st \in Stores(VccAttempt), Irreflexive(st), NEW s \in Sessions,
           NEW a \in VccAttempt, NEW time \in Nat, a.createdAt <= time
    PROVE  /\ Set(st, s, a) \in Stores(VccAttempt) /\ Irreflexive(Set(st, s, a))
           /\ Set(st, s, a).map[s] = a
           /\ \A t \in Sessions \ {s} : KeepsStored(st, Set(st, s, a), t, time)
<1> DEFINE clean == CleanupExpired(st, a.createdAt)
           new == Insert(clean, s, a)
<1>1. a.createdAt \in Nat
  BY DEF VccAttempt
<1>2. /\ clean \in Stores(VccAttempt) /\ Irreflexive(clean)
      /\ \A t \in Sessions : KeepsStored(st, clean, t, time)
  BY <1>1, CleanupKeepsStored, CleanupShrinks DEF Shrinks
<1> HIDE DEF clean
<1>3. /\ new \in Stores(VccAttempt) /\ new.map = [clean.map EXCEPT ![s] = a]
  BY <1>2, InsertStore
<1>4. Irreflexive(new)
  BY <1>2 DEF Insert, Irreflexive
<1> HIDE DEF new
<1>5. ASSUME NEW t \in Live(new)
      PROVE  Cardinality({u \in Live(new) : <<t, u>> \in new.older}) < MaxAttempts
  <2> DEFINE after == {u \in Live(new) : <<t, u>> \in new.older}
  <2>1. after \subseteq Sessions \ {t} /\ t \in Sessions
    BY <1>4, <1>5 DEF Irreflexive, Live
  <2> HIDE DEF after
  <2>2. IsFiniteSet(Sessions \ {t}) /\ Cardinality(Sessions \ {t}) = Cardinality(Sessions) - 1
    BY <2>1, FS_RemoveElement DEF Roomy
  <2>3. IsFiniteSet(after) /\ Cardinality(after) <= Cardinality(Sessions \ {t})
    BY <2>1, <2>2, FS_Subset
  <2>4. Cardinality(after) \in Nat /\ Cardinality(Sessions) \in Nat
    BY <2>3, FS_CardinalityType DEF Roomy
  <2>5. Cardinality(after) < MaxAttempts
    BY <2>2, <2>3, <2>4, StoreAssumption DEF Roomy
  <2> QED BY <2>5 DEF after
<1>6. Set(st, s, a) = KeepOnly(new, Live(new))
  <2>1. Set(st, s, a) = EvictOldest(new)
    BY DEF Set, new, clean
  <2>2. {t \in Live(new) : Cardinality({u \in Live(new) : <<t, u>> \in new.older}) < MaxAttempts} = Live(new)
    BY <1>5
  <2> QED BY <2>1, <2>2 DEF EvictOldest
<1>7. Set(st, s, a).map = new.map
  BY <1>3, <1>6 DEF KeepOnly, Live, Stores
<1>8. Irreflexive(Set(st, s, a))
  <2>1. Set(st, s, a).older \subseteq new.older
    BY <1>6 DEF KeepOnly
  <2> QED BY <1>4, <2>1 DEF Irreflexive
<1>9. Set(st, s, a) \in Stores(VccAttempt)
  BY SetStore
<1>10. new.map[s] = a /\ \A t \in Sessions \ {s} : new.map[t] = clean.map[t]
  BY <1>2, <1>3 DEF Stores
<1> QED BY <1>2, <1>7, <1>8, <1>9, <1>10 DEF KeepsStored

----------------------------------------------------------------------------
(* Quiet steps of one session *)

\* Forgetting an attempt from before this instant changes nothing that is quiet.
LEMMA QuietForgets ==
    ASSUME NEW d, NEW c, NEW a, NEW time, NEW still, ~Stored(a, time),
           SessionQuiet(d, c, a, time, still)
    PROVE  SessionQuiet(d, c, NoAttempt, time, still)
<1>1. Spoken(d, c) /\ Aged(c, NoAttempt, time)
  BY DEF SessionQuiet, Aged
<1>2. ASSUME still, QuietSession(d, c, a, time) PROVE QuietSession(d, c, NoAttempt, time)
  BY <1>2 DEF QuietSession, FirstText
<1> QED BY <1>1, <1>2 DEF SessionQuiet

\* What a step of session s has to show.
LEMMA QuietKeeps ==
    ASSUME QuietInv, NEW s \in Sessions, now' = now, Irreflexive(store'),
           \A t \in Sessions \ {s} :
               /\ durable'[t] = durable[t] /\ call'[t] = call[t] /\ quiet'[t] = quiet[t]
               /\ KeepsStored(store, store', t, now),
           SessionQuiet(durable'[s], call'[s], store'.map[s], now, quiet'[s])
    PROVE  QuietInv'
<1>1. ASSUME NEW t \in Sessions
      PROVE  SessionQuiet(durable'[t], call'[t], store'.map[t], now, quiet'[t])
  <2>1. CASE t = s
    BY <2>1
  <2>2. CASE t # s
    BY <2>2, QuietForgets DEF QuietInv, KeepsStored
  <2> QED BY <2>1, <2>2
<1>2. \A t \in Sessions : SessionQuiet(durable'[t], call'[t], store'.map[t], now', quiet'[t])
  BY <1>1
<1> QED BY <1>2 DEF QuietInv, Irreflexive, SessionQuiet, Spoken, Aged, QuietSession, FirstText, Finished,
        Stored, Prepared, Unbound, BoundToFirst, CollectedNow, Summarizing

\* Where the host is between the texts of a summary and the question, nothing is asked.
LEMMA QuietRests ==
    ASSUME NEW d, NEW c, NEW a, NEW time, NEW still,
           c.at \in {"idle", "turn", "gone", "compacting"} \/ (c.at = "text" /\ c.ordinary),
           a # NoAttempt => a.createdAt <= time
    PROVE  SessionQuiet(d, c, a, time, still)
<1>1. ~Summarizing(c) /\ c.at \notin Holding
  BY DEF Summarizing, TextPoints, Holding
<1>2. Spoken(d, c) /\ Aged(c, a, time)
  BY <1>1 DEF Spoken, Aged
<1>3. QuietSession(d, c, a, time)
  BY <1>1 DEF QuietSession
<1> QED BY <1>2, <1>3 DEF SessionQuiet

\* What belongs to one session.
LEMMA QuietTypesOf ==
    ASSUME VccInv, QuietInv, NEW s \in Sessions
    PROVE  /\ SessionQuiet(durable[s], call[s], store.map[s], now, quiet[s])
           /\ store.map[s] # NoAttempt => store.map[s].createdAt <= now
           /\ call[s].at \in Holding => call[s].active.createdAt <= now
           /\ \A t \in Sessions : KeepsStored(store, store, t, now)
           /\ now \in Nat /\ Irreflexive(store)
BY DEF QuietInv, SessionQuiet, Aged, KeepsStored, VccInv, VccTypeOK

\* The host moves on.
LEMMA QuietHostRests ==
    ASSUME VccInv, QuietInv, NEW s \in Sessions, NEW p \in {"idle", "turn", "gone"},
           HostReaches(s, p), store' = store, now' = now, quiet' = quiet,
           \A t \in Sessions \ {s} : durable'[t] = durable[t]
    PROVE  QuietInv'
<1>1. /\ call'[s].at = p
      /\ \A t \in Sessions \ {s} : call'[t] = call[t]
  BY ReachTypes DEF HostPoints
<1>2. SessionQuiet(durable'[s], call'[s], store'.map[s], now, quiet'[s])
  BY <1>1, QuietTypesOf, QuietRests
<1> QED BY <1>1, <1>2, QuietTypesOf, QuietKeeps

\* The history of a session is not quiet when a message is stored.
LEMMA QuietHistoryMoves ==
    ASSUME VccInv, QuietInv, NEW s \in Sessions, HistoryMoves(s) PROVE QuietInv'
<1>1. /\ durable'[s].parts = durable[s].parts /\ durable'[s].spoke = durable[s].spoke
      /\ \A t \in Sessions \ {s} : durable'[t] = durable[t]
  <2> DEFINE d == [durable[s] EXCEPT !.revision = durable[s].revision + 1]
  <2>1. durable' = [durable EXCEPT ![s] = d]
    BY DEF HistoryMoves
  <2>2. d.parts = durable[s].parts /\ d.spoke = durable[s].spoke
    BY SessionTypes DEF Durable
  <2> HIDE DEF d
  <2> QED BY <2>1, <2>2 DEF VccInv, VccTypeOK
<1>2. /\ ~quiet'[s] /\ \A t \in Sessions \ {s} : quiet'[t] = quiet[t]
  BY DEF HistoryMoves, Disturb, VccInv, VccTypeOK
<1>3. call' = call /\ store' = store /\ now' = now
  BY DEF HistoryMoves
<1>4. SessionQuiet(durable'[s], call'[s], store'.map[s], now, quiet'[s])
  BY <1>1, <1>2, <1>3, QuietTypesOf DEF SessionQuiet, Spoken
<1> QED BY <1>1, <1>2, <1>3, <1>4, QuietTypesOf, QuietKeeps

LEMMA QuietBeginCompaction ==
    ASSUME VccInv, QuietInv, NEW s \in Sessions, BeginCompaction(s) PROVE QuietInv'
<1>1. /\ call'[s].at = "compacting"
      /\ \A t \in Sessions \ {s} : call'[t] = call[t] /\ quiet'[t] = quiet[t]
  BY SessionTypes DEF BeginCompaction, VccInv, VccTypeOK, Call
<1>2. durable' = durable /\ store' = store /\ now' = now
  BY DEF BeginCompaction
<1>3. SessionQuiet(durable'[s], call'[s], store'.map[s], now, quiet'[s])
  BY <1>1, <1>2, QuietTypesOf, QuietRests
<1> QED BY <1>1, <1>2, <1>3, QuietTypesOf, QuietKeeps

LEMMA QuietStreamTurn ==
    ASSUME VccInv, QuietInv, NEW s \in Sessions, StreamTurn(s) PROVE QuietInv'
<1>1. /\ call'[s].at = "text" /\ call'[s].ordinary
      /\ \A t \in Sessions \ {s} : call'[t] = call[t]
  BY SessionTypes DEF StreamTurn, VccInv, VccTypeOK, Call
<1>2. durable' = durable /\ store' = store /\ now' = now /\ quiet' = quiet
  BY DEF StreamTurn
<1>3. SessionQuiet(durable'[s], call'[s], store'.map[s], now, quiet'[s])
  BY <1>1, <1>2, QuietTypesOf, QuietRests
<1> QED BY <1>1, <1>2, <1>3, QuietTypesOf, QuietKeeps

\* The summary message is the one the attempt expects.
LEMMA QuietWriteSummary ==
    ASSUME VccInv, QuietInv, NEW s \in Sessions, WriteSummary(s) PROVE QuietInv'
<1>1. /\ call[s].at = "summary" /\ call'[s].at = "stream"
      /\ \A t \in Sessions \ {s} : call'[t] = call[t]
  BY ReachTypes DEF WriteSummary, HostPoints
<1>2. /\ durable'[s].compaction = durable[s].compaction + 1 /\ durable'[s].parts = <<>>
      /\ durable'[s].spoke = FALSE /\ durable'[s].revision = durable[s].revision
      /\ \A t \in Sessions \ {s} : durable'[t] = durable[t]
  <2> DEFINE d == [durable[s] EXCEPT !.compaction = durable[s].compaction + 1, !.parts = <<>>, !.spoke = FALSE]
  <2>1. durable' = [durable EXCEPT ![s] = d]
    BY DEF WriteSummary
  <2>2. /\ d.compaction = durable[s].compaction + 1 /\ d.parts = <<>> /\ d.spoke = FALSE
        /\ d.revision = durable[s].revision
    BY SessionTypes DEF Durable
  <2> HIDE DEF d
  <2> QED BY <2>1, <2>2 DEF VccInv, VccTypeOK
<1>3. store' = store /\ now' = now /\ quiet' = quiet
  BY DEF WriteSummary
<1>4. Spoken(durable'[s], call'[s]) /\ Aged(call'[s], store'.map[s], now)
  BY <1>1, <1>2, <1>3, QuietTypesOf DEF Spoken, Aged, Holding
<1>5. ASSUME quiet'[s]
      PROVE  QuietSession(durable'[s], call'[s], store'.map[s], now)
  <2>1. QuietSession(durable[s], call[s], store.map[s], now)
    BY <1>3, <1>5, QuietTypesOf DEF SessionQuiet
  <2>2. /\ Stored(store'.map[s], now) /\ Prepared(durable'[s], store'.map[s])
        /\ Unbound(store'.map[s], durable'[s].compaction)
    BY <1>1, <1>2, <1>3, <2>1 DEF QuietSession, Prepared
  <2> QED BY <1>1, <1>2, <2>2 DEF QuietSession, FirstText
<1>6. SessionQuiet(durable'[s], call'[s], store'.map[s], now, quiet'[s])
  BY <1>4, <1>5 DEF SessionQuiet
<1> QED BY <1>1, <1>2, <1>3, <1>6, QuietTypesOf, QuietKeeps

LEMMA QuietStreamText ==
    ASSUME VccInv, QuietInv, NEW s \in Sessions, StreamText(s) PROVE QuietInv'
<1>1. PICK raw \in {"blank", "prose", "patch"} :
        /\ call' = [call EXCEPT ![s].at = "text", ![s].raw = raw]
        /\ durable' = [durable EXCEPT ![s].spoke = durable[s].spoke \/ (durable[s].parts = <<>> /\ raw # "blank")]
  BY DEF StreamText
<1>2. /\ call[s].at = "stream" /\ call'[s].at = "text" /\ call'[s].raw = raw
      /\ call'[s].ordinary = call[s].ordinary
      /\ \A t \in Sessions \ {s} : call'[t] = call[t]
  BY <1>1, SessionTypes DEF StreamText, VccInv, VccTypeOK, Call
<1>3. /\ durable'[s].parts = durable[s].parts /\ durable'[s].revision = durable[s].revision
      /\ durable'[s].compaction = durable[s].compaction
      /\ durable'[s].spoke = (durable[s].spoke \/ (durable[s].parts = <<>> /\ raw # "blank"))
      /\ \A t \in Sessions \ {s} : durable'[t] = durable[t]
  <2> DEFINE d == [durable[s] EXCEPT !.spoke = durable[s].spoke \/ (durable[s].parts = <<>> /\ raw # "blank")]
  <2>1. durable' = [durable EXCEPT ![s] = d]
    BY <1>1
  <2>2. /\ d.parts = durable[s].parts /\ d.revision = durable[s].revision
        /\ d.compaction = durable[s].compaction
        /\ d.spoke = (durable[s].spoke \/ (durable[s].parts = <<>> /\ raw # "blank"))
    BY SessionTypes DEF Durable
  <2> HIDE DEF d
  <2> QED BY <2>1, <2>2 DEF VccInv, VccTypeOK
<1>4. store' = store /\ now' = now /\ quiet' = quiet
  BY DEF StreamText
<1>5. SessionQuiet(durable[s], call[s], store.map[s], now, quiet[s])
  BY QuietTypesOf
<1>6. Spoken(durable'[s], call'[s]) /\ Aged(call'[s], store'.map[s], now)
  BY <1>2, <1>3, <1>4, <1>5 DEF SessionQuiet, Spoken, Aged, Holding, Summarizing
<1>7. ASSUME quiet'[s]
      PROVE  QuietSession(durable'[s], call'[s], store'.map[s], now)
  <2>1. QuietSession(durable[s], call[s], store.map[s], now)
    BY <1>4, <1>5, <1>7 DEF SessionQuiet
  <2>2. CASE durable[s].parts = <<>>
    <3>1. FirstText(durable'[s], call'[s], store'.map[s], now)
      BY <1>2, <1>3, <1>4, <2>1, <2>2 DEF QuietSession, FirstText, Prepared, Summarizing
    <3> QED BY <1>2, <1>3, <2>2, <3>1 DEF QuietSession
  <2>3. CASE durable[s].parts # <<>>
    <3>1. durable[s].spoke =>
            Stored(store'.map[s], now) /\ Finished(durable'[s], store'.map[s])
      BY <1>2, <1>3, <1>4, <2>1, <2>3 DEF QuietSession, Finished, BoundToFirst, Summarizing
    <3> QED BY <1>2, <1>3, <2>3, <3>1 DEF QuietSession
  <2> QED BY <2>2, <2>3
<1>8. SessionQuiet(durable'[s], call'[s], store'.map[s], now, quiet'[s])
  BY <1>6, <1>7 DEF SessionQuiet
<1> QED BY <1>2, <1>3, <1>4, <1>8, QuietTypesOf, QuietKeeps

\* A call that moves on with nothing else changed but the store of its session.
LEMMA QuietCalls ==
    ASSUME VccInv, QuietInv, NEW s \in Sessions, NEW c \in Call, call' = [call EXCEPT ![s] = c],
           durable' = durable, now' = now, quiet' = quiet, Irreflexive(store'),
           \A t \in Sessions \ {s} : KeepsStored(store, store', t, now),
           SessionQuiet(durable[s], c, store'.map[s], now, quiet[s])
    PROVE  QuietInv'
<1>1. call'[s] = c /\ \A t \in Sessions \ {s} : call'[t] = call[t]
  BY DEF VccInv, VccTypeOK
<1>2. SessionQuiet(durable'[s], call'[s], store'.map[s], now, quiet'[s])
  BY <1>1
<1> QED BY <1>1, <1>2, QuietKeeps

\* Whoever is asked after a first part with text has a finished attempt.
LEMMA QuietFinishSummary ==
    ASSUME VccInv, QuietInv, NEW s \in Sessions, FinishSummary(s) PROVE QuietInv'
<1>1. CASE HostReaches(s, "idle")
  BY <1>1, QuietHostRests DEF FinishSummary
<1>2. CASE call' = [call EXCEPT ![s].at = "auto", ![s].asked = durable[s].revision]
  <2> DEFINE c == [call[s] EXCEPT !.at = "auto", !.asked = durable[s].revision]
  <2>1. c \in Call
    BY SessionTypes, ZenonT(30) DEF Call, HookPoints, Durable
  <2>2. c.at = "auto"
    BY SessionTypes DEF Call
  <2>3. call' = [call EXCEPT ![s] = c]
    BY <1>2
  <2> HIDE DEF c
  <2>4. SessionQuiet(durable[s], call[s], store.map[s], now, quiet[s]) /\ call[s].at = "stream"
    BY QuietTypesOf DEF FinishSummary
  <2>5. Spoken(durable[s], c) /\ Aged(c, store.map[s], now)
    BY <2>2, <2>4 DEF SessionQuiet, Spoken, Aged, Summarizing, TextPoints, Holding
  <2>6. quiet[s] => QuietSession(durable[s], c, store.map[s], now)
    BY <2>2, <2>4 DEF SessionQuiet, Spoken, QuietSession, Summarizing, TextPoints
  <2>7. SessionQuiet(durable[s], c, store'.map[s], now, quiet[s])
    BY <2>5, <2>6 DEF SessionQuiet, FinishSummary
  <2> QED BY <2>1, <2>3, <2>7, QuietTypesOf, QuietCalls DEF FinishSummary
<1> QED BY <1>1, <1>2 DEF FinishSummary

LEMMA QuietHost == ASSUME VccInv, QuietInv, NEW s \in Sessions, HostStep(s) PROVE QuietInv'
<1>1. CASE Prompt(s)
  <2>1. \A t \in Sessions \ {s} : durable'[t] = durable[t]
    BY <1>1 DEF Prompt, VccInv, VccTypeOK
  <2> QED BY <1>1, <2>1, QuietHostRests DEF Prompt
<1>2. CASE FinishTurn(s) \/ CancelCompaction(s) \/ FailSummary(s) \/ ActOnVerdict(s) \/ DeleteSession(s)
  BY <1>2, QuietHostRests DEF FinishTurn, CancelCompaction, FailSummary, ActOnVerdict, DeleteSession
<1> QED BY <1>1, <1>2, QuietHistoryMoves, QuietStreamTurn, QuietBeginCompaction, QuietWriteSummary,
        QuietStreamText, QuietFinishSummary DEF HostStep

\* As long as it is quiet, the collection is complete.
LEMMA QuietCollects ==
    ASSUME VccInv, NEW s \in Sessions,
           NEW p \in {"compacting_rest", "text_rest", "auto_rest"}, CollectSession(s, p)
    PROVE  /\ call'[s].raw = call[s].raw
           /\ quiet'[s] => quiet[s] /\ CollectedNow(durable[s], call'[s])
           /\ \A t \in Sessions \ {s} : quiet'[t] = quiet[t]
<1>1. call'[s].raw = call[s].raw
  BY SessionTypes DEF CollectSession, VccInv, VccTypeOK, Call
<1>2. call'[s].loaded.revision = durable[s].revision
  BY CollectTypes
<1>3. CASE call'[s].loaded.complete
  BY <1>1, <1>2, <1>3 DEF CollectSession, CollectedNow
<1>4. CASE ~call'[s].loaded.complete
  BY <1>1, <1>4 DEF CollectSession, Disturb, VccInv, VccTypeOK
<1> QED BY <1>3, <1>4

LEMMA QuietCollectStep ==
    ASSUME VccInv, QuietInv, NEW s \in Sessions,
           CompactingCollect(s) \/ TextCollect(s) \/ AutoCollect(s)
    PROVE  QuietInv'
<1>1. PICK p \in {"compacting_rest", "text_rest", "auto_rest"} :
        /\ CollectSession(s, p)
        /\ <<call[s].at, p>> \in {<<"compacting", "compacting_rest">>, <<"text_prepare", "text_rest">>,
                                  <<"auto_prepare", "auto_rest">>}
  BY DEF CompactingCollect, TextCollect, AutoCollect
<1>2. /\ call'[s].at = p /\ call'[s].active = call[s].active /\ call'[s].ordinary = call[s].ordinary
      /\ call'[s].raw = call[s].raw
      /\ \A t \in Sessions \ {s} : call'[t] = call[t] /\ quiet'[t] = quiet[t]
      /\ store' = store /\ now' = now /\ durable' = durable
      /\ quiet'[s] => quiet[s] /\ CollectedNow(durable[s], call'[s])
  BY <1>1, CollectTypes, QuietCollects
<1>3. SessionQuiet(durable[s], call[s], store.map[s], now, quiet[s])
  BY QuietTypesOf
<1>4. Spoken(durable[s], call'[s]) /\ Aged(call'[s], store.map[s], now)
  BY <1>1, <1>2, <1>3 DEF SessionQuiet, Spoken, Aged, Summarizing, TextPoints, Holding
<1>5. ASSUME quiet'[s] PROVE QuietSession(durable[s], call'[s], store.map[s], now)
  <2>1. QuietSession(durable[s], call[s], store.map[s], now) /\ CollectedNow(durable[s], call'[s])
    BY <1>2, <1>3, <1>5 DEF SessionQuiet
  <2>2. CASE p = "compacting_rest"
    BY <1>2, <2>1, <2>2 DEF QuietSession, Summarizing, TextPoints
  <2>3. CASE p = "text_rest" /\ call[s].at = "text_prepare"
    <3>1. Summarizing(call'[s]) <=> Summarizing(call[s])
      BY <1>2, <2>3 DEF Summarizing, TextPoints
    <3>2. FirstText(durable[s], call[s], store.map[s], now) =>
            FirstText(durable[s], call'[s], store.map[s], now)
      BY <1>2, <2>1, <2>3 DEF FirstText
    <3> QED BY <1>2, <2>1, <2>3, <3>1, <3>2 DEF QuietSession
  <2>4. CASE p = "auto_rest" /\ call[s].at = "auto_prepare"
    BY <1>2, <2>1, <2>4 DEF QuietSession, Summarizing, TextPoints
  <2> QED BY <1>1, <2>2, <2>3, <2>4
<1>6. SessionQuiet(durable'[s], call'[s], store'.map[s], now, quiet'[s])
  BY <1>2, <1>4, <1>5 DEF SessionQuiet
<1> QED BY <1>2, <1>6, QuietTypesOf, QuietKeeps

LEMMA QuietCompactingStore ==
    ASSUME Roomy, VccInv, QuietInv, NEW s \in Sessions, CompactingStore(s) PROVE QuietInv'
<1>1. PICK found \in {TRUE, call[s].loaded.complete} :
        store' = Set(store, s, NewAttempt(call[s].loaded, IF found THEN durable[s].compaction + 1 ELSE 0))
  BY DEF CompactingStore
<1> DEFINE target == IF found THEN durable[s].compaction + 1 ELSE 0
           a == NewAttempt(call[s].loaded, target)
<1>2. target \in Nat
  BY SessionTypes DEF Durable
<1>3. store' = Set(store, s, a)
  BY <1>1
<1> HIDE DEF target
<1>4. a \in VccAttempt
  BY <1>2, SessionTypes DEF NewAttempt, VccAttempt, Outcome, Validation, Call, Collected, VccInv, VccTypeOK
<1>5. /\ a.createdAt = now /\ a.compactionTargetID = target /\ a.summaryMessageID = 0 /\ a.textPartID = 0
      /\ a.sourceComplete = call[s].loaded.complete /\ a.manifest = call[s].loaded.revision
      /\ call[s].loaded.complete => a.outcome = "candidate_ready"
      /\ a.validation = "pending"
  BY DEF NewAttempt
<1> HIDE DEF a
<1>6. /\ Irreflexive(store') /\ store'.map[s] = a /\ a # NoAttempt
      /\ \A t \in Sessions \ {s} : KeepsStored(store, store', t, now)
  <2>1. a.createdAt <= now /\ now \in Nat /\ store \in Stores(VccAttempt) /\ Irreflexive(store)
    BY <1>5, SessionTypes, QuietTypesOf
  <2>2. /\ Irreflexive(store') /\ store'.map[s] = a
        /\ \A t \in Sessions \ {s} : KeepsStored(store, store', t, now)
    BY <1>3, <1>4, <2>1, SetKeepsStored
  <2> QED BY <1>4, <2>2, VccAttemptAssumption
<1>7. /\ call[s].at = "compacting_rest" /\ call'[s].at = "summary"
      /\ \A t \in Sessions \ {s} : call'[t] = call[t]
      /\ durable' = durable /\ now' = now /\ quiet' = quiet
  BY ReachTypes DEF CompactingStore, HostPoints
<1>8. Spoken(durable[s], call'[s]) /\ Aged(call'[s], a, now)
  BY <1>5, <1>7, QuietTypesOf DEF Spoken, Aged, Summarizing, TextPoints, Holding
<1>9. ASSUME quiet[s] PROVE QuietSession(durable[s], call'[s], a, now)
  <2>1. CollectedNow(durable[s], call[s])
    BY <1>7, <1>9, QuietTypesOf DEF SessionQuiet, QuietSession
  <2>2. target = durable[s].compaction + 1
    BY <2>1 DEF CollectedNow, target
  <2>3. Stored(a, now) /\ Prepared(durable[s], a) /\ Unbound(a, durable[s].compaction + 1)
    BY <1>5, <1>6, <2>1, <2>2 DEF CollectedNow, Stored, Prepared, Unbound
  <2> QED BY <1>7, <2>3 DEF QuietSession, Summarizing, TextPoints
<1>10. SessionQuiet(durable'[s], call'[s], store'.map[s], now, quiet'[s])
  BY <1>6, <1>7, <1>8, <1>9 DEF SessionQuiet
<1> QED BY <1>6, <1>7, <1>10, QuietTypesOf, QuietKeeps

\* A step that fails disturbs its session.
LEMMA QuietDisturbed ==
    ASSUME VccInv, NEW s \in Sessions, Disturb(s)
    PROVE  ~quiet'[s] /\ \A t \in Sessions \ {s} : quiet'[t] = quiet[t]
BY DEF Disturb, VccInv, VccTypeOK

LEMMA QuietCompactingFail ==
    ASSUME VccInv, QuietInv, NEW s \in Sessions, CompactingFail(s) PROVE QuietInv'
<1>1. /\ call'[s].at = "summary" /\ \A t \in Sessions \ {s} : call'[t] = call[t]
      /\ durable' = durable /\ now' = now
  BY ReachTypes DEF CompactingFail, HostPoints
<1>2. /\ Irreflexive(store') /\ store'.map[s] = NoAttempt
      /\ \A t \in Sessions \ {s} : KeepsStored(store, store', t, now)
  BY SessionTypes, QuietTypesOf, DeleteKeepsStored, DeleteShrinks DEF CompactingFail
<1>3. ~quiet'[s] /\ \A t \in Sessions \ {s} : quiet'[t] = quiet[t]
  BY QuietDisturbed DEF CompactingFail
<1>4. SessionQuiet(durable'[s], call'[s], store'.map[s], now, quiet'[s])
  BY <1>1, <1>2, <1>3 DEF SessionQuiet, Spoken, Aged, Summarizing, TextPoints, Holding
<1> QED BY <1>1, <1>2, <1>3, <1>4, QuietKeeps

\* The text hook returns. After the first text of a summary, what is stored is finished.
LEMMA QuietReturn ==
    ASSUME VccInv, QuietInv, NEW s \in Sessions, NEW x \in Text, Return(s, x),
           now' = now, Irreflexive(store'),
           \A t \in Sessions \ {s} : quiet'[t] = quiet[t] /\ KeepsStored(store, store', t, now),
           store'.map[s] # NoAttempt => store'.map[s].createdAt <= now,
           quiet'[s] /\ ~call[s].ordinary /\ durable[s].spoke =>
               Stored(store'.map[s], now) /\ Finished(durable'[s], store'.map[s])
    PROVE  QuietInv'
<1>1. \A t \in Sessions \ {s} : durable'[t] = durable[t] /\ call'[t] = call[t]
  BY ReturnTypes
<1>2. CASE call[s].ordinary
  <2>1. call'[s].at = "turn"
    BY <1>2, ReturnTypes
  <2>2. SessionQuiet(durable'[s], call'[s], store'.map[s], now, quiet'[s])
    BY <2>1, QuietRests
  <2> QED BY <1>1, <2>2, QuietKeeps
<1>3. CASE ~call[s].ordinary
  <2>1. /\ call'[s].at = "stream" /\ durable'[s].parts = Append(durable[s].parts, x)
        /\ durable'[s].spoke = durable[s].spoke
    BY <1>3, ReturnTypes
  <2>2. durable'[s].parts # <<>>
    BY <2>1, SessionTypes DEF Durable
  <2>3. Spoken(durable'[s], call'[s]) /\ Aged(call'[s], store'.map[s], now)
    BY <2>1, <2>2 DEF Spoken, Aged, Holding
  <2>4. quiet'[s] => QuietSession(durable'[s], call'[s], store'.map[s], now)
    BY <1>3, <2>1, <2>2 DEF QuietSession
  <2>5. SessionQuiet(durable'[s], call'[s], store'.map[s], now, quiet'[s])
    BY <2>3, <2>4 DEF SessionQuiet
  <2> QED BY <1>1, <2>5, QuietKeeps
<1> QED BY <1>2, <1>3

LEMMA QuietTextDrops ==
    ASSUME VccInv, QuietInv, NEW s \in Sessions, TextUnrendered(s) \/ TextFail(s) PROVE QuietInv'
<1>1. Plain("blank") \in Text /\ Return(s, Plain("blank")) /\ now' = now /\ store' = Delete(store, s)
  BY VccValues DEF TextUnrendered, TextFail
<1>2. /\ Irreflexive(store') /\ store'.map[s] = NoAttempt
      /\ \A t \in Sessions \ {s} : KeepsStored(store, store', t, now)
  BY <1>1, SessionTypes, QuietTypesOf, DeleteKeepsStored, DeleteShrinks
<1>3. ~quiet'[s] /\ \A t \in Sessions \ {s} : quiet'[t] = quiet[t]
  BY QuietDisturbed DEF TextUnrendered, TextFail
<1> QED BY <1>1, <1>2, <1>3, QuietReturn

\* An attempt bound to the first part ignores the parts after it.
LEMMA QuietTextStart ==
    ASSUME VccInv, QuietInv, NEW s \in Sessions, TextStart(s) PROVE QuietInv'
<1> DEFINE st == CleanupExpired(store, now)
           active == st.map[s]
           ours == active # NoAttempt /\ ~BoundElsewhere(s, active)
<1>1. /\ call[s].at = "text" /\ call[s] \in Call /\ store' = st
      /\ now' = now /\ quiet' = quiet
  BY SessionTypes DEF TextStart
<1>2. /\ Irreflexive(st) /\ \A t \in Sessions : KeepsStored(store, st, t, now)
      /\ active \in {store.map[s], NoAttempt}
      /\ active # NoAttempt => active.createdAt <= now
  BY SessionTypes, QuietTypesOf, CleanupKeepsStored, CleanupShrinks DEF Shrinks
<1>3. SessionQuiet(durable[s], call[s], store.map[s], now, quiet[s])
  BY QuietTypesOf
<1>4. Stored(store.map[s], now) => active = store.map[s]
  BY <1>2 DEF KeepsStored
<1>5. ASSUME quiet[s], durable[s].parts = <<>>, ~call[s].ordinary
      PROVE  /\ ours /\ Stored(active, now) /\ Prepared(durable[s], active)
             /\ Unbound(active, durable[s].compaction)
  <2>1. /\ Stored(active, now) /\ Prepared(durable[s], active)
        /\ Unbound(active, durable[s].compaction)
    BY <1>1, <1>3, <1>4, <1>5 DEF SessionQuiet, QuietSession, FirstText, Summarizing, TextPoints
  <2>2. ours
    BY <2>1 DEF Stored, Unbound, BoundElsewhere
  <2> QED BY <2>1, <2>2
<1>6. ASSUME quiet[s], durable[s].parts # <<>>, ~call[s].ordinary, durable[s].spoke
      PROVE  ~ours /\ Stored(active, now) /\ Finished(durable[s], active)
  <2>1. Stored(active, now) /\ Finished(durable[s], active)
    BY <1>1, <1>3, <1>4, <1>6 DEF SessionQuiet, QuietSession, Summarizing, TextPoints
  <2>2. Part(s) # 1
    BY <1>6, SessionTypes DEF Part, Durable
  <2>3. ~ours
    BY <2>1, <2>2 DEF Finished, BoundToFirst, BoundElsewhere
  <2> QED BY <2>1, <2>3
<1> HIDE DEF active, st
<1>7. CASE ~ours /\ Return(s, Plain("blank"))
  <2>1. Plain("blank") \in Text
    BY VccValues
  <2>2. ASSUME quiet[s], ~call[s].ordinary, durable[s].spoke
        PROVE  Stored(active, now) /\ Finished(durable'[s], active)
    <3>1. durable[s].parts # <<>>
      BY <1>5, <1>7, <2>2
    <3>2. Stored(active, now) /\ Finished(durable[s], active)
      BY <1>6, <2>2, <3>1
    <3>3. /\ durable'[s].parts = Append(durable[s].parts, Plain("blank"))
          /\ durable'[s].revision = durable[s].revision
          /\ durable'[s].compaction = durable[s].compaction
      BY <1>7, <2>1, <2>2, ReturnTypes
    <3>4. 1 \in DOMAIN durable'[s].parts /\ durable'[s].parts[1] = durable[s].parts[1]
      BY <3>2, <3>3, SessionTypes DEF Finished, Durable
    <3> QED BY <3>2, <3>3, <3>4 DEF Finished, BoundToFirst
  <2>3. store'.map[s] = active
    BY <1>1 DEF active
  <2> HIDE DEF ours
  <2> QED BY <1>1, <1>2, <1>7, <2>1, <2>2, <2>3, QuietReturn
<1>8. CASE ours /\ call' = [call EXCEPT ![s].at = "text_target", ![s].active = active] /\ UNCHANGED durable
  <2> DEFINE c == [call[s] EXCEPT !.at = "text_target", !.active = active]
  <2>1. active \in VccAttempt
    BY <1>2, <1>8, SessionTypes
  <2>2. c \in Call
    BY <2>1, SessionTypes DEF Call, HookPoints
  <2>3. /\ c.at = "text_target" /\ c.active = active /\ c.raw = call[s].raw
        /\ c.ordinary = call[s].ordinary
    BY SessionTypes DEF Call
  <2>4. call' = [call EXCEPT ![s] = c]
    BY <1>8
  <2> HIDE DEF c
  <2>5. Spoken(durable[s], c) /\ Aged(c, active, now)
    BY <1>1, <1>2, <1>3, <1>8, <2>3 DEF SessionQuiet, Spoken, Aged, Summarizing, TextPoints
  <2>6. ASSUME quiet[s] PROVE QuietSession(durable[s], c, active, now)
    <3>1. Summarizing(c) <=> ~call[s].ordinary
      BY <2>3 DEF Summarizing, TextPoints
    <3>2. CASE call[s].ordinary
      BY <2>3, <3>1, <3>2 DEF QuietSession
    <3>3. CASE ~call[s].ordinary /\ durable[s].parts = <<>>
      BY <1>5, <2>3, <2>6, <3>3 DEF QuietSession, FirstText
    <3>4. CASE ~call[s].ordinary /\ durable[s].parts # <<>>
      BY <1>6, <1>8, <2>3, <2>6, <3>4 DEF QuietSession
    <3> QED BY <3>2, <3>3, <3>4
  <2>7. SessionQuiet(durable[s], c, store'.map[s], now, quiet[s])
    BY <1>1, <2>5, <2>6 DEF SessionQuiet, active
  <2> HIDE DEF ours
  <2> QED BY <1>1, <1>2, <1>8, <2>2, <2>4, <2>7, QuietCalls
<1> QED BY <1>7, <1>8 DEF TextStart, st, active, ours

\* What binding the attempt leaves as it is, and what it binds the first part to.
LEMMA QuietBind ==
    ASSUME VccInv, QuietInv, NEW s \in Sessions, call[s].at = "text_target",
           NEW b, b = Bind(s, call[s].active)
    PROVE  /\ b.createdAt = call[s].active.createdAt
           /\ Prepared(durable[s], call[s].active) => Prepared(durable[s], b)
           /\ call[s].active.summaryMessageID = 0 =>
                /\ b.summaryMessageID = durable[s].compaction
                /\ b.textPartID = Len(durable[s].parts) + 1
<1> DEFINE a == call[s].active
<1>1. a \in VccAttempt
  BY SessionTypes DEF SessionInv, HeldSound, Holding
<1>2. CASE a.summaryMessageID # 0
  BY <1>2 DEF Bind
<1>3. CASE a.summaryMessageID = 0
  <2>1. b = [a EXCEPT !.compactionTargetID = durable[s].compaction,
                      !.summaryMessageID = durable[s].compaction,
                      !.textPartID = Len(durable[s].parts) + 1]
    BY <1>3 DEF Bind, Part
  <2> HIDE DEF a
  <2>2. /\ b.createdAt = a.createdAt /\ b.sourceComplete = a.sourceComplete
        /\ b.manifest = a.manifest /\ b.outcome = a.outcome /\ b.validation = a.validation
        /\ b.summaryMessageID = durable[s].compaction
        /\ b.textPartID = Len(durable[s].parts) + 1
    BY <1>1, <2>1 DEF VccAttempt
  <2> QED BY <2>2 DEF Prepared, a
<1> QED BY <1>2, <1>3

\* Before its first text a quiet summary is the target of the attempt.
LEMMA QuietTextTarget ==
    ASSUME Roomy, VccInv, QuietInv, NEW s \in Sessions, TextTarget(s) PROVE QuietInv'
<1> DEFINE active == call[s].active
           bound == Bind(s, active)
           foreign == \/ call[s].ordinary
                      \/ /\ active.summaryMessageID = 0
                         /\ active.compactionTargetID \notin {0, durable[s].compaction}
           st == IF active.summaryMessageID = 0 THEN Set(store, s, bound) ELSE store
           none == [bound EXCEPT !.outcome = "no_text", !.validation = "invalid"]
<1>1. /\ call[s].at = "text_target" /\ call[s] \in Call /\ store \in Stores(VccAttempt)
      /\ now' = now /\ quiet' = quiet /\ now \in Nat
      /\ active.createdAt <= now /\ Irreflexive(store)
      /\ store.map[s] # NoAttempt => store.map[s].createdAt <= now
  BY SessionTypes, QuietTypesOf DEF TextTarget, Holding
<1>2. SessionQuiet(durable[s], call[s], store.map[s], now, quiet[s])
  BY QuietTypesOf
<1>3. ASSUME quiet[s], ~call[s].ordinary, durable[s].spoke
      PROVE  /\ ~foreign /\ durable[s].parts = <<>> /\ call[s].raw # "blank"
             /\ bound.createdAt = now /\ Prepared(durable[s], bound)
             /\ BoundToFirst(durable[s], bound)
  <2>1. Summarizing(call[s]) /\ QuietSession(durable[s], call[s], store.map[s], now)
    BY <1>1, <1>2, <1>3 DEF Summarizing, TextPoints, SessionQuiet
  <2>2. durable[s].parts = <<>>
    BY <1>1, <1>3, <2>1 DEF QuietSession
  <2>3. /\ active = store.map[s] /\ Stored(active, now) /\ Prepared(durable[s], active)
        /\ Unbound(active, durable[s].compaction)
    BY <1>1, <2>1, <2>2 DEF QuietSession, FirstText
  <2>4. call[s].raw # "blank"
    BY <1>2, <1>3, <2>1, <2>2 DEF SessionQuiet, Spoken
  <2>5. /\ bound.createdAt = now /\ Prepared(durable[s], bound) /\ BoundToFirst(durable[s], bound)
    BY <1>1, <2>2, <2>3, QuietBind DEF Stored, Unbound, BoundToFirst
  <2>6. ~foreign
    BY <1>3, <2>3 DEF Unbound
  <2> QED BY <2>2, <2>4, <2>5, <2>6
<1>4. ASSUME quiet[s], ~call[s].ordinary, ~durable[s].spoke, durable[s].parts = <<>>, ~foreign
      PROVE  /\ bound.createdAt = now /\ Prepared(durable[s], bound)
             /\ BoundToFirst(durable[s], bound)
  <2>1. /\ active = store.map[s] /\ Stored(active, now) /\ Prepared(durable[s], active)
        /\ Unbound(active, durable[s].compaction)
    BY <1>1, <1>2, <1>4 DEF SessionQuiet, QuietSession, FirstText, Summarizing, TextPoints
  <2> QED BY <1>1, <1>4, <2>1, QuietBind DEF Stored, Unbound, BoundToFirst
<1>5. ASSUME ~foreign
      PROVE  /\ bound \in VccAttempt /\ bound.createdAt <= now
             /\ st \in Stores(VccAttempt) /\ Irreflexive(st)
             /\ \A t \in Sessions \ {s} : KeepsStored(store, st, t, now)
             /\ st.map[s] # NoAttempt => st.map[s].createdAt <= now
  <2>1. bound \in VccAttempt /\ bound.createdAt = active.createdAt
    BY <1>1, <1>5, BindSound, QuietBind
  <2> HIDE DEF bound, foreign
  <2>2. CASE active.summaryMessageID = 0
    <3>1. bound.createdAt <= now /\ st = Set(store, s, bound)
      BY <1>1, <2>1, <2>2
    <3> HIDE DEF st, active
    <3>2. /\ st \in Stores(VccAttempt) /\ Irreflexive(st) /\ st.map[s] = bound
          /\ \A t \in Sessions \ {s} : KeepsStored(store, st, t, now)
      BY <1>1, <2>1, <3>1, SetKeepsStored
    <3> QED BY <2>1, <3>1, <3>2
  <2>3. CASE active.summaryMessageID # 0
    BY <1>1, <2>1, <2>3, QuietTypesOf
  <2> QED BY <2>2, <2>3
<1>6. Plain("blank") \in Text
  BY VccValues
<1>7. CASE foreign /\ Return(s, Plain("blank")) /\ UNCHANGED store
  <2>1. ~(quiet'[s] /\ ~call[s].ordinary /\ durable[s].spoke)
    BY <1>1, <1>3, <1>7
  <2> HIDE DEF foreign, active, bound, st, none
  <2>2. Return(s, Plain("blank")) /\ store' = store
    BY <1>7
  <2> QED BY <1>1, <1>6, <2>1, <2>2, QuietTypesOf, QuietReturn
<1>8. CASE /\ ~foreign /\ call[s].raw = "blank"
           /\ store' = Set(st, s, none)
           /\ Return(s, Plain("blank"))
  <2>1. ~(quiet'[s] /\ ~call[s].ordinary /\ durable[s].spoke)
    BY <1>1, <1>3, <1>8
  <2>2. none \in VccAttempt /\ none.createdAt = bound.createdAt
    <3> HIDE DEF bound
    <3> QED BY <1>5, <1>8 DEF VccAttempt, Outcome, Validation
  <2>3. Return(s, Plain("blank")) /\ store' = Set(st, s, none)
    BY <1>8
  <2>4. /\ none.createdAt <= now /\ st \in Stores(VccAttempt) /\ Irreflexive(st)
        /\ \A t \in Sessions \ {s} : KeepsStored(store, st, t, now)
    BY <1>5, <1>8, <2>2
  <2> HIDE DEF foreign, active, bound, st, none
  <2>5. /\ Irreflexive(store') /\ store'.map[s] = none
        /\ \A t \in Sessions \ {s} : KeepsStored(st, store', t, now)
    BY <1>1, <2>2, <2>3, <2>4, SetKeepsStored
  <2>6. \A t \in Sessions \ {s} : KeepsStored(store, store', t, now)
    BY <2>4, <2>5 DEF KeepsStored
  <2> QED BY <1>1, <1>6, <2>1, <2>3, <2>4, <2>5, <2>6, QuietReturn
<1>9. CASE /\ ~foreign /\ call[s].raw # "blank"
           /\ store' = st
           /\ call' = [call EXCEPT ![s].at = "text_prepare", ![s].active = bound]
           /\ UNCHANGED durable
  <2> DEFINE c == [call[s] EXCEPT !.at = "text_prepare", !.active = bound]
  <2>1. c \in Call
    <3> HIDE DEF bound
    <3> QED BY <1>1, <1>5, <1>9 DEF Call, HookPoints
  <2>2. /\ c.at = "text_prepare" /\ c.active = bound /\ c.raw = call[s].raw
        /\ c.ordinary = call[s].ordinary
    BY <1>1 DEF Call
  <2>3. call' = [call EXCEPT ![s] = c]
    BY <1>9
  <2> HIDE DEF c
  <2>4. Spoken(durable[s], c) /\ Aged(c, st.map[s], now)
    BY <1>5, <1>9, <2>2 DEF Spoken, Aged
  <2>5. ASSUME quiet[s] PROVE QuietSession(durable[s], c, st.map[s], now)
    <3>1. Summarizing(c) /\ ~call[s].ordinary
      BY <1>9, <2>2 DEF Summarizing, TextPoints
    <3>2. durable[s].parts = <<>> =>
            bound.createdAt = now /\ Prepared(durable[s], bound) /\ BoundToFirst(durable[s], bound)
      BY <1>3, <1>4, <1>9, <2>5, <3>1, SessionTypes DEF Durable
    <3>3. durable[s].parts # <<>> => ~durable[s].spoke
      BY <1>3, <2>5, <3>1
    <3> HIDE DEF bound, st
    <3>4. durable[s].parts = <<>> => FirstText(durable[s], c, st.map[s], now)
      BY <1>9, <2>2, <3>2 DEF FirstText
    <3> QED BY <2>2, <3>3, <3>4 DEF QuietSession
  <2>6. SessionQuiet(durable[s], c, store'.map[s], now, quiet[s])
    BY <1>9, <2>4, <2>5 DEF SessionQuiet
  <2>7. /\ durable' = durable /\ Irreflexive(store')
        /\ \A t \in Sessions \ {s} : KeepsStored(store, store', t, now)
    BY <1>5, <1>9
  <2> HIDE DEF foreign, active, bound, st, none
  <2> QED BY <1>1, <2>1, <2>3, <2>6, <2>7, QuietCalls
<1> QED BY <1>7, <1>8, <1>9 DEF TextTarget

\* The source of a quiet first text is the one its attempt was prepared from.
LEMMA QuietTextSettles ==
    ASSUME Roomy, VccInv, QuietInv, NEW s \in Sessions, TextDegraded(s) \/ TextSucceeded(s)
    PROVE  QuietInv'
<1> DEFINE a == call[s].active
<1>1. /\ call[s].at = "text_rest" /\ a \in VccAttempt /\ ~call[s].ordinary /\ call[s] \in Call
      /\ a.createdAt <= now /\ now' = now /\ quiet' = quiet /\ now \in Nat
      /\ store \in Stores(VccAttempt) /\ Irreflexive(store)
  BY SessionTypes, QuietTypesOf
     DEF TextDegraded, TextSucceeded, SessionInv, HeldSound, Holding
<1>2. SessionQuiet(durable[s], call[s], store.map[s], now, quiet[s])
  BY QuietTypesOf
<1>3. ASSUME quiet[s], durable[s].spoke
      PROVE  /\ durable[s].parts = <<>> /\ a.createdAt = now
             /\ Prepared(durable[s], a) /\ BoundToFirst(durable[s], a)
             /\ CollectedNow(durable[s], call[s])
  <2>1. Summarizing(call[s]) /\ QuietSession(durable[s], call[s], store.map[s], now)
    BY <1>1, <1>2, <1>3 DEF Summarizing, TextPoints, SessionQuiet
  <2>2. durable[s].parts = <<>>
    BY <1>1, <1>3, <2>1 DEF QuietSession
  <2> QED BY <1>1, <2>1, <2>2 DEF QuietSession, FirstText
<1>4. CASE TextDegraded(s)
  <2>1. \E x \in Text : Return(s, x)
    BY <1>4, VccValues DEF TextDegraded
  <2>2. store' = Set(store, s, Degraded(a))
    BY <1>4 DEF TextDegraded
  <2>3. ~(quiet'[s] /\ ~call[s].ordinary /\ durable[s].spoke)
    BY <1>1, <1>3, <1>4 DEF TextDegraded, SameCompleteSource, Prepared, CollectedNow
  <2> HIDE DEF a
  <2>4. Degraded(a) \in VccAttempt /\ Degraded(a).createdAt = a.createdAt
    BY <1>1 DEF Degraded, VccAttempt, Outcome, Validation
  <2>5. Degraded(a).createdAt <= now
    BY <1>1, <2>4
  <2> DEFINE b == Degraded(a)
  <2> HIDE DEF b
  <2>6. /\ Irreflexive(store') /\ store'.map[s] = b
        /\ \A t \in Sessions \ {s} : KeepsStored(store, store', t, now)
    BY <1>1, <2>2, <2>4, <2>5, SetKeepsStored DEF b
  <2>7. b.createdAt <= now
    BY <2>5 DEF b
  <2> QED BY <1>1, <2>1, <2>3, <2>6, <2>7, QuietReturn
<1>5. CASE TextSucceeded(s)
  <2> DEFINE accepted == call[s].raw = "patch"
             b == Succeeded(a, accepted)
             x == Projection(call[s].loaded.revision, accepted)
  <2>1. store' = Set(store, s, b) /\ Return(s, x)
    BY <1>5 DEF TextSucceeded
  <2>2. x \in Text
    BY <1>1, VccValues DEF Call, Collected
  <2> HIDE DEF a
  <2>3. /\ b \in VccAttempt /\ b.createdAt = a.createdAt /\ b.sourceComplete = a.sourceComplete
        /\ b.manifest = a.manifest /\ b.outcome = "vcc_success"
        /\ b.summaryMessageID = a.summaryMessageID /\ b.textPartID = a.textPartID
        /\ b.validation = IF accepted THEN "provider" ELSE "fallback"
    BY <1>1 DEF Succeeded, VccAttempt, Outcome, Validation
  <2> HIDE DEF b
  <2>4. /\ Irreflexive(store') /\ store'.map[s] = b
        /\ \A t \in Sessions \ {s} : KeepsStored(store, store', t, now)
    BY <1>1, <2>1, <2>3, SetKeepsStored
  <2>5. b # NoAttempt
    BY <2>3, VccAttemptAssumption
  <2>6. ASSUME quiet[s], durable[s].spoke
        PROVE  Stored(b, now) /\ Finished(durable'[s], b)
    <3>1. /\ durable[s].parts = <<>> /\ a.createdAt = now
          /\ a.sourceComplete /\ a.manifest = durable[s].revision
          /\ a.summaryMessageID = durable[s].compaction /\ a.textPartID = 1
          /\ call[s].loaded.revision = durable[s].revision
      BY <1>3, <2>6 DEF Prepared, BoundToFirst, CollectedNow, a
    <3>2. /\ durable'[s].parts = Append(durable[s].parts, x)
          /\ durable'[s].revision = durable[s].revision
          /\ durable'[s].compaction = durable[s].compaction
      BY <1>1, <2>1, <2>2, ReturnTypes
    <3>3. 1 \in DOMAIN durable'[s].parts /\ durable'[s].parts[1] = x
      <4> HIDE DEF x
      <4> QED BY <3>1, <3>2
    <3>4. x = Projection(b.manifest, b.validation = "provider")
      <4>1. (b.validation = "provider") = accepted
        BY <2>3
      <4> QED BY <2>3, <3>1, <4>1
    <3>5. b.validation # "invalid"
      BY <2>3
    <3> HIDE DEF x
    <3> QED BY <2>3, <2>5, <3>1, <3>2, <3>3, <3>4, <3>5 DEF Stored, Finished, BoundToFirst
  <2>7. b.createdAt <= now
    BY <1>1, <2>3
  <2> HIDE DEF x
  <2> QED BY <1>1, <2>1, <2>2, <2>4, <2>6, <2>7, QuietReturn
<1> QED BY <1>4, <1>5

\* The verdict of a session that is not quiet, or was silent, may be any.
LEMMA QuietVerdict ==
    ASSUME VccInv, QuietInv, NEW s \in Sessions, NEW enabled \in BOOLEAN, Verdict(s, enabled),
           durable' = durable, now' = now, Irreflexive(store'),
           \A t \in Sessions \ {s} : quiet'[t] = quiet[t] /\ KeepsStored(store, store', t, now),
           store'.map[s] # NoAttempt => store'.map[s].createdAt <= now,
           quiet'[s] /\ durable[s].spoke => enabled
    PROVE  QuietInv'
<1>1. /\ call'[s].at = "verdict" /\ call'[s].enabled = enabled
      /\ \A t \in Sessions \ {s} : call'[t] = call[t]
  BY SessionTypes DEF Verdict, VccInv, VccTypeOK, Call
<1>2. Spoken(durable[s], call'[s]) /\ Aged(call'[s], store'.map[s], now)
  BY <1>1 DEF Spoken, Aged, Summarizing, TextPoints, Holding
<1>3. quiet'[s] => QuietSession(durable[s], call'[s], store'.map[s], now)
  BY <1>1 DEF QuietSession, Summarizing, TextPoints
<1>4. SessionQuiet(durable'[s], call'[s], store'.map[s], now, quiet'[s])
  BY <1>2, <1>3 DEF SessionQuiet
<1> QED BY <1>1, <1>4, QuietKeeps

\* A finished attempt may continue.
LEMMA FinishedContinues ==
    ASSUME NEW d, NEW a, a # NoAttempt, Finished(d, a), Sound(d, a) PROVE Continuable(a)
BY DEF Finished, Sound, BoundToFirst, Continuable

LEMMA QuietAutoStart ==
    ASSUME VccInv, QuietInv, NEW s \in Sessions, AutoStart(s) PROVE QuietInv'
<1> DEFINE st == CleanupExpired(store, now)
           active == st.map[s]
<1>1. /\ call[s].at = "auto" /\ call[s] \in Call /\ store' = st
      /\ now' = now /\ quiet' = quiet /\ durable' = durable
  BY SessionTypes DEF AutoStart
<1>2. /\ Irreflexive(st) /\ \A t \in Sessions : KeepsStored(store, st, t, now)
      /\ active \in {store.map[s], NoAttempt}
      /\ active # NoAttempt => active.createdAt <= now
  BY SessionTypes, QuietTypesOf, CleanupKeepsStored, CleanupShrinks DEF Shrinks
<1>3. ASSUME quiet[s], durable[s].spoke
      PROVE  Finished(durable[s], active) /\ Continuable(active)
  <2>1. Stored(store.map[s], now) /\ Finished(durable[s], store.map[s])
    BY <1>1, <1>3, QuietTypesOf DEF SessionQuiet, QuietSession
  <2>2. active = store.map[s] /\ active # NoAttempt
    BY <1>2, <2>1 DEF KeepsStored, Stored
  <2>3. Sound(durable[s], active)
    BY <2>2, SessionTypes DEF SessionInv, StoredSound
  <2> QED BY <2>1, <2>2, <2>3, FinishedContinues
<1> HIDE DEF active, st
<1>4. CASE Continuable(active) /\ call' = [call EXCEPT ![s].at = "auto_load", ![s].active = active]
  <2> DEFINE c == [call[s] EXCEPT !.at = "auto_load", !.active = active]
  <2>1. active \in VccAttempt
    BY <1>2, <1>4, SessionTypes DEF Continuable
  <2>2. c \in Call
    BY <2>1, SessionTypes DEF Call, HookPoints
  <2>3. c.at = "auto_load" /\ c.active = active
    BY SessionTypes DEF Call
  <2>4. call' = [call EXCEPT ![s] = c]
    BY <1>4
  <2> HIDE DEF c
  <2>5. Spoken(durable[s], c) /\ Aged(c, active, now)
    BY <1>2, <1>4, <2>3 DEF Spoken, Aged, Summarizing, TextPoints, Continuable
  <2>6. quiet[s] => QuietSession(durable[s], c, active, now)
    BY <1>3, <2>3 DEF QuietSession, Summarizing, TextPoints
  <2>7. SessionQuiet(durable[s], c, store'.map[s], now, quiet[s])
    BY <1>1, <2>5, <2>6 DEF SessionQuiet, active
  <2> QED BY <1>1, <1>2, <2>2, <2>4, <2>7, QuietCalls
<1>5. CASE ~Continuable(active) /\ Verdict(s, FALSE)
  <2>1. store'.map[s] # NoAttempt => store'.map[s].createdAt <= now
    BY <1>1, <1>2 DEF active
  <2> QED BY <1>1, <1>2, <1>3, <1>5, <2>1, QuietVerdict
<1> QED BY <1>4, <1>5 DEF AutoStart, st, active

LEMMA QuietAutoLoad ==
    ASSUME VccInv, QuietInv, NEW s \in Sessions, AutoLoad(s) PROVE QuietInv'
<1> DEFINE a == call[s].active
           d == durable[s]
           found == /\ a.summaryMessageID = d.compaction
                    /\ a.textPartID \in DOMAIN d.parts
                    /\ d.parts[a.textPartID].kind # "blank"
<1>1. /\ call[s].at = "auto_load" /\ call[s] \in Call /\ store' = store
      /\ now' = now /\ quiet' = quiet /\ durable' = durable /\ Irreflexive(store)
      /\ \A t \in Sessions : KeepsStored(store, store, t, now)
      /\ a.createdAt <= now
      /\ store.map[s] # NoAttempt => store.map[s].createdAt <= now
  BY SessionTypes, QuietTypesOf DEF AutoLoad, Holding
<1>2. ASSUME quiet[s], d.spoke PROVE Finished(d, a) /\ found
  <2>1. Finished(d, a)
    BY <1>1, <1>2, QuietTypesOf DEF SessionQuiet, QuietSession
  <2>2. Projection(a.manifest, a.validation = "provider").kind = "success"
    BY DEF Projection
  <2> QED BY <2>1, <2>2 DEF Finished, BoundToFirst
<1>3. CASE found /\ call' = [call EXCEPT ![s].at = "auto_prepare"]
  <2> DEFINE c == [call[s] EXCEPT !.at = "auto_prepare"]
  <2>1. c \in Call /\ c.at = "auto_prepare" /\ c.active = a
    BY <1>1 DEF Call, HookPoints
  <2>2. call' = [call EXCEPT ![s] = c]
    BY <1>3
  <2> HIDE DEF c
  <2>3. Spoken(d, c) /\ Aged(c, store.map[s], now)
    BY <1>1, <2>1 DEF Spoken, Aged, Summarizing, TextPoints
  <2>4. quiet[s] => QuietSession(d, c, store.map[s], now)
    BY <1>2, <2>1 DEF QuietSession, Summarizing, TextPoints
  <2>5. SessionQuiet(durable[s], c, store'.map[s], now, quiet[s])
    BY <1>1, <2>3, <2>4 DEF SessionQuiet
  <2> QED BY <1>1, <2>1, <2>2, <2>5, QuietCalls
<1>4. CASE ~found /\ Verdict(s, FALSE)
  <2>1. ~(quiet'[s] /\ durable[s].spoke)
    BY <1>1, <1>2, <1>4
  <2> HIDE DEF found, a, d
  <2> QED BY <1>1, <1>4, <2>1, QuietVerdict
<1> QED BY <1>3, <1>4 DEF AutoLoad

\* The first text is the projection of the source that was collected.
LEMMA QuietAutoFinish ==
    ASSUME VccInv, QuietInv, NEW s \in Sessions, AutoFinish(s) PROVE QuietInv'
<1> DEFINE a == call[s].active
           d == durable[s]
           enabled == /\ call[s].loaded = [complete |-> TRUE, revision |-> a.manifest]
                      /\ d.parts[a.textPartID] = Projection(a.manifest, a.validation = "provider")
<1>1. /\ call[s].at = "auto_rest" /\ call[s] \in Call /\ store' = Delete(store, s)
      /\ now' = now /\ quiet' = quiet /\ durable' = durable
      /\ Verdict(s, enabled) /\ enabled \in BOOLEAN
  BY SessionTypes DEF AutoFinish
<1>2. /\ Irreflexive(store') /\ store'.map[s] = NoAttempt
      /\ \A t \in Sessions \ {s} : KeepsStored(store, store', t, now)
  BY <1>1, SessionTypes, QuietTypesOf, DeleteKeepsStored, DeleteShrinks
<1>3. quiet[s] /\ d.spoke => enabled
  <2> SUFFICES ASSUME quiet[s], d.spoke PROVE enabled
    OBVIOUS
  <2>1. Finished(d, a) /\ CollectedNow(d, call[s])
    BY <1>1, QuietTypesOf DEF SessionQuiet, QuietSession
  <2>2. call[s].loaded \in Collected
    BY <1>1 DEF Call
  <2>3. call[s].loaded = [complete |-> TRUE, revision |-> a.manifest]
    BY <2>1, <2>2 DEF Finished, CollectedNow, Collected
  <2> QED BY <2>1, <2>3 DEF Finished, BoundToFirst
<1> HIDE DEF enabled
<1> QED BY <1>1, <1>2, <1>3, QuietVerdict

LEMMA QuietAutoFail ==
    ASSUME VccInv, QuietInv, NEW s \in Sessions, AutoFail(s) PROVE QuietInv'
<1>1. /\ Verdict(s, FALSE) /\ durable' = durable /\ now' = now /\ store' = store
      /\ ~quiet'[s] /\ \A t \in Sessions \ {s} : quiet'[t] = quiet[t]
  BY QuietDisturbed DEF AutoFail
<1> QED BY <1>1, QuietTypesOf, QuietVerdict

LEMMA QuietHooks ==
    ASSUME Roomy, VccInv, QuietInv, NEW s \in Sessions, HookStep(s) PROVE QuietInv'
BY QuietCollectStep, QuietCompactingStore, QuietCompactingFail, QuietTextStart, QuietTextTarget,
   QuietTextDrops, QuietTextSettles, QuietAutoStart, QuietAutoLoad, QuietAutoFinish, QuietAutoFail
   DEF HookStep

LEMMA QuietDeliver ==
    ASSUME VccInv, QuietInv, NEW s \in Sessions, DeliverEvent(s) PROVE QuietInv'
<1>1. /\ store' = Delete(store, s) /\ durable' = durable /\ call' = call /\ now' = now
      /\ ~quiet'[s] /\ \A t \in Sessions \ {s} : quiet'[t] = quiet[t]
  BY QuietDisturbed DEF DeliverEvent
<1>2. /\ Irreflexive(store') /\ store'.map[s] = NoAttempt
      /\ \A t \in Sessions \ {s} : KeepsStored(store, store', t, now)
  BY <1>1, SessionTypes, QuietTypesOf, DeleteKeepsStored, DeleteShrinks
<1>3. SessionQuiet(durable'[s], call'[s], store'.map[s], now, quiet'[s])
  BY <1>1, <1>2, QuietTypesOf DEF SessionQuiet, Aged
<1> QED BY <1>1, <1>2, <1>3, QuietKeeps

LEMMA QuietOthers == ASSUME VccInv, QuietInv, DeliverOtherEvent PROVE QuietInv'
<1>1. store' = CleanupExpired(store, now) /\ UNCHANGED <<now, durable, call, quiet>>
  BY DEF DeliverOtherEvent
<1>2. /\ Irreflexive(store')
      /\ \A t \in Sessions : KeepsStored(store, store', t, now)
  BY <1>1, CleanupKeepsStored DEF QuietInv, VccInv, VccTypeOK
<1>3. ASSUME NEW t \in Sessions
      PROVE  SessionQuiet(durable[t], call[t], store'.map[t], now, quiet[t])
  BY <1>2, QuietForgets DEF QuietInv, KeepsStored
<1>4. ASSUME NEW t \in Sessions
      PROVE  SessionQuiet(durable'[t], call'[t], store'.map[t], now', quiet'[t])
  BY <1>1, <1>3
<1> QED BY <1>2, <1>4 DEF QuietInv, Irreflexive

\* No session is quiet when time passes.
LEMMA QuietTick == ASSUME VccInv, QuietInv, Tick PROVE QuietInv'
<1>1. /\ UNCHANGED <<store, durable, call>> /\ now' = now + 1 /\ now \in Nat
      /\ \A t \in Sessions : ~quiet'[t]
  BY DEF Tick, VccInv, VccTypeOK
<1>2. ASSUME NEW t \in Sessions
      PROVE  SessionQuiet(durable'[t], call'[t], store'.map[t], now', quiet'[t])
  <2>1. SessionQuiet(durable[t], call[t], store.map[t], now, quiet[t])
    BY QuietTypesOf
  <2>2. store.map[t] # NoAttempt => store.map[t].createdAt \in Nat
    BY SessionTypes DEF VccAttempt
  <2>3. call[t].at \in Holding => call[t].active.createdAt \in Nat
    BY SessionTypes DEF SessionInv, HeldSound, VccAttempt
  <2>4. Aged(call[t], store.map[t], now + 1)
    BY <1>1, <2>1, <2>2, <2>3 DEF SessionQuiet, Aged
  <2> QED BY <1>1, <2>1, <2>4 DEF SessionQuiet
<1> QED BY <1>1, <1>2 DEF QuietInv, Irreflexive

LEMMA QuietInitial == VccInit => QuietInv
<1> SUFFICES ASSUME VccInit PROVE QuietInv
  OBVIOUS
<1>1. Irreflexive(store) /\ \A s \in Sessions : store.map[s] = NoAttempt
  BY DEF VccInit, EmptyStore, Irreflexive
<1>2. \A s \in Sessions : call[s].at = "idle"
  BY DEF VccInit, IdleCall
<1> QED BY <1>1, <1>2, QuietRests DEF QuietInv

LEMMA QuietNext == Roomy /\ VccInv /\ QuietInv /\ [VccNext]_vccvars => QuietInv'
<1> SUFFICES ASSUME Roomy, VccInv, QuietInv, [VccNext]_vccvars PROVE QuietInv'
  OBVIOUS
<1>1. CASE \E s \in Sessions : SessionStep(s)
  BY <1>1, QuietHost, QuietHooks, QuietDeliver DEF SessionStep
<1>2. CASE DeliverOtherEvent
  BY <1>2, QuietOthers
<1>3. CASE Tick
  BY <1>3, QuietTick
<1>4. CASE UNCHANGED vccvars
  <2>1. UNCHANGED <<store, durable, call, now, quiet>>
    BY <1>4 DEF vccvars
  <2>2. \A t \in Sessions : SessionQuiet(durable'[t], call'[t], store'.map[t], now', quiet'[t])
    BY <2>1 DEF QuietInv
  <2> QED BY <2>1, <2>2 DEF QuietInv, Irreflexive
<1> QED BY <1>1, <1>2, <1>3, <1>4 DEF VccNext

\* When nothing fails, no message and no event arrives during the compaction, a response
\* with text in its first part continues, patched or not (server.ts:591-626, 674-690), as long
\* as the sessions fit into the store: one session more may evict an attempt in use.
THEOREM VccQuietContinues ==
    ASSUME IsFiniteSet(Sessions), Cardinality(Sessions) <= MaxAttempts
    PROVE  VccSpec => []QuietContinues
<1>1. Roomy
  BY DEF Roomy
<1>2. VccInit => VccInv /\ QuietInv
  BY VccInitial, QuietInitial
<1>3. VccInv /\ QuietInv /\ [VccNext]_vccvars => (VccInv /\ QuietInv)'
  BY <1>1, VccNextKeeps, QuietNext
<1>4. QuietInv => QuietContinues
  BY DEF QuietInv, SessionQuiet, QuietSession, QuietContinues
<1> QED BY <1>2, <1>3, <1>4, PTL DEF VccSpec

----------------------------------------------------------------------------
(* VccSource: what the events of messages are. *)

\* A message with an ID; its content may be anything.
IsMessage(m) ==
    m = [id |-> m.id, kind |-> m.kind, ended |-> m.ended, parent |-> m.parent] /\ m.id \in Nat \ {0}

AllParts == {"message", "tool_call", "tool_result", "question_answer"}
EventsFrom(M) == {CanonicalEvent(m, part, k) : m \in M, part \in AllParts, k \in Nat}

LEMMA PartsOf ==
    ASSUME NEW m
    PROVE  /\ EventParts(m) \in Seq(AllParts) /\ Len(EventParts(m)) \in 0 .. 3
           /\ DOMAIN EventParts(m) = 1 .. Len(EventParts(m))
           /\ \A i \in 1 .. Len(EventParts(m)) : EventParts(m)[i] \in AllParts
           /\ \A i, j \in 1 .. Len(EventParts(m)) : EventParts(m)[i] = EventParts(m)[j] => i = j
           /\ ~Unsupported(m) => Len(EventParts(m)) > 0
  <1> DEFINE one == <<"message">>
             two == <<"message", "tool_call">>
             asked == <<"message", "tool_call", "question_answer">>
             done == <<"message", "tool_call", "tool_result">>
             GoodParts(s) ==
               /\ s \in Seq(AllParts) /\ Len(s) \in 1 .. 3 /\ DOMAIN s = 1 .. Len(s)
               /\ \A i \in 1 .. Len(s) : s[i] \in AllParts
               /\ \A i, j \in 1 .. Len(s) : s[i] = s[j] => i = j
  <1>1. EventParts(m) \in {one, two, asked, done} \/ (EventParts(m) = <<>> /\ Unsupported(m))
    BY DEF EventParts, Unsupported, Tools
  <1>2. GoodParts(one)
    BY DEF AllParts
  <1>3. GoodParts(two)
    BY DEF AllParts
  <1>4. GoodParts(asked)
    BY DEF AllParts
  <1>5. GoodParts(done)
    BY DEF AllParts
  <1>6. CASE EventParts(m) \in {one, two, asked, done}
    <2>1. GoodParts(EventParts(m))
      <3> HIDE DEF one, two, asked, done, GoodParts
      <3> QED  BY <1>2, <1>3, <1>4, <1>5, <1>6
    <2>2. \A s : GoodParts(s) => s \in Seq(AllParts) /\ Len(s) \in 0 .. 3 /\ Len(s) > 0 /\ DOMAIN s = 1 .. Len(s)
      OBVIOUS
    <2>3. \A s : GoodParts(s) => (\A i \in 1 .. Len(s) : s[i] \in AllParts)
                                 /\ \A i, j \in 1 .. Len(s) : s[i] = s[j] => i = j
      BY Zenon
    <2> HIDE DEF one, two, asked, done, GoodParts
    <2> QED  BY ONLY <2>1, <2>2, <2>3, Zenon
  <1>7. CASE EventParts(m) = <<>> /\ Unsupported(m)
    BY <1>7
  <1> HIDE DEF one, two, asked, done, GoodParts
  <1> QED  BY <1>1, <1>6, <1>7

LEMMA FieldsOf ==
    ASSUME NEW m, NEW part, NEW k
    PROVE  /\ CanonicalEvent(m, part, k).id = <<m.id, part>>
           /\ CanonicalEvent(m, part, k).sequence = k
           /\ CanonicalEvent(m, part, k).record = m
           /\ CanonicalEvent(m, part, k).handle = ArchiveHandle(m, part)
           /\ CanonicalEvent(m, part, k).size \in 1 .. 3
  <1>1. CanonicalEvent(m, part, k).size \in {1, 3}
    BY DEF CanonicalEvent, LongSize
  <1> QED  BY <1>1 DEF CanonicalEvent

\* A handle tells the message's ID, the part, and with the payload the size of the item.
LEMMA HandleTells ==
    ASSUME NEW m, NEW part
    PROVE  /\ ArchiveHandle(m, part)[1] = m.id /\ ArchiveHandle(m, part)[2] = part
           /\ ArchiveHandle(m, part)[3][1] = m.kind
  BY DEF ArchiveHandle, Payload

LEMMA SameHandleSameSize ==
    ASSUME NEW m, NEW part, NEW k, NEW n, NEW other, NEW j,
           CanonicalEvent(m, part, k).handle = CanonicalEvent(n, other, j).handle
    PROVE  CanonicalEvent(m, part, k).size = CanonicalEvent(n, other, j).size
  <1>1. ArchiveHandle(m, part) = ArchiveHandle(n, other)
    BY FieldsOf
  <1>2. part = other /\ m.kind = n.kind
    BY <1>1, HandleTells
  <1> QED  BY <1>2 DEF CanonicalEvent

LEMMA HandlesAre ==
    ASSUME NEW M, NEW h
    PROVE  h \in HandlesOf(M) <=>
             \E m \in M : ~Advisory(m) /\ \E part \in ToSet(EventParts(m)) : h = ArchiveHandle(m, part)
  BY DEF HandlesOf

\* The events of the first n messages: each of a part of one of them, numbered from 0, each
\* part of each of them, and in the order of the messages.
Lists(messages, n, s) ==
    /\ \A i \in 1 .. Len(s) : \E j \in 1 .. n : \E p \in 1 .. Len(EventParts(messages[j])) :
         s[i] = CanonicalEvent(messages[j], EventParts(messages[j])[p], i - 1)
    /\ \A j \in 1 .. n : \A p \in 1 .. Len(EventParts(messages[j])) : \E i \in 1 .. Len(s) :
         s[i] = CanonicalEvent(messages[j], EventParts(messages[j])[p], i - 1)
    /\ \A i, k \in 1 .. Len(s) : i < k => s[i].id # s[k].id /\ s[i].id[1] <= s[k].id[1]

Upwards(messages) ==
    /\ \A i \in 1 .. Len(messages) : messages[i].id \in Nat
    /\ \A i, j \in 1 .. Len(messages) : i < j => messages[i].id < messages[j].id

LEMMA ToEventsIs ==
    ASSUME NEW M, NEW m \in M, NEW k \in Nat
    PROVE  /\ ToEvents(m, k) \in Seq(EventsFrom(M)) /\ Len(ToEvents(m, k)) = Len(EventParts(m))
           /\ \A i \in 1 .. Len(EventParts(m)) :
                ToEvents(m, k)[i] = CanonicalEvent(m, EventParts(m)[i], (k + i) - 1)
  <1> DEFINE n == Len(EventParts(m))
             e(i) == CanonicalEvent(m, EventParts(m)[i], k + i - 1)
  <1>1. n \in Nat /\ DOMAIN EventParts(m) = 1 .. n /\ \A i \in 1 .. n : EventParts(m)[i] \in AllParts
    BY PartsOf
  <1>2. ToEvents(m, k) = [i \in 1 .. n |-> e(i)]
    BY <1>1 DEF ToEvents
  <1>3. \A i \in 1 .. n : e(i) \in EventsFrom(M)
    <2> TAKE i \in 1 .. n
    <2>1. k + i - 1 \in Nat /\ EventParts(m)[i] \in AllParts
      BY <1>1
    <2> QED  BY <2>1 DEF EventsFrom
  <1>4. \A i \in 1 .. n : e(i) = CanonicalEvent(m, EventParts(m)[i], (k + i) - 1)
    <2> TAKE i \in 1 .. n
    <2>1. k + i - 1 = (k + i) - 1
      BY <1>1
    <2> HIDE DEF n
    <2> QED  BY <2>1
  <1> HIDE DEF n, e
  <1>5. ToEvents(m, k) \in Seq(EventsFrom(M)) /\ Len(ToEvents(m, k)) = n
    BY <1>1, <1>2, <1>3
  <1> QED  BY <1>2, <1>4, <1>5 DEF n

LEMMA ListsGrow ==
    ASSUME NEW M, NEW messages \in Seq(M), Upwards(messages), NEW n \in 0 .. Len(messages), n < Len(messages),
           NEW s \in Seq(EventsFrom(M)), Lists(messages, n, s)
    PROVE  Lists(messages, n + 1, s \o ToEvents(messages[n + 1], Len(s)))
  <1> DEFINE m == messages[n + 1]
             new == ToEvents(m, Len(s))
             t == s \o new
             l == Len(s)
             q == Len(EventParts(m))
             Of(j, p, i) == CanonicalEvent(messages[j], EventParts(messages[j])[p], i - 1)
             Number(j) == Len(EventParts(messages[j]))
  <1>1. n \in Nat /\ n + 1 \in 1 .. Len(messages) /\ m \in M /\ l \in Nat
    OBVIOUS
  <1>2. new \in Seq(EventsFrom(M)) /\ Len(new) = q
        /\ \A i \in 1 .. q : new[i] = CanonicalEvent(m, EventParts(m)[i], (l + i) - 1)
    <2> HIDE DEF m
    <2> QED  BY <1>1, ToEventsIs
  <1>3. q \in Nat /\ \A i, j \in 1 .. q : EventParts(m)[i] = EventParts(m)[j] => i = j
    BY PartsOf
  <1> HIDE DEF new, q
  <1>4. Len(t) = l + q /\ (\A i \in 1 .. l : t[i] = s[i]) /\ \A i \in 1 .. q : t[l + i] = new[i]
    <2> DEFINE X == EventsFrom(M)
    <2>1. s \in Seq(X) /\ new \in Seq(X) /\ Len(new) = q
      BY <1>2
    <2> HIDE DEF X
    <2> QED  BY <1>1, <1>3, <2>1 DEF l
  <1> HIDE DEF t, l
  <1>5. \A i \in 1 .. q : t[l + i] = Of(n + 1, i, l + i)
    <2> TAKE i \in 1 .. q
    <2>1. t[l + i] = CanonicalEvent(m, EventParts(m)[i], (l + i) - 1)
      BY <1>2, <1>4
    <2> QED  BY <2>1, Zenon
  <1>6. \A i \in 1 .. Len(t) : i \in 1 .. l \/ \E p \in 1 .. q : i = l + p
    <2> TAKE i \in 1 .. Len(t)
    <2>1. i \in 1 .. l + q
      BY <1>4
    <2>2. CASE i > l
      <3>1. i - l \in 1 .. q /\ i = l + (i - l)
        BY <1>1, <1>3, <2>1, <2>2
      <3> QED  BY <3>1
    <2> QED  BY <1>1, <1>3, <2>1, <2>2
  <1>7. \A i \in 1 .. l : \E j \in 1 .. n : \E p \in 1 .. Number(j) : t[i] = Of(j, p, i)
    <2> TAKE i \in 1 .. l
    <2>1. \E j \in 1 .. n : \E p \in 1 .. Number(j) : s[i] = Of(j, p, i)
      BY Zenon DEF Lists, l
    <2>2. t[i] = s[i]
      BY <1>4
    <2> HIDE DEF Of, Number
    <2> QED  BY <2>1, <2>2
  <1>8. Number(n + 1) = q
    BY DEF q
  <1>9. ASSUME NEW i \in 1 .. Len(t)
        PROVE  \E j \in 1 .. n + 1 : \E p \in 1 .. Number(j) : t[i] = Of(j, p, i)
    <2> HIDE DEF Number, Of
    <2>1. CASE i \in 1 .. l
      <3>1. \A j \in 1 .. n : j \in 1 .. n + 1
        BY <1>1
      <3> QED  BY <1>7, <2>1, <3>1
    <2>2. CASE i \notin 1 .. l
      <3>1. PICK p \in 1 .. q : i = l + p
        BY <1>6, <2>2
      <3>2. n + 1 \in 1 .. n + 1
        BY <1>1
      <3> QED  BY <1>5, <1>8, <3>1, <3>2
    <2> QED  BY <2>1, <2>2
  <1>10. \A i \in 1 .. l : i \in 1 .. Len(t)
    BY <1>1, <1>3, <1>4
  <1>11. ASSUME NEW j \in 1 .. n + 1, NEW p \in 1 .. Number(j)
         PROVE  \E i \in 1 .. Len(t) : t[i] = Of(j, p, i)
    <2>1. CASE j \in 1 .. n
      <3>1. PICK i \in 1 .. l : s[i] = Of(j, p, i)
        BY <2>1 DEF Lists, l
      <3> HIDE DEF Of
      <3> QED  BY <1>4, <1>10, <3>1
    <2>2. CASE j = n + 1
      <3>1. p \in 1 .. q /\ l + p \in 1 .. Len(t)
        <4>1. p \in 1 .. q
          <5> HIDE DEF Number
          <5> QED  BY <1>8, <2>2
        <4> QED  BY <1>1, <1>3, <1>4, <4>1
      <3> HIDE DEF Of, Number
      <3> QED  BY <1>5, <2>2, <3>1
    <2>3. j \in 1 .. n \/ j = n + 1
      BY <1>1
    <2> QED  BY <2>1, <2>2, <2>3
  <1>12. ASSUME NEW i \in 1 .. Len(t), NEW k \in 1 .. Len(t), i < k
         PROVE  t[i].id # t[k].id /\ t[i].id[1] <= t[k].id[1]
    <2>1. CASE k \in 1 .. l
      <3>1. i \in 1 .. l
        BY <1>1, <1>12, <2>1
      <3>2. s[i].id # s[k].id /\ s[i].id[1] <= s[k].id[1]
        BY <1>12, <2>1, <3>1 DEF Lists, l
      <3> QED  BY <1>4, <2>1, <3>1, <3>2
    <2>2. CASE k \notin 1 .. l
      <3>1. PICK p \in 1 .. q : k = l + p
        BY <1>6, <2>2
      <3>2. t[k] = CanonicalEvent(m, EventParts(m)[p], (l + p) - 1)
        BY <1>5, <3>1, Zenon
      <3>3. t[k].id = <<m.id, EventParts(m)[p]>>
        <4> HIDE DEF m
        <4> QED  BY <3>2, FieldsOf
      <3>4. CASE i \in 1 .. l
        <4>1. PICK j \in 1 .. n : \E r \in 1 .. Number(j) : t[i] = Of(j, r, i)
          BY <1>7, <3>4
        <4>2. PICK r \in 1 .. Number(j) : t[i] = Of(j, r, i)
          BY <4>1
        <4>3. t[i].id = <<messages[j].id, EventParts(messages[j])[r]>>
          BY <4>2, FieldsOf
        <4>4. messages[j].id < m.id /\ messages[j].id \in Nat /\ m.id \in Nat
          <5>1. j \in 1 .. Len(messages) /\ j < n + 1
            BY <1>1
          <5> QED  BY <1>1, <5>1 DEF Upwards
        <4> HIDE DEF m
        <4>5. messages[j].id <= m.id /\ messages[j].id # m.id
          BY <4>4
        <4> QED  BY <3>3, <4>3, <4>5
      <3>5. CASE i \notin 1 .. l
        <4>1. PICK r \in 1 .. q : i = l + r
          BY <1>6, <3>5
        <4>2. t[i] = CanonicalEvent(m, EventParts(m)[r], (l + r) - 1)
          BY <1>5, <4>1, Zenon
        <4>3. t[i].id = <<m.id, EventParts(m)[r]>>
          <5> HIDE DEF m
          <5> QED  BY <4>2, FieldsOf
        <4>4. r # p
          BY <1>12, <3>1, <4>1
        <4>5. EventParts(m)[r] # EventParts(m)[p]
          BY <1>3, <4>4
        <4>6. m.id <= m.id
          BY <1>1 DEF Upwards
        <4> HIDE DEF m
        <4> QED  BY <3>3, <4>3, <4>5, <4>6
      <3> QED  BY <3>4, <3>5
    <2> QED  BY <2>1, <2>2
  <1>13. Lists(messages, n + 1, t)
    BY <1>9, <1>11, <1>12 DEF Lists
  <1> QED  BY <1>13 DEF t, new

\* The events of messages that come in order.
LEMMA EventsList ==
    ASSUME NEW M, NEW messages \in Seq(M), Upwards(messages)
    PROVE  EventsOf(messages) \in Seq(EventsFrom(M)) /\ Lists(messages, Len(messages), EventsOf(messages))
  <1> DEFINE N == Len(messages)
             T == Seq(EventsFrom(M))
             step == [n \in 1 .. N |-> [r \in T |-> r \o ToEvents(messages[n], Len(r))]]
             next(n, r) == IF n = 0 THEN <<>> ELSE r \o ToEvents(messages[n], Len(r))
             F == CHOOSE h : h = [n \in 0 .. N |-> next(n, h[n - 1])]
  <1>1. N \in Nat /\ (\A n \in 1 .. N : messages[n] \in M) /\ <<>> \in T
    OBVIOUS
  <1>2. IsSteps(T, N, step)
    <2>1. ASSUME NEW n \in 1 .. N, NEW r \in T
          PROVE  r \o ToEvents(messages[n], Len(r)) \in T
      <3>1. ToEvents(messages[n], Len(r)) \in T
        BY <1>1, ToEventsIs
      <3> QED  BY <3>1
    <2> HIDE DEF T, N
    <2> QED  BY <2>1 DEF IsSteps
  <1>3. \A n \in 1 .. N, r \in T : step[n][r] = next(n, r)
    <2> HIDE DEF T
    <2> QED  BY <1>1
  <1>4. PICK f : f \in Runs(T, <<>>, N, step)
    <2> HIDE DEF step, N, T
    <2> QED  BY <1>1, <1>2, StepsExist
  <1>5. f = [n \in 0 .. N |-> next(n, f[n - 1])]
    <2> HIDE DEF step, T
    <2>1. f \in [0 .. N -> T] /\ f[0] = <<>> /\ \A n \in 1 .. N : f[n] = step[n][f[n - 1]]
      BY <1>4 DEF Runs
    <2>2. ASSUME NEW n \in 0 .. N
          PROVE  f[n] = next(n, f[n - 1])
      <3>1. n = 0 \/ (n \in 1 .. N /\ n - 1 \in 0 .. N)
        BY <1>1
      <3>2. CASE n = 0
        BY <2>1, <3>2
      <3>3. CASE n \in 1 .. N /\ n - 1 \in 0 .. N
        BY <1>3, <2>1, <3>3
      <3> QED  BY <3>1, <3>2, <3>3
    <2> HIDE DEF next
    <2> QED  BY <2>1, <2>2
  <1>6. F = [n \in 0 .. N |-> next(n, F[n - 1])]
    <2> HIDE DEF next
    <2> QED  BY <1>5
  <1>7. EventsOf(messages) = F[N]
    BY DEF EventsOf
  <1> HIDE DEF F
  <1>8. F[0] = <<>> /\ \A n \in 1 .. N : F[n] = next(n, F[n - 1])
    <2>1. \A n \in 0 .. N : F[n] = next(n, F[n - 1])
      <3> HIDE DEF next, N
      <3> QED  BY <1>6
    <2>2. 0 \in 0 .. N /\ \A n \in 1 .. N : n \in 0 .. N
      BY <1>1
    <2>3. \A r : next(0, r) = <<>>
      OBVIOUS
    <2> HIDE DEF next, N
    <2> QED  BY <2>1, <2>2, <2>3
  <1>9. \A n \in 0 .. N : F[n] \in T
    <2>1. \A n \in 1 .. N : F[n - 1] \in T => F[n] = step[n][F[n - 1]]
      <3> HIDE DEF step, next, T
      <3> QED  BY <1>3, <1>8
    <2>2. F[0] \in T
      BY <1>1, <1>8
    <2> HIDE DEF step, T, N
    <2> QED  BY <1>1, <1>2, <2>1, <2>2, StepsType
  <1>10. \A n \in 1 .. N : F[n] = F[n - 1] \o ToEvents(messages[n], Len(F[n - 1]))
    <2>1. \A n \in 1 .. N : n # 0
      BY <1>1
    <2>2. \A n, r : n # 0 => next(n, r) = r \o ToEvents(messages[n], Len(r))
      OBVIOUS
    <2> HIDE DEF next, N
    <2> QED  BY <1>8, <2>1, <2>2
  <1> DEFINE good == {n \in 0 .. N : Lists(messages, n, F[n])}
  <1> HIDE DEF step, next, T
  <1>11. 0 \in good
    BY <1>1, <1>8 DEF Lists
  <1>12. ASSUME NEW n \in 0 .. N, n < N, n \in good
         PROVE  n + 1 \in good
    <2>1. n + 1 \in 1 .. N /\ (n + 1) - 1 = n /\ n + 1 \in 0 .. N
      BY <1>1, <1>12
    <2>2. F[n + 1] = F[n] \o ToEvents(messages[n + 1], Len(F[n]))
      BY <1>10, <2>1
    <2>3. F[n] \in Seq(EventsFrom(M)) /\ Lists(messages, n, F[n])
      BY <1>9, <1>12 DEF T
    <2>4. Lists(messages, n + 1, F[n] \o ToEvents(messages[n + 1], Len(F[n])))
      BY <1>12, <2>3, ListsGrow
    <2> QED  BY <2>1, <2>2, <2>4
  <1>13. 0 .. N \subseteq good
    <2> HIDE DEF good, N
    <2> QED  BY <1>1, <1>11, <1>12, InductiveUpTo
  <1>14. N \in good /\ N \in 0 .. N
    BY <1>1, <1>13
  <1> QED  BY <1>7, <1>9, <1>14 DEF T

\* Messages that can be told apart by their IDs.
Archive(A) ==
    IsFiniteSet(A) /\ (\A m \in A : IsMessage(m)) /\ \A m, k \in A : m.id = k.id => m = k

LEMMA ByTimeIs ==
    ASSUME NEW A, Archive(A)
    PROVE  /\ ByTime(A) \in Seq(A) /\ Upwards(ByTime(A))
           /\ \A m \in A : \E j \in 1 .. Len(ByTime(A)) : ByTime(A)[j] = m
  <1> DEFINE D == {m.id : m \in A}
             ids == Ascending(D)
             n == Cardinality(D)
             pick(i) == CHOOSE m \in A : m.id = ids[i]
             s == ByTime(A)
  <1>1. D \in SUBSET Nat
    BY DEF Archive, IsMessage
  <1>2. IsFiniteSet(D)
    <2> DEFINE g == [m \in A |-> m.id]
    <2>1. D = {g[m] : m \in A} /\ DOMAIN g = A
      OBVIOUS
    <2> HIDE DEF D, g
    <2> QED  BY <2>1, ImageFinite DEF Archive
  <1>3. /\ ids \in [1 .. n -> D] /\ n \in Nat
        /\ \A x \in D : \E i \in 1 .. n : ids[i] = x
        /\ \A i, j \in 1 .. n : i < j => ids[i] < ids[j]
    <2> HIDE DEF D
    <2> QED  BY <1>1, <1>2, AscendingIs
  <1>4. s = [i \in 1 .. n |-> pick(i)]
    <2>1. s = [i \in DOMAIN ids |-> pick(i)]
      BY DEF ByTime
    <2>2. DOMAIN ids = 1 .. n
      <3> HIDE DEF ids, n, D
      <3> QED  BY <1>3
    <2> HIDE DEF ids, n, D, pick, s
    <2> QED  BY <2>1, <2>2
  <1>5. \A i \in 1 .. n : pick(i) \in A /\ pick(i).id = ids[i]
    <2> TAKE i \in 1 .. n
    <2>1. ids[i] \in D
      <3> HIDE DEF ids, n, D
      <3> QED  BY <1>3
    <2>2. \E m \in A : m.id = ids[i]
      <3> HIDE DEF ids
      <3> QED  BY <2>1
    <2> HIDE DEF ids, n, D
    <2> QED  BY <2>2
  <1> HIDE DEF ids, n, pick, s
  <1>6. s \in Seq(A) /\ Len(s) = n /\ \A i \in 1 .. n : s[i] \in A /\ s[i].id = ids[i]
    <2> HIDE DEF D
    <2>1. \A i \in 1 .. n : s[i] = pick(i)
      BY <1>4
    <2>2. s \in [1 .. n -> A]
      BY <1>4, <1>5
    <2> QED  BY <1>3, <1>5, <2>1, <2>2
  <1>7. Upwards(s)
    <2>1. \A i \in 1 .. n : ids[i] \in Nat
      <3> HIDE DEF D
      <3> QED  BY <1>1, <1>3
    <2> HIDE DEF D
    <2> QED  BY <1>3, <1>6, <2>1 DEF Upwards
  <1>8. ASSUME NEW m \in A
        PROVE  \E j \in 1 .. n : s[j] = m
    <2>1. m.id \in D
      OBVIOUS
    <2> HIDE DEF D
    <2>2. PICK j \in 1 .. n : ids[j] = m.id
      BY <1>3, <2>1
    <2>3. s[j] \in A /\ s[j].id = m.id
      BY <1>6, <2>2
    <2> QED  BY <2>2, <2>3 DEF Archive
  <1> QED  BY <1>6, <1>7, <1>8 DEF s

\* The events of a set of messages: one for each part of each message, numbered from 0, each
\* once and in the order of the messages.
EventsAre(A, s) ==
    /\ s \in Seq(EventsFrom(A))
    /\ \A i \in 1 .. Len(s) : \E m \in A : \E part \in ToSet(EventParts(m)) : s[i] = CanonicalEvent(m, part, i - 1)
    /\ \A m \in A : \A part \in ToSet(EventParts(m)) : \E i \in 1 .. Len(s) : s[i] = CanonicalEvent(m, part, i - 1)
    /\ \A i, k \in 1 .. Len(s) : i < k => s[i].id # s[k].id /\ s[i].id[1] <= s[k].id[1]

LEMMA EventsByTime ==
    ASSUME NEW A, Archive(A)
    PROVE  EventsAre(A, EventsOf(ByTime(A)))
  <1> DEFINE t == ByTime(A)
             s == EventsOf(t)
  <1>1. t \in Seq(A) /\ Upwards(t) /\ \A m \in A : \E j \in 1 .. Len(t) : t[j] = m
    BY ByTimeIs
  <1> HIDE DEF t
  <1>2. s \in Seq(EventsFrom(A)) /\ Lists(t, Len(t), s)
    BY <1>1, EventsList
  <1>3. \A m : DOMAIN EventParts(m) = 1 .. Len(EventParts(m))
    BY PartsOf
  <1>4. \A m : \A p \in 1 .. Len(EventParts(m)) : EventParts(m)[p] \in ToSet(EventParts(m))
    BY <1>3 DEF ToSet
  <1>5. \A m : \A part \in ToSet(EventParts(m)) : \E p \in 1 .. Len(EventParts(m)) : EventParts(m)[p] = part
    BY <1>3 DEF ToSet
  <1> HIDE DEF s
  <1>6. ASSUME NEW i \in 1 .. Len(s)
        PROVE  \E m \in A : \E part \in ToSet(EventParts(m)) : s[i] = CanonicalEvent(m, part, i - 1)
    <2>1. PICK j \in 1 .. Len(t) : \E p \in 1 .. Len(EventParts(t[j])) :
            s[i] = CanonicalEvent(t[j], EventParts(t[j])[p], i - 1)
      BY <1>2, Zenon DEF Lists
    <2>2. PICK p \in 1 .. Len(EventParts(t[j])) : s[i] = CanonicalEvent(t[j], EventParts(t[j])[p], i - 1)
      BY <2>1
    <2>3. t[j] \in A
      BY <1>1
    <2> QED  BY <1>4, <2>2, <2>3, Zenon
  <1>7. ASSUME NEW m \in A, NEW part \in ToSet(EventParts(m))
        PROVE  \E i \in 1 .. Len(s) : s[i] = CanonicalEvent(m, part, i - 1)
    <2>1. PICK j \in 1 .. Len(t) : t[j] = m
      BY <1>1
    <2>2. PICK p \in 1 .. Len(EventParts(m)) : EventParts(m)[p] = part
      BY <1>5
    <2> QED  BY <1>2, <2>1, <2>2, Zenon DEF Lists
  <1>8. \A i, k \in 1 .. Len(s) : i < k => s[i].id # s[k].id /\ s[i].id[1] <= s[k].id[1]
    BY <1>2 DEF Lists
  <1>9. EventsAre(A, s)
    BY <1>2, <1>6, <1>7, <1>8 DEF EventsAre
  <1> QED  BY <1>9 DEF s, t

\* The messages a candidate is compiled from, and what Canonical makes of the records.
Authority(R) == {m \in R : ~Advisory(m)}

LEMMA CanonicalIs ==
    ASSUME NEW R, Archive(R)
    PROVE  Archive(Authority(R)) /\ EventsAre(Authority(R), EventsOf(ByTime(Authority(R))))
  <1>1. Authority(R) \in SUBSET R
    BY DEF Authority
  <1>2. IsFiniteSet(Authority(R))
    BY <1>1, FS_Subset DEF Archive
  <1>3. Archive(Authority(R))
    BY <1>1, <1>2 DEF Archive
  <1> QED  BY <1>3, EventsByTime

----------------------------------------------------------------------------
(* VccSource: what is compiled from the events. *)

LEMMA SizesAdd ==
    ASSUME NEW A, IsFiniteSet(A), NEW B, IsFiniteSet(B)
    PROVE  SizeOf(A) \in Nat /\ SizeOf(B) \in Nat /\ SizeOf(A \cup B) \in Nat
           /\ SizeOf(A \cup B) <= SizeOf(A) + SizeOf(B)
  <1> DEFINE Units(S) == {unit \in S \X (1 .. LongSize) : unit[2] <= unit[1].size}
  <1>1. ASSUME NEW S, IsFiniteSet(S)
        PROVE  IsFiniteSet(Units(S)) /\ SizeOf(S) = Cardinality(Units(S)) /\ SizeOf(S) \in Nat
    <2>1. IsFiniteSet(1 .. LongSize)
      <3>1. 1 \in Int /\ LongSize \in Int
        BY DEF LongSize
      <3> QED  BY <3>1, FS_Interval
    <2>2. IsFiniteSet(S \X (1 .. LongSize))
      BY <1>1, <2>1, FS_Product
    <2>3. Units(S) \in SUBSET (S \X (1 .. LongSize))
      OBVIOUS
    <2>4. IsFiniteSet(Units(S))
      <3> HIDE DEF Units
      <3> QED  BY <2>2, <2>3, FS_Subset
    <2>5. SizeOf(S) = Cardinality(Units(S))
      BY DEF SizeOf
    <2> HIDE DEF Units
    <2> QED  BY <2>4, <2>5, FS_CardinalityType
  <1>2. Units(A \cup B) = Units(A) \cup Units(B)
    OBVIOUS
  <1>3. IsFiniteSet(A \cup B)
    BY FS_Union
  <1> HIDE DEF Units
  <1>4. Cardinality(Units(A) \cup Units(B)) = Cardinality(Units(A)) + Cardinality(Units(B)) - Cardinality(Units(A) \cap Units(B))
    BY <1>1, FS_Union
  <1>5. Units(A) \cap Units(B) \in SUBSET Units(A)
    OBVIOUS
  <1>6. Cardinality(Units(A) \cap Units(B)) \in Nat
    BY <1>1, <1>5, FS_Subset, FS_CardinalityType
  <1>7. SizeOf(A) \in Nat /\ SizeOf(B) \in Nat /\ SizeOf(A \cup B) \in Nat
    BY <1>1, <1>3
  <1>8. SizeOf(A \cup B) = SizeOf(A) + SizeOf(B) - Cardinality(Units(A) \cap Units(B))
    <2>1. SizeOf(A) = Cardinality(Units(A)) /\ SizeOf(B) = Cardinality(Units(B))
          /\ SizeOf(A \cup B) = Cardinality(Units(A \cup B))
      BY <1>1, <1>3
    <2> QED  BY <1>2, <1>4, <2>1, Zenon
  <1> QED  BY <1>6, <1>7, <1>8

LEMMA SizeOfNone == SizeOf({}) = 0
  <1>1. {unit \in {} \X (1 .. LongSize) : unit[2] <= unit[1].size} = {}
    OBVIOUS
  <1> QED  BY <1>1, FS_EmptySet DEF SizeOf

\* Sets of events that can be listed.
Sequenced(episodes, N) ==
    /\ IsFiniteSet(episodes)
    /\ \A episode \in episodes : episode # {} /\ IsFiniteSet(episode) /\ \A e \in episode : e.sequence \in 0 .. N

LEMMA NewestIs ==
    ASSUME NEW N \in Nat, NEW episodes, Sequenced(episodes, N), episodes # {}
    PROVE  Newest(episodes) \in episodes
  <1> DEFINE D == {f.sequence : f \in UNION episodes}
  <1>1. D \in SUBSET (0 .. N) /\ D # {}
    BY DEF Sequenced
  <1>2. Max(D) \in D /\ \A y \in D : y <= Max(D)
    <2> HIDE DEF D
    <2> QED  BY <1>1, BoundedMax
  <1>3. PICK e \in UNION episodes : e.sequence = Max(D)
    BY <1>2
  <1>4. \A f \in UNION episodes : f.sequence <= e.sequence
    <2> TAKE f \in UNION episodes
    <2>1. f.sequence \in D
      OBVIOUS
    <2> HIDE DEF D
    <2> QED  BY <1>2, <1>3, <2>1
  <1>5. \E episode \in episodes : \E g \in episode : \A f \in UNION episodes : f.sequence <= g.sequence
    BY <1>3, <1>4
  <1> QED  BY <1>5 DEF Newest

\* The complete episodes that are still left out, none of which fits any more, or as many
\* selected as there were rounds.
LEMMA SelectOneIs ==
    ASSUME NEW N \in Nat, NEW episodes, Sequenced(episodes, N), NEW room \in Nat,
           NEW chosen \in SUBSET episodes, SizeOf(UNION chosen) <= room
    PROVE  LET next == SelectOne(episodes, room, chosen)
           IN /\ next \in SUBSET episodes /\ SizeOf(UNION next) <= room
              /\ \/ next = chosen /\ \A episode \in episodes \ chosen : ~(SizeOf(UNION (chosen \cup {episode})) <= room)
                 \/ \E episode \in episodes \ chosen : next = chosen \cup {episode}
  <1> DEFINE fitting == {episode \in episodes \ chosen : SizeOf(UNION (chosen \cup {episode})) <= room}
  <1>1. CASE fitting = {}
    BY <1>1 DEF SelectOne
  <1>2. CASE fitting # {}
    <2>1. Sequenced(fitting, N)
      <3>1. fitting \in SUBSET episodes
        OBVIOUS
      <3> HIDE DEF fitting
      <3>2. IsFiniteSet(fitting)
        BY <3>1, FS_Subset DEF Sequenced
      <3> QED  BY <3>1, <3>2 DEF Sequenced
    <2>2. Newest(fitting) \in fitting
      <3> HIDE DEF fitting
      <3> QED  BY <1>2, <2>1, NewestIs
    <2>3. SelectOne(episodes, room, chosen) = chosen \cup {Newest(fitting)}
      BY <1>2 DEF SelectOne
    <2> QED  BY <2>2, <2>3
  <1> QED  BY <1>1, <1>2

\* What the selection ends with: it fits, and nothing else fits with it.
LEMMA SelectedIs ==
    ASSUME NEW N \in Nat, NEW episodes, Sequenced(episodes, N), NEW room \in Nat
    PROVE  LET chosen == Selected(episodes, room)
           IN /\ chosen \in SUBSET episodes /\ SizeOf(UNION chosen) <= room
              /\ \A episode \in episodes \ chosen : ~(SizeOf(UNION (chosen \cup {episode})) <= room)
  <1> DEFINE K == Cardinality(episodes)
             T == {chosen \in SUBSET episodes : SizeOf(UNION chosen) <= room}
             step == [n \in 1 .. K |-> [r \in T |-> SelectOne(episodes, room, r)]]
             next(n, r) == IF n = 0 THEN {} ELSE SelectOne(episodes, room, r)
             F == CHOOSE h : h = [n \in 0 .. K |-> next(n, h[n - 1])]
             Full(r) == \A episode \in episodes \ r : ~(SizeOf(UNION (r \cup {episode})) <= room)
  <1>0. IsFiniteSet(episodes)
    BY DEF Sequenced
  <1>1. K \in Nat /\ {} \in T
    <2>1. K \in Nat
      BY <1>0, FS_CardinalityType
    <2>2. UNION {} = {}
      OBVIOUS
    <2>3. SizeOf(UNION {}) = 0
      BY <2>2, SizeOfNone
    <2> QED  BY <2>1, <2>3
  <1>2. ASSUME NEW r \in T
        PROVE  /\ SelectOne(episodes, room, r) \in T
               /\ \/ SelectOne(episodes, room, r) = r /\ Full(r)
                  \/ \E episode \in episodes \ r : SelectOne(episodes, room, r) = r \cup {episode}
    BY SelectOneIs
  <1> HIDE DEF T
  <1>3. IsSteps(T, K, step)
    BY <1>2 DEF IsSteps
  <1>4. \A n \in 1 .. K, r \in T : step[n][r] = next(n, r)
    BY <1>1
  <1>5. PICK f : f \in Runs(T, {}, K, step)
    <2> HIDE DEF step, K
    <2> QED  BY <1>1, <1>3, StepsExist
  <1>6. f = [n \in 0 .. K |-> next(n, f[n - 1])]
    <2> HIDE DEF step
    <2>1. f \in [0 .. K -> T] /\ f[0] = {} /\ \A n \in 1 .. K : f[n] = step[n][f[n - 1]]
      BY <1>5 DEF Runs
    <2>2. ASSUME NEW n \in 0 .. K
          PROVE  f[n] = next(n, f[n - 1])
      <3>1. n = 0 \/ (n \in 1 .. K /\ n - 1 \in 0 .. K)
        BY <1>1
      <3>2. CASE n = 0
        BY <2>1, <3>2
      <3>3. CASE n \in 1 .. K /\ n - 1 \in 0 .. K
        <4> HIDE DEF next
        <4> QED  BY <1>4, <2>1, <3>3
      <3> QED  BY <3>1, <3>2, <3>3
    <2> HIDE DEF next
    <2> QED  BY <2>1, <2>2
  <1>7. F = [n \in 0 .. K |-> next(n, F[n - 1])]
    <2> HIDE DEF next
    <2> QED  BY <1>6
  <1>8. Selected(episodes, room) = F[K]
    BY DEF Selected
  <1> HIDE DEF F
  <1>9. F[0] = {} /\ \A n \in 1 .. K : F[n] = next(n, F[n - 1])
    <2>1. \A n \in 0 .. K : F[n] = next(n, F[n - 1])
      <3> HIDE DEF next, K
      <3> QED  BY <1>7
    <2>2. 0 \in 0 .. K /\ \A n \in 1 .. K : n \in 0 .. K
      BY <1>1
    <2>3. \A r : next(0, r) = {}
      OBVIOUS
    <2> HIDE DEF next, K
    <2> QED  BY <2>1, <2>2, <2>3
  <1>10. \A n \in 0 .. K : F[n] \in T
    <2>1. \A n \in 1 .. K : F[n - 1] \in T => F[n] = step[n][F[n - 1]]
      <3> HIDE DEF step, next
      <3> QED  BY <1>4, <1>9
    <2>2. F[0] \in T
      BY <1>1, <1>9
    <2> HIDE DEF step, K
    <2> QED  BY <1>1, <1>3, <2>1, <2>2, StepsType
  <1>11. \A n \in 1 .. K : F[n] = SelectOne(episodes, room, F[n - 1])
    <2>1. \A n \in 1 .. K : n # 0
      BY <1>1
    <2>2. \A n, r : n # 0 => next(n, r) = SelectOne(episodes, room, r)
      OBVIOUS
    <2> HIDE DEF next, K
    <2> QED  BY <1>9, <2>1, <2>2
  <1> HIDE DEF step, next, Full
  <1> DEFINE good == {n \in 0 .. K : F[n] \in SUBSET episodes /\ (Full(F[n]) \/ Cardinality(F[n]) = n)}
  <1>12. 0 \in good
    BY <1>1, <1>9, FS_EmptySet
  <1>13. ASSUME NEW n \in 0 .. K, n < K, n \in good
         PROVE  n + 1 \in good
    <2>1. n + 1 \in 1 .. K /\ (n + 1) - 1 = n /\ n + 1 \in 0 .. K /\ n \in Nat
      BY <1>1, <1>13
    <2>2. F[n + 1] = SelectOne(episodes, room, F[n]) /\ F[n] \in T /\ F[n + 1] \in T
      BY <1>10, <1>11, <2>1
    <2>3. F[n + 1] \in SUBSET episodes
      BY <2>2 DEF T
    <2>4. CASE F[n + 1] = F[n] /\ Full(F[n])
      BY <2>1, <2>3, <2>4
    <2>5. CASE \E episode \in episodes \ F[n] : F[n + 1] = F[n] \cup {episode}
      <3>1. PICK episode \in episodes \ F[n] : F[n + 1] = F[n] \cup {episode}
        BY <2>5
      <3>2. ~Full(F[n])
        <4>1. SizeOf(UNION (F[n] \cup {episode})) <= room
          BY <2>2, <3>1 DEF T
        <4> QED  BY <3>1, <4>1 DEF Full
      <3>3. Cardinality(F[n]) = n /\ F[n] \in SUBSET episodes
        BY <1>13, <3>2
      <3>4. IsFiniteSet(F[n])
        BY <1>0, <3>3, FS_Subset
      <3>5. Cardinality(F[n] \cup {episode}) = n + 1
        BY <3>1, <3>3, <3>4, FS_AddElement
      <3> QED  BY <2>1, <2>3, <3>1, <3>5
    <2> QED  BY <1>2, <2>2, <2>4, <2>5
  <1>14. 0 .. K \subseteq good
    <2> HIDE DEF good, K
    <2> QED  BY <1>1, <1>12, <1>13, InductiveUpTo
  <1>15. K \in 0 .. K
    BY <1>1
  <1>16. F[K] \in T /\ (Full(F[K]) \/ Cardinality(F[K]) = K)
    BY <1>10, <1>14, <1>15
  <1>17. Full(F[K])
    <2> SUFFICES ASSUME Cardinality(F[K]) = K PROVE Full(F[K])
      BY <1>16
    <2>1. F[K] \in SUBSET episodes
      BY <1>16 DEF T
    <2>2. F[K] = episodes
      BY <1>0, <2>1, FS_Subset
    <2> HIDE DEF K
    <2> QED  BY <2>2 DEF Full
  <1> HIDE DEF K
  <1> QED  BY <1>8, <1>16, <1>17 DEF T, Full

\* A candidate of these events fits, has what it must, and leaves nothing out that fits.
Best(c) ==
    /\ CandidateSize(c) <= MaxCandidateSize
    /\ {e \in ToSet(c.events) : e.human} \cup UNION c.live \subseteq c.protected
    /\ (UNION (c.live \cup c.selected)) \cup c.protected \subseteq ToSet(c.events)
    /\ \A episode \in Selectable(c.events) \ c.selected :
         CandidateSize(c) + SizeOf(episode) > MaxCandidateSize

LEMMA EpisodesAre ==
    ASSUME NEW A, NEW E, EventsAre(A, E)
    PROVE  /\ Len(E) \in Nat /\ IsFiniteSet(ToSet(E)) /\ Sequenced(Episodes(E), Len(E))
           /\ \A episode \in Episodes(E) : episode \in SUBSET ToSet(E)
  <1> DEFINE M == ToSet(E)
  <1>1. E \in Seq(EventsFrom(A)) /\ Len(E) \in Nat
    BY DEF EventsAre
  <1>2. IsSeq(E)
    BY <1>1, SeqIs
  <1>3. IsFiniteSet(M) /\ M = {E[i] : i \in 1 .. Len(E)}
    BY <1>2, ValuesFinite, SeqDomain DEF ToSet
  <1>4. \A e \in M : e.sequence \in 0 .. Len(E)
    <2> TAKE e \in M
    <2>1. PICK i \in 1 .. Len(E) : e = E[i]
      BY <1>3
    <2>2. PICK m \in A : \E part \in ToSet(EventParts(m)) : E[i] = CanonicalEvent(m, part, i - 1)
      BY Zenon DEF EventsAre
    <2>3. E[i].sequence = i - 1
      BY <2>2, FieldsOf
    <2> QED  BY <1>1, <2>1, <2>3
  <1>5. \A episode \in Episodes(E) : episode \in SUBSET M /\ episode # {}
    BY DEF Episodes
  <1> HIDE DEF M
  <1>6. IsFiniteSet(Episodes(E))
    <2>1. Episodes(E) \in SUBSET SUBSET M
      BY <1>5
    <2>2. IsFiniteSet(SUBSET M)
      BY <1>3, FS_SUBSET
    <2> QED  BY <2>1, <2>2, FS_Subset
  <1>7. \A episode \in Episodes(E) : IsFiniteSet(episode)
    BY <1>3, <1>5, FS_Subset
  <1>8. Sequenced(Episodes(E), Len(E))
    BY <1>4, <1>5, <1>6, <1>7 DEF Sequenced
  <1> QED  BY <1>1, <1>3, <1>5, <1>8 DEF M

LEMMA SizesIn ==
    ASSUME NEW M, IsFiniteSet(M), NEW S \in SUBSET M
    PROVE  IsFiniteSet(S) /\ SizeOf(S) \in Nat
  <1>1. IsFiniteSet(S)
    BY FS_Subset
  <1> QED  BY <1>1, SizesAdd

LEMMA CompileIs ==
    ASSUME NEW A, NEW E, EventsAre(A, E), Compile(E) # NoCandidate
    PROVE  Compile(E).events = E /\ Best(Compile(E))
  <1> DEFINE c == Compile(E)
             M == ToSet(E)
             ready == Selectable(E)
             must == Mandatory(E)
             room == MaxCandidateSize - must
             chosen == Selected(ready, room)
  <1>1. c = [events |-> E, protected |-> Protected(E), live |-> LiveEpisodes(E), selected |-> chosen]
        /\ must <= MaxCandidateSize
    BY DEF Compile, Compiles
  <1>2. Len(E) \in Nat /\ IsFiniteSet(M) /\ Sequenced(Episodes(E), Len(E))
        /\ \A episode \in Episodes(E) : episode \in SUBSET M
    BY EpisodesAre
  <1>3. LiveEpisodes(E) \in SUBSET Episodes(E) /\ ready \in SUBSET Episodes(E)
    BY DEF LiveEpisodes, Selectable
  <1>4. UNION LiveEpisodes(E) \in SUBSET M /\ {e \in M : e.human} \in SUBSET M /\ Protected(E) \in SUBSET M
    BY <1>2, <1>3 DEF Protected
  <1>5. must \in Nat
    <2>1. SizeOf(Protected(E)) \in Nat /\ SizeOf({e \in M : e.human}) \in Nat /\ SizeOf(UNION LiveEpisodes(E)) \in Nat
      <3> HIDE DEF M
      <3> QED  BY <1>2, <1>4, SizesIn
    <2> QED  BY <1>2, <2>1 DEF Mandatory
  <1>6. room \in Nat
    BY <1>1, <1>5, VccSourceAssumption
  <1>7. Sequenced(ready, Len(E))
    <2>1. IsFiniteSet(ready)
      BY <1>2, <1>3, FS_Subset DEF Sequenced
    <2> HIDE DEF ready
    <2> QED  BY <1>2, <1>3, <2>1 DEF Sequenced
  <1>8. /\ chosen \in SUBSET ready /\ SizeOf(UNION chosen) <= room
        /\ \A episode \in ready \ chosen : ~(SizeOf(UNION (chosen \cup {episode})) <= room)
    <2> HIDE DEF ready, room
    <2> QED  BY <1>2, <1>6, <1>7, SelectedIs
  <1>9. UNION chosen \in SUBSET M /\ \A episode \in ready : episode \in SUBSET M
    <2> HIDE DEF ready, chosen, M
    <2> QED  BY <1>2, <1>3, <1>8
  <1> HIDE DEF c, M, ready, must, chosen
  <1>10. IsFiniteSet(UNION chosen) /\ SizeOf(UNION chosen) \in Nat
    BY <1>2, <1>9, SizesIn
  <1>11. CandidateSize(c) = must + SizeOf(UNION chosen)
    BY <1>1 DEF CandidateSize, must
  <1>12. ASSUME NEW episode \in ready \ chosen
         PROVE  CandidateSize(c) + SizeOf(episode) > MaxCandidateSize
    <2>1. IsFiniteSet(episode)
      BY <1>2, <1>9, SizesIn
    <2>2. UNION (chosen \cup {episode}) = (UNION chosen) \cup episode
      OBVIOUS
    <2>3. SizeOf((UNION chosen) \cup episode) <= SizeOf(UNION chosen) + SizeOf(episode)
          /\ SizeOf(episode) \in Nat /\ SizeOf((UNION chosen) \cup episode) \in Nat
      BY <1>10, <2>1, SizesAdd
    <2>4. ~(SizeOf((UNION chosen) \cup episode) <= room)
      BY <1>8, <2>2
    <2> QED  BY <1>5, <1>10, <1>11, <2>3, <2>4, VccSourceAssumption
  <1>13. CandidateSize(c) <= MaxCandidateSize
    BY <1>5, <1>8, <1>10, <1>11, VccSourceAssumption
  <1>14. c.events = E /\ c.protected = Protected(E) /\ c.live = LiveEpisodes(E) /\ c.selected = chosen
    BY <1>1
  <1>15. {e \in ToSet(c.events) : e.human} \cup UNION c.live \subseteq c.protected
    BY <1>14 DEF Protected
  <1>16. (UNION (c.live \cup c.selected)) \cup c.protected \subseteq ToSet(c.events)
    <2>1. UNION (c.live \cup c.selected) = (UNION c.live) \cup UNION c.selected
      OBVIOUS
    <2> QED  BY <1>4, <1>9, <1>14, <2>1 DEF M
  <1>17. \A episode \in Selectable(c.events) \ c.selected : CandidateSize(c) + SizeOf(episode) > MaxCandidateSize
    BY <1>12, <1>14 DEF ready
  <1>18. Best(c)
    BY <1>13, <1>15, <1>16, <1>17 DEF Best
  <1> QED  BY <1>14, <1>18 DEF c

----------------------------------------------------------------------------
(* VccSource: the invariant of the collection. *)

\* The messages come in the order of their IDs.
SessionSorted ==
    /\ IsSeq(session) /\ lastMessage \in Nat
    /\ \A i \in 1 .. Len(session) : IsMessage(session[i]) /\ session[i].id <= lastMessage
    /\ \A i, j \in 1 .. Len(session) : i < j => session[i].id < session[j].id

\* Each message is collected once, and has a mapping.
RecordsOnce(records) ==
    /\ IsSeq(records)
    /\ \A i \in 1 .. Len(records) : IsMessage(records[i]) /\ ~Unsupported(records[i])
    /\ \A i, j \in 1 .. Len(records) : records[i].id = records[j].id => i = j

\* What is collected comes after the cursor, and has what did not change since.
CollectedAfter(j, kept) ==
    /\ ~j.complete
    /\ j.cursor = 0 => j.records = <<>>
    /\ j.cursor # 0 =>
        /\ \A m \in ToSet(j.records) : j.cursor <= m.id
        /\ \A h \in kept : j.cursor <= h[1] => h \in HandlesOf(ToSet(j.records))

\* A candidate is compiled from the messages it has, and from nothing else.
Compiled(c) ==
    c # NoCandidate =>
        /\ Archive(AuthoritativeIn(c)) /\ \A m \in AuthoritativeIn(c) : ~Advisory(m) /\ ~Unsupported(m)
        /\ c = Compile(EventsOf(ByTime(AuthoritativeIn(c))))

JobKeeps(j, kept, last) ==
    /\ j = [at |-> j.at, purpose |-> j.purpose, cursor |-> j.cursor, pages |-> j.pages,
            records |-> j.records, complete |-> j.complete, candidate |-> j.candidate]
    /\ j.at \in {"idle", "fetching", "collected"} /\ j.purpose \in {"compact", "recall"}
    /\ j.pages \in 0 .. MaxPages /\ j.cursor \in 0 .. last
    /\ RecordsOnce(j.records)
    /\ j.at = "fetching" => CollectedAfter(j, kept)
    /\ j.complete => kept \subseteq HandlesOf(ToSet(j.records))
    /\ j.candidate # NoCandidate => j.complete /\ j.purpose = "compact"
    /\ Compiled(j.candidate)

SourceInv ==
    /\ SessionSorted /\ steady \subseteq HandlesOf(ToSet(session))
    /\ JobKeeps(job, steady, lastMessage) /\ Compiled(listed)

LEMMA SessionValues ==
    ASSUME SessionSorted
    PROVE  /\ Len(session) \in Nat /\ ToSet(session) = {session[i] : i \in 1 .. Len(session)}
           /\ \A m \in ToSet(session) : IsMessage(m) /\ m.id <= lastMessage
  <1>1. Len(session) \in Nat /\ DOMAIN session = 1 .. Len(session)
    BY SeqDomain DEF SessionSorted
  <1> QED  BY <1>1 DEF SessionSorted, ToSet

\* What a page has: the messages before the cursor from the next cursor on.
Window(cursor) == {m \in ToSet(session) : cursor = 0 \/ m.id < cursor}

LEMMA PageIs ==
    ASSUME SessionSorted, job.cursor \in Nat
    PROVE  /\ IsSeq(Page) /\ \A i \in 1 .. Len(Page) : Page[i] \in Window(job.cursor)
           /\ \A i, k \in 1 .. Len(Page) : Page[i].id = Page[k].id => i = k
           /\ NextCursor = 0 => ToSet(Page) = Window(job.cursor)
           /\ NextCursor # 0 =>
                /\ NextCursor \in {m.id : m \in Window(job.cursor)}
                /\ ToSet(Page) = {m \in Window(job.cursor) : NextCursor <= m.id}
  <1> DEFINE W == Window(job.cursor)
             b == Keep(session, W)
             n == Len(b)
             first == IF n > VccPageSize THEN n - VccPageSize + 1 ELSE 1
             page == SubSeq(b, first, n)
             X == ToSet(session)
  <1>1. session \in Seq(X)
    BY DEF SessionSorted, IsSeq
  <1>2. PICK place : IsPlaces(session, W, Len(session), b, place)
    <2> HIDE DEF X, W
    <2> QED  BY <1>1, KeepPlaces
  <1>3. b \in Seq(X)
    <2> HIDE DEF X, W
    <2> QED  BY <1>1, KeepPlaces
  <1>4. n \in Nat /\ \A i \in 1 .. n : b[i] \in X
    <2> HIDE DEF X, b
    <2> QED  BY <1>3
  <1>5. Before(job.cursor) = b
    BY DEF Before, Window
  <1>6. Page = page /\ NextCursor = IF n > VccPageSize THEN Page[1].id ELSE 0
    BY <1>5 DEF Page, NextCursor
  <1>7. \A i \in 1 .. n : b[i] \in W /\ place[i] \in 1 .. Len(session) /\ b[i] = session[place[i]]
    BY <1>2 DEF IsPlaces
  <1>8. \A i \in 1 .. n : b[i].id \in Nat \ {0}
    <2> TAKE i \in 1 .. n
    <2>1. place[i] \in 1 .. Len(session) /\ b[i] = session[place[i]]
      BY <1>7
    <2>2. IsMessage(session[place[i]])
      BY <2>1 DEF SessionSorted
    <2> HIDE DEF b
    <2> QED  BY <2>1, <2>2 DEF IsMessage
  <1>9. \A i, k \in 1 .. n : i < k => b[i].id < b[k].id
    <2> SUFFICES ASSUME NEW i \in 1 .. n, NEW k \in 1 .. n, i < k PROVE b[i].id < b[k].id
      OBVIOUS
    <2>1. place[i] < place[k]
      BY <1>2 DEF IsPlaces
    <2>2. b[i] = session[place[i]] /\ b[k] = session[place[k]] /\ place[i] \in 1 .. Len(session) /\ place[k] \in 1 .. Len(session)
      BY <1>7
    <2> HIDE DEF b, n
    <2> QED  BY <2>1, <2>2 DEF SessionSorted
  <1>10. \A m \in W : \E i \in 1 .. n : b[i] = m
    <2> TAKE m \in W
    <2>1. m \in ToSet(session)
      BY DEF Window
    <2>2. PICK k \in 1 .. Len(session) : session[k] = m
      BY <2>1, SessionValues
    <2>3. PICK i \in 1 .. n : place[i] = k
      BY <1>2, <2>2 DEF IsPlaces
    <2> HIDE DEF b, n, W
    <2> QED  BY <1>7, <2>2, <2>3
  <1>11. first \in 1 .. n + 1 /\ VccPageSize \in Nat \ {0}
    <2> HIDE DEF n
    <2> QED  BY <1>4, VccSourceAssumption
  <1> HIDE DEF b, n, W, first
  <1>12. Len(page) = n + 1 - first /\ IsSeq(page) /\ \A i \in 1 .. n + 1 - first : page[i] = b[first + i - 1]
    <2>1. page \in Seq(X) /\ Len(page) = n + 1 - first
      <3> HIDE DEF X
      <3> QED  BY <1>3, <1>4, <1>11 DEF n
    <2>2. \A i \in 1 .. n + 1 - first : page[i] = b[first + i - 1]
      <3> HIDE DEF X
      <3> QED  BY <1>3, <1>4, <1>11 DEF n
    <2> QED  BY <2>1, <2>2, SeqIs
  <1> HIDE DEF page
  <1>13. \A i \in 1 .. Len(page) : first + i - 1 \in 1 .. n /\ first + i - 1 >= first /\ page[i] = b[first + i - 1]
    <2> TAKE i \in 1 .. Len(page)
    <2>1. i \in 1 .. n + 1 - first
      BY <1>12
    <2>2. first + i - 1 \in 1 .. n /\ first + i - 1 >= first
      BY <1>4, <1>11, <2>1
    <2> QED  BY <1>12, <2>1, <2>2
  <1>14. \A i \in first .. n : \E k \in 1 .. Len(page) : page[k] = b[i]
    <2> TAKE i \in first .. n
    <2>1. i - first + 1 \in 1 .. n + 1 - first /\ first + (i - first + 1) - 1 = i
      BY <1>4, <1>11
    <2> QED  BY <1>12, <2>1
  <1>15. ToSet(page) = {page[i] : i \in 1 .. Len(page)}
    BY <1>12, SeqDomain DEF ToSet
  <1>16. \A i \in 1 .. Len(page) : page[i] \in W
    BY <1>7, <1>13
  <1>17. ASSUME NEW i \in 1 .. Len(page), NEW k \in 1 .. Len(page), page[i].id = page[k].id
         PROVE  i = k
    <2> DEFINE x == first + i - 1
               y == first + k - 1
    <2>1. x \in 1 .. n /\ y \in 1 .. n /\ page[i] = b[x] /\ page[k] = b[y]
      BY <1>13
    <2>2. x \in Nat /\ y \in Nat /\ i \in Nat /\ k \in Nat /\ first \in Nat /\ Len(page) \in Nat
      BY <1>4, <1>11, <1>12, <2>1
    <2>3. b[x].id \in Nat /\ b[y].id \in Nat /\ (x < y => b[x].id < b[y].id) /\ (y < x => b[y].id < b[x].id)
      <3> HIDE DEF x, y
      <3> QED  BY <1>8, <1>9, <2>1
    <2>4. x = y
      <3> HIDE DEF x, y
      <3> QED  BY <1>17, <2>1, <2>2, <2>3
    <2> QED  BY <2>2, <2>4
  <1>18. CASE n > VccPageSize
    <2>1. first = n - VccPageSize + 1 /\ first \in 1 .. n /\ Len(page) = VccPageSize /\ 1 \in 1 .. Len(page)
      <3>1. first = n - VccPageSize + 1
        BY <1>18 DEF first
      <3> QED  BY <1>4, <1>11, <1>12, <1>18, <3>1
    <2>2. page[1] = b[first]
      <3>1. first + 1 - 1 = first
        BY <1>4, <2>1
      <3> QED  BY <1>13, <2>1, <3>1
    <2>3. NextCursor = b[first].id /\ NextCursor \in Nat \ {0} /\ b[first] \in W
      BY <1>6, <1>7, <1>8, <1>18, <2>1, <2>2
    <2>4. ToSet(page) = {m \in W : NextCursor <= m.id}
      <3>1. ASSUME NEW i \in 1 .. Len(page)
            PROVE  NextCursor <= page[i].id
        <4> DEFINE x == first + i - 1
        <4>1. x \in 1 .. n /\ x >= first /\ page[i] = b[x]
          BY <1>13
        <4>2. b[x].id \in Nat /\ (first < x => b[first].id < b[x].id)
          <5> HIDE DEF x
          <5> QED  BY <1>8, <1>9, <2>1, <4>1
        <4> HIDE DEF x
        <4> QED  BY <1>4, <2>1, <2>3, <4>1, <4>2
      <3>2. ASSUME NEW m \in W, NextCursor <= m.id
            PROVE  m \in ToSet(page)
        <4>1. PICK i \in 1 .. n : b[i] = m
          BY <1>10
        <4>2. i >= first
          <5>1. i < first => b[i].id < b[first].id
            BY <1>9, <2>1
          <5> QED  BY <1>4, <1>8, <2>1, <2>3, <3>2, <4>1, <5>1
        <4>3. i \in first .. n
          BY <1>4, <2>1, <4>2
        <4> QED  BY <1>14, <1>15, <4>1, <4>3
      <3> QED  BY <1>15, <1>16, <3>1, <3>2
    <2> QED  BY <1>6, <1>12, <1>16, <1>17, <2>3, <2>4 DEF W
  <1>19. CASE ~(n > VccPageSize)
    <2>1. NextCursor = 0 /\ first = 1
      BY <1>6, <1>19 DEF first
    <2>2. \A m \in W : m \in ToSet(page)
      <3> TAKE m \in W
      <3>1. PICK i \in 1 .. n : b[i] = m
        BY <1>10
      <3> QED  BY <1>14, <1>15, <2>1, <3>1
    <2>3. ToSet(page) = W
      BY <1>15, <1>16, <2>2
    <2> QED  BY <1>6, <1>12, <1>16, <1>17, <2>1, <2>3 DEF W
  <1> QED  BY <1>18, <1>19

\* What did not change stays collected, and a change only makes it less.
LEMMA ChangeKeeps ==
    ASSUME SourceInv, SessionChanges, SessionSorted', lastMessage \in 0 .. lastMessage'
    PROVE  SourceInv'
  <1>1. steady' \subseteq steady /\ steady' \subseteq HandlesOf(ToSet(session')) /\ job' = job /\ listed' = listed
    BY DEF SessionChanges
  <1>2. lastMessage \in Nat /\ lastMessage' \in Nat
    BY DEF SessionSorted
  <1>3. JobKeeps(job, steady', lastMessage')
    <2>1. job.cursor \in 0 .. lastMessage'
      BY <1>2 DEF SourceInv, JobKeeps
    <2>2. job.at = "fetching" => CollectedAfter(job, steady')
      BY <1>1 DEF SourceInv, JobKeeps, CollectedAfter
    <2>3. job.complete => steady' \subseteq HandlesOf(ToSet(job.records))
      BY <1>1 DEF SourceInv, JobKeeps
    <2> QED  BY <2>1, <2>2, <2>3 DEF SourceInv, JobKeeps
  <1>4. Compiled(listed)
    BY DEF SourceInv
  <1> QED  BY <1>1, <1>3, <1>4 DEF SourceInv

LEMMA AddKeeps == ASSUME SourceInv, AddMessage PROVE SourceInv'
  <1>1. PICK kind, ended : session' = Append(session, NewMessage(session, lastMessage + 1, kind, ended))
    BY DEF AddMessage
  <1>2. lastMessage' = lastMessage + 1 /\ SessionChanges
    BY DEF AddMessage
  <1> DEFINE m == NewMessage(session, lastMessage + 1, kind, ended)
             n == Len(session)
  <1>3. lastMessage \in Nat /\ IsSeq(session) /\ n \in Nat
    BY SessionValues DEF SourceInv, SessionSorted
  <1>4. IsMessage(m) /\ m.id = lastMessage + 1
    <2>1. \A p : [id |-> lastMessage + 1, kind |-> kind, ended |-> ended, parent |-> p].id = lastMessage + 1
                 /\ IsMessage([id |-> lastMessage + 1, kind |-> kind, ended |-> ended, parent |-> p])
      BY <1>3 DEF IsMessage
    <2> QED  BY <2>1 DEF NewMessage
  <1> HIDE DEF m
  <1> DEFINE X == ToSet(session) \cup {m}
  <1>5. session \in Seq(X) /\ m \in X
    BY <1>3 DEF IsSeq
  <1> HIDE DEF X
  <1>6. session' \in Seq(X) /\ Len(session') = n + 1 /\ session'[n + 1] = m /\ \A i \in 1 .. n : session'[i] = session[i]
    BY <1>1, <1>5 DEF m
  <1>7. \A i \in 1 .. n : IsMessage(session[i]) /\ session[i].id <= lastMessage /\ session[i].id \in Nat
    BY DEF SourceInv, SessionSorted, IsMessage
  <1>8. \A i \in 1 .. n + 1 : i \in 1 .. n \/ i = n + 1
    BY <1>3
  <1>9. \A i \in 1 .. n + 1 : IsMessage(session'[i]) /\ session'[i].id <= lastMessage'
    <2> TAKE i \in 1 .. n + 1
    <2>1. CASE i \in 1 .. n
      BY <1>2, <1>3, <1>6, <1>7, <2>1
    <2>2. CASE i = n + 1
      BY <1>2, <1>3, <1>4, <1>6, <2>2
    <2> QED  BY <1>8, <2>1, <2>2
  <1>10. \A i, j \in 1 .. n + 1 : i < j => session'[i].id < session'[j].id
    <2> SUFFICES ASSUME NEW i \in 1 .. n + 1, NEW j \in 1 .. n + 1, i < j PROVE session'[i].id < session'[j].id
      OBVIOUS
    <2>1. i \in 1 .. n
      BY <1>3
    <2>2. CASE j \in 1 .. n
      <3>1. session[i].id < session[j].id
        BY <2>1, <2>2 DEF SourceInv, SessionSorted
      <3> QED  BY <1>6, <2>1, <2>2, <3>1
    <2>3. CASE j = n + 1
      BY <1>3, <1>4, <1>6, <1>7, <2>1, <2>3
    <2> QED  BY <1>8, <2>2, <2>3
  <1>11. SessionSorted'
    <2>1. IsSeq(session')
      BY <1>6, SeqIs
    <2> QED  BY <1>2, <1>3, <1>6, <1>9, <1>10, <2>1 DEF SessionSorted
  <1> QED  BY <1>2, <1>3, <1>11, ChangeKeeps

LEMMA GoesOnKeeps == ASSUME SourceInv, MessageGoesOn PROVE SourceInv'
  <1> DEFINE n == Len(session)
  <1>1. PICK i \in DOMAIN session :
            session' = [session EXCEPT ![i].ended = TRUE, ![i].kind = IF @ = "empty" THEN "text" ELSE @]
    BY DEF MessageGoesOn
  <1>2. lastMessage' = lastMessage /\ SessionChanges
    BY DEF MessageGoesOn
  <1>3. lastMessage \in Nat /\ IsSeq(session) /\ n \in Nat /\ DOMAIN session = 1 .. n
        /\ session = [k \in 1 .. n |-> session[k]]
    BY SeqDomain DEF SourceInv, SessionSorted
  <1>4. \A k \in 1 .. n : IsMessage(session[k]) /\ session[k].id <= lastMessage
    BY DEF SourceInv, SessionSorted
  <1>5. PICK new : session' = [session EXCEPT ![i] = new] /\ IsMessage(new) /\ new.id = session[i].id
    <2> DEFINE m == session[i]
               new == [m EXCEPT !.ended = TRUE, !.kind = IF m.kind = "empty" THEN "text" ELSE m.kind]
    <2>1. session' = [session EXCEPT ![i] = new]
      BY <1>1
    <2>2. m = [id |-> m.id, kind |-> m.kind, ended |-> m.ended, parent |-> m.parent] /\ m.id \in Nat \ {0}
      BY <1>3, <1>4 DEF IsMessage
    <2> HIDE DEF m
    <2>3. IsMessage(new) /\ new.id = m.id
      <3> DEFINE kind == IF m.kind = "empty" THEN "text" ELSE m.kind
                 r == [id |-> m.id, kind |-> kind, ended |-> TRUE, parent |-> m.parent]
      <3>1. new = [[id |-> m.id, kind |-> m.kind, ended |-> m.ended, parent |-> m.parent] EXCEPT
                      !.ended = TRUE, !.kind = kind]
        BY <2>2, Zenon
      <3>2. new = r
        <4> HIDE DEF new, kind
        <4> QED  BY <3>1 DEF r
      <3>3. r.id = m.id /\ r.kind = kind /\ r.ended = TRUE /\ r.parent = m.parent
        OBVIOUS
      <3> HIDE DEF new, kind
      <3>4. r = [id |-> r.id, kind |-> r.kind, ended |-> r.ended, parent |-> r.parent]
        BY <3>3
      <3>5. IsMessage(r)
        BY <2>2, <3>3, <3>4 DEF IsMessage
      <3> QED  BY <3>2, <3>3, <3>5
    <2> HIDE DEF new
    <2> QED  BY <2>1, <2>3 DEF m
  <1>6. session' = [k \in 1 .. n |-> session'[k]] /\ \A k \in 1 .. n : session'[k] = IF k = i THEN new ELSE session[k]
    BY <1>3, <1>5
  <1>7. IsSeq(session') /\ Len(session') = n
    BY <1>3, <1>6, BuiltSeq
  <1>8. \A k \in 1 .. n : IsMessage(session'[k]) /\ session'[k].id = session[k].id
    BY <1>4, <1>5, <1>6
  <1>9. \A k, j \in 1 .. n : k < j => session'[k].id < session'[j].id
    BY <1>8 DEF SourceInv, SessionSorted
  <1>10. SessionSorted'
    BY <1>2, <1>3, <1>4, <1>7, <1>8, <1>9 DEF SessionSorted
  <1>11. lastMessage \in 0 .. lastMessage'
    BY <1>2, <1>3
  <1> QED  BY <1>2, <1>10, <1>11, ChangeKeeps

LEMMA DeleteKeeps == ASSUME SourceInv, DeleteMessage PROVE SourceInv'
  <1> DEFINE n == Len(session)
             X == ToSet(session)
  <1>1. PICK d \in 2 .. n : session' = RemoveAt(session, d)
    BY DEF DeleteMessage
  <1>2. lastMessage' = lastMessage /\ SessionChanges
    BY DEF DeleteMessage
  <1>3. lastMessage \in Nat /\ session \in Seq(X) /\ n \in Nat
    BY SeqDomain DEF SourceInv, SessionSorted, IsSeq
  <1> HIDE DEF X
  <1> DEFINE from(k) == IF k < d THEN k ELSE k + 1
  <1>4. session' \in Seq(X) /\ Len(session') = n - 1 /\ \A k \in 1 .. n - 1 : session'[k] = session[from(k)]
    <2>1. session' = SubSeq(session, 1, d - 1) \o SubSeq(session, d + 1, n)
      BY <1>1 DEF RemoveAt
    <2> DEFINE a == SubSeq(session, 1, d - 1)
               b == SubSeq(session, d + 1, n)
    <2>2. a \in Seq(X) /\ Len(a) = d - 1 /\ \A k \in 1 .. d - 1 : a[k] = session[k]
      BY <1>3
    <2>3. b \in Seq(X) /\ Len(b) = n - d /\ \A k \in 1 .. n - d : b[k] = session[d + k]
      BY <1>3
    <2> HIDE DEF a, b
    <2>4. session' \in Seq(X) /\ Len(session') = n - 1
      BY <1>3, <2>1, <2>2, <2>3 DEF a, b
    <2>5. ASSUME NEW k \in 1 .. n - 1 PROVE session'[k] = session[from(k)]
      <3>1. CASE k < d
        <4>1. k \in 1 .. d - 1
          BY <1>3, <3>1
        <4>2. session' = a \o b
          BY <2>1 DEF a, b
        <4> QED  BY <2>2, <2>3, <4>1, <4>2, <3>1
      <3>2. CASE ~(k < d)
        <4>1. k - (d - 1) \in 1 .. n - d /\ d + (k - (d - 1)) = k + 1
          BY <1>3, <3>2
        <4>2. session' = a \o b
          BY <2>1 DEF a, b
        <4>3. session'[k] = b[k - (d - 1)]
          BY <1>3, <2>2, <2>3, <4>1, <4>2, <3>2
        <4> QED  BY <2>3, <3>2, <4>1, <4>3
      <3> QED  BY <3>1, <3>2
    <2> QED  BY <2>4, <2>5
  <1>5. \A k \in 1 .. n - 1 : from(k) \in 1 .. n
    BY <1>3
  <1>6. \A k, j \in 1 .. n - 1 : k < j => from(k) < from(j)
    BY <1>3
  <1> HIDE DEF from
  <1>7. \A k \in 1 .. n - 1 : IsMessage(session'[k]) /\ session'[k].id <= lastMessage
    BY <1>4, <1>5 DEF SourceInv, SessionSorted
  <1>8. \A k, j \in 1 .. n - 1 : k < j => session'[k].id < session'[j].id
    BY <1>4, <1>5, <1>6 DEF SourceInv, SessionSorted
  <1>9. SessionSorted'
    <2>1. IsSeq(session')
      BY <1>4, SeqIs
    <2> QED  BY <1>2, <1>3, <1>4, <1>7, <1>8, <2>1 DEF SessionSorted
  <1>10. lastMessage \in 0 .. lastMessage'
    BY <1>2, <1>3
  <1> QED  BY <1>2, <1>9, <1>10, ChangeKeeps

LEMMA NothingCompiled == NoCollection.candidate = NoCandidate /\ Compiled(NoCandidate)
  BY DEF NoCollection, Compiled

LEMMA BeginKeeps ==
    ASSUME SourceInv, NEW purpose \in {"compact", "recall"}, BeginCollection(purpose) PROVE SourceInv'
  <1>1. job' = [NoCollection EXCEPT !.at = "fetching", !.purpose = purpose] /\ steady' = HandlesOf(ToSet(session))
        /\ UNCHANGED <<session, lastMessage>>
    BY DEF BeginCollection
  <1>2. job' = [at |-> "fetching", purpose |-> purpose, cursor |-> 0, pages |-> 0, records |-> <<>>,
                complete |-> FALSE, candidate |-> NoCandidate]
    <2> HIDE DEF NoCandidate
    <2> QED  BY <1>1 DEF NoCollection
  <1> DEFINE j == [at |-> "fetching", purpose |-> purpose, cursor |-> 0, pages |-> 0, records |-> <<>>,
                   complete |-> FALSE, candidate |-> NoCandidate]
  <1>3. j.at = "fetching" /\ j.purpose = purpose /\ j.cursor = 0 /\ j.pages = 0 /\ j.records = <<>>
        /\ j.complete = FALSE /\ j.candidate = NoCandidate
        /\ j = [at |-> j.at, purpose |-> j.purpose, cursor |-> j.cursor, pages |-> j.pages,
                records |-> j.records, complete |-> j.complete, candidate |-> j.candidate]
    OBVIOUS
  <1> HIDE DEF j
  <1>4. RecordsOnce(<<>>)
    <2>1. <<>> \in Seq({}) /\ Len(<<>>) = 0
      OBVIOUS
    <2>2. IsSeq(<<>>)
      BY <2>1, SeqIs
    <2> QED  BY <2>1, <2>2 DEF RecordsOnce
  <1>5. lastMessage \in Nat
    BY DEF SourceInv, SessionSorted
  <1>6. JobKeeps(j, HandlesOf(ToSet(session)), lastMessage)
    <2>1. 0 \in 0 .. MaxPages /\ 0 \in 0 .. lastMessage
      BY <1>5, VccSourceAssumption
    <2>2. CollectedAfter(j, HandlesOf(ToSet(session)))
      BY <1>3 DEF CollectedAfter
    <2> QED  BY <1>3, <1>4, <2>1, <2>2, NothingCompiled DEF JobKeeps
  <1>7. job' = j
    BY <1>2 DEF j
  <1>8. Compiled(listed')
    BY DEF BeginCollection, SourceInv, JobKeeps
  <1>9. SessionSorted'
    BY <1>1 DEF SourceInv, SessionSorted
  <1> QED  BY <1>1, <1>6, <1>7, <1>8, <1>9 DEF SourceInv

LEMMA FailsKeeps == ASSUME SourceInv, CollectionFails PROVE SourceInv'
  <1>1. job' = [job EXCEPT !.at = "collected"] /\ job.at = "fetching"
        /\ UNCHANGED <<session, lastMessage, listed, steady>>
    BY DEF CollectionFails
  <1>2. JobKeeps(job, steady, lastMessage)
    BY DEF SourceInv
  <1>3. job' = [at |-> "collected", purpose |-> job.purpose, cursor |-> job.cursor, pages |-> job.pages,
                records |-> job.records, complete |-> job.complete, candidate |-> job.candidate]
    BY <1>1, <1>2 DEF JobKeeps
  <1>4. job'.at = "collected" /\ job'.purpose = job.purpose /\ job'.cursor = job.cursor /\ job'.pages = job.pages
        /\ job'.records = job.records /\ job'.complete = job.complete /\ job'.candidate = job.candidate
    BY <1>3
  <1>5. JobKeeps(job', steady, lastMessage)
    BY <1>2, <1>3, <1>4 DEF JobKeeps
  <1> QED  BY <1>1, <1>5 DEF SourceInv, SessionSorted

\* The records with one more page.
LEMMA RecordsGrow ==
    ASSUME SourceInv, job.at = "fetching", PageFits
    PROVE  LET records == job.records \o Page
           IN /\ RecordsOnce(records) /\ Archive(ToSet(records))
              /\ ToSet(records) = ToSet(job.records) \cup ToSet(Page)
  <1> DEFINE r == job.records
             p == Page
             q == r \o p
             X == ToSet(r) \cup ToSet(p)
  <1>1. SessionSorted /\ job.cursor \in Nat /\ RecordsOnce(r) /\ CollectedAfter(job, steady)
    <2>1. SessionSorted /\ RecordsOnce(r) /\ CollectedAfter(job, steady) /\ job.cursor \in 0 .. lastMessage
      BY DEF SourceInv, JobKeeps
    <2> QED  BY <2>1 DEF SessionSorted
  <1>2. /\ IsSeq(p) /\ \A i \in 1 .. Len(p) : p[i] \in Window(job.cursor)
        /\ \A i, k \in 1 .. Len(p) : p[i].id = p[k].id => i = k
    BY <1>1, PageIs
  <1>3. IsSeq(r) /\ Len(r) \in Nat /\ Len(p) \in Nat
        /\ DOMAIN r = 1 .. Len(r) /\ DOMAIN p = 1 .. Len(p)
    BY <1>1, <1>2, SeqDomain DEF RecordsOnce
  <1>4. ToSet(r) = {r[i] : i \in 1 .. Len(r)} /\ ToSet(p) = {p[i] : i \in 1 .. Len(p)}
    BY <1>3 DEF ToSet
  <1>5. \A i \in 1 .. Len(p) : IsMessage(p[i]) /\ ~Unsupported(p[i])
    <2>1. \A m \in Window(job.cursor) : IsMessage(m)
      BY <1>1, SessionValues DEF Window
    <2>2. \A m \in ToSet(p) : ~Unsupported(m)
      BY DEF PageFits
    <2> HIDE DEF p
    <2> QED  BY <1>2, <1>4, <2>1, <2>2
  <1>6. \A i \in 1 .. Len(r), k \in 1 .. Len(p) : r[i].id # p[k].id
    <2> SUFFICES ASSUME NEW i \in 1 .. Len(r), NEW k \in 1 .. Len(p), r[i].id = p[k].id PROVE FALSE
      OBVIOUS
    <2>1. job.cursor # 0
      <3>1. r = <<>> => Len(r) = 0
        OBVIOUS
      <3>2. Len(r) # 0
        BY <1>3
      <3> QED  BY <1>1, <3>1, <3>2 DEF CollectedAfter
    <2>2. p[k].id < job.cursor
      <3>1. p[k] \in Window(job.cursor)
        BY <1>2
      <3> HIDE DEF p
      <3> QED  BY <2>1, <3>1 DEF Window
    <2>3. job.cursor <= r[i].id
      <3>1. r[i] \in ToSet(r)
        BY <1>4
      <3> QED  BY <1>1, <2>1, <3>1 DEF CollectedAfter
    <2>4. p[k].id \in Nat
      BY <1>5 DEF IsMessage
    <2> HIDE DEF r, p
    <2> QED  BY <1>1, <2>2, <2>3, <2>4
  <1> HIDE DEF r, p
  <1>7. r \in Seq(X) /\ p \in Seq(X)
    BY <1>2, <1>3 DEF IsSeq
  <1> HIDE DEF X
  <1>8. q \in Seq(X) /\ Len(q) = Len(r) + Len(p) /\ (\A i \in 1 .. Len(r) : q[i] = r[i])
        /\ \A k \in 1 .. Len(p) : q[Len(r) + k] = p[k]
    BY <1>3, <1>7
  <1> HIDE DEF q
  <1>9. \A i \in 1 .. Len(q) : i \in 1 .. Len(r) \/ \E k \in 1 .. Len(p) : i = Len(r) + k
    <2> TAKE i \in 1 .. Len(q)
    <2>1. CASE i > Len(r)
      <3>1. i - Len(r) \in 1 .. Len(p) /\ i = Len(r) + (i - Len(r))
        BY <1>3, <1>8, <2>1
      <3> QED  BY <3>1
    <2> QED  BY <1>3, <1>8, <2>1
  <1>10. (\A i \in 1 .. Len(r) : i \in 1 .. Len(q)) /\ \A k \in 1 .. Len(p) : Len(r) + k \in 1 .. Len(q)
    BY <1>3, <1>8
  <1>11. IsSeq(q) /\ DOMAIN q = 1 .. Len(q)
    BY <1>8, SeqIs, SeqDomain
  <1>12. ToSet(q) = ToSet(r) \cup ToSet(p)
    <2>1. ToSet(q) = {q[i] : i \in 1 .. Len(q)}
      BY <1>11 DEF ToSet
    <2>2. \A m \in ToSet(q) : m \in ToSet(r) \/ m \in ToSet(p)
      <3> TAKE m \in ToSet(q)
      <3>1. PICK i \in 1 .. Len(q) : m = q[i]
        BY <2>1
      <3>2. CASE i \in 1 .. Len(r)
        BY <1>4, <1>8, <3>1, <3>2
      <3>3. CASE \E k \in 1 .. Len(p) : i = Len(r) + k
        BY <1>4, <1>8, <3>1, <3>3
      <3> QED  BY <1>9, <3>2, <3>3
    <2>3. (\A m \in ToSet(r) : m \in ToSet(q)) /\ \A m \in ToSet(p) : m \in ToSet(q)
      BY <1>4, <1>8, <1>10, <2>1
    <2> QED  BY <2>2, <2>3
  <1>13. \A i \in 1 .. Len(q) : IsMessage(q[i]) /\ ~Unsupported(q[i])
    BY <1>1, <1>5, <1>8, <1>9 DEF RecordsOnce
  <1>14. \A i, k \in 1 .. Len(q) : q[i].id = q[k].id => i = k
    <2> SUFFICES ASSUME NEW i \in 1 .. Len(q), NEW k \in 1 .. Len(q), q[i].id = q[k].id PROVE i = k
      OBVIOUS
    <2>1. CASE i \in 1 .. Len(r) /\ k \in 1 .. Len(r)
      BY <1>1, <1>8, <2>1 DEF RecordsOnce
    <2>2. CASE i \in 1 .. Len(r) /\ \E x \in 1 .. Len(p) : k = Len(r) + x
      BY <1>6, <1>8, <2>2
    <2>3. CASE k \in 1 .. Len(r) /\ \E x \in 1 .. Len(p) : i = Len(r) + x
      BY <1>6, <1>8, <2>3
    <2>4. ASSUME NEW x \in 1 .. Len(p), NEW y \in 1 .. Len(p), i = Len(r) + x, k = Len(r) + y PROVE i = k
      <3>1. p[x].id = p[y].id
        BY <1>8, <2>4
      <3>2. x = y
        BY <1>2, <3>1
      <3> QED  BY <2>4, <3>2
    <2> QED  BY <1>9, <2>1, <2>2, <2>3, <2>4
  <1>15. RecordsOnce(q)
    BY <1>11, <1>13, <1>14 DEF RecordsOnce
  <1>16. Archive(ToSet(q))
    <2>1. IsFiniteSet(ToSet(q)) /\ ToSet(q) = {q[i] : i \in 1 .. Len(q)}
      BY <1>11, ValuesFinite DEF ToSet
    <2> QED  BY <1>13, <1>14, <2>1 DEF Archive
  <1> QED  BY <1>12, <1>15, <1>16 DEF q, r, p

\* Each message of a candidate has an event in it.
LEMMA AuthoritativeIs ==
    ASSUME NEW A, NEW c, EventsAre(A, c.events), \A m \in A : ~Unsupported(m)
    PROVE  AuthoritativeIn(c) = A
  <1> DEFINE E == c.events
  <1>1. E \in Seq(EventsFrom(A))
    BY DEF EventsAre
  <1>2. ToSet(E) = {E[i] : i \in 1 .. Len(E)}
    <2> HIDE DEF E
    <2> QED  BY <1>1 DEF ToSet
  <1>3. ASSUME NEW i \in 1 .. Len(E)
        PROVE  E[i].record \in A
    <2>1. PICK m \in A : \E part \in ToSet(EventParts(m)) : E[i] = CanonicalEvent(m, part, i - 1)
      BY Zenon DEF EventsAre
    <2>2. E[i].record = m
      <3>1. PICK part : E[i] = CanonicalEvent(m, part, i - 1)
        BY <2>1
      <3> QED  BY <3>1, FieldsOf
    <2> QED  BY <2>2
  <1>4. ASSUME NEW m \in A
        PROVE  \E i \in 1 .. Len(E) : E[i].record = m
    <2>1. Len(EventParts(m)) \in 0 .. 3 /\ Len(EventParts(m)) > 0 /\ DOMAIN EventParts(m) = 1 .. Len(EventParts(m))
      BY PartsOf
    <2>2. 1 \in DOMAIN EventParts(m)
      BY <2>1
    <2>3. EventParts(m)[1] \in ToSet(EventParts(m))
      BY <2>2 DEF ToSet
    <2>4. PICK i \in 1 .. Len(E) : E[i] = CanonicalEvent(m, EventParts(m)[1], i - 1)
      BY <2>3, Zenon DEF EventsAre
    <2>5. E[i].record = m
      BY <2>4, FieldsOf
    <2> QED  BY <2>5
  <1>5. AuthoritativeIn(c) = {e.record : e \in ToSet(E)}
    BY DEF AuthoritativeIn
  <1> HIDE DEF E
  <1>6. \A x : x \in AuthoritativeIn(c) => x \in A
    BY <1>2, <1>3, <1>5
  <1>7. \A m \in A : m \in AuthoritativeIn(c)
    <2> TAKE m \in A
    <2>1. PICK i \in 1 .. Len(E) : E[i].record = m
      BY <1>4
    <2>2. E[i] \in ToSet(E)
      BY <1>2
    <2> QED  BY <1>5, <2>1, <2>2
  <1> QED  BY <1>6, <1>7

LEMMA CanonicalCompiles ==
    ASSUME NEW records, Archive(ToSet(records)), \A m \in ToSet(records) : ~Unsupported(m)
    PROVE  Compiled(Compile(Canonical(records)))
  <1> DEFINE A == Authority(ToSet(records))
             E == EventsOf(ByTime(A))
             c == Compile(E)
  <1>1. Archive(A) /\ EventsAre(A, E)
    BY CanonicalIs
  <1>2. \A m \in A : ~Advisory(m) /\ ~Unsupported(m)
    BY DEF Authority
  <1>3. Canonical(records) = E
    BY DEF Canonical, Authority
  <1> HIDE DEF A
  <1>4. ASSUME c # NoCandidate
        PROVE  AuthoritativeIn(c) = A
    <2>1. c.events = E
      <3> HIDE DEF E
      <3> QED  BY <1>1, <1>4, CompileIs
    <2> HIDE DEF c, E
    <2>2. EventsAre(A, c.events)
      BY <1>1, <2>1
    <2> QED  BY <1>2, <2>2, AuthoritativeIs
  <1>5. c # NoCandidate => c = Compile(EventsOf(ByTime(AuthoritativeIn(c))))
    <2> SUFFICES ASSUME c # NoCandidate PROVE c = Compile(EventsOf(ByTime(AuthoritativeIn(c))))
      OBVIOUS
    <2>1. c = Compile(EventsOf(ByTime(A)))
      OBVIOUS
    <2>2. AuthoritativeIn(c) = A
      BY <1>4
    <2> HIDE DEF c
    <2> QED  BY <2>1, <2>2
  <1> HIDE DEF c
  <1>6. Compiled(c)
    BY <1>1, <1>2, <1>4, <1>5 DEF Compiled
  <1> HIDE DEF E
  <1> QED  BY <1>3, <1>6 DEF c

LEMMA FetchKeeps == ASSUME SourceInv, FetchPage PROVE SourceInv'
  <1> DEFINE q == job.records \o Page
  <1>1. PageFits /\ NextCursor # 0 /\ job' = [job EXCEPT !.pages = @ + 1, !.records = @ \o Page, !.cursor = NextCursor]
        /\ UNCHANGED <<session, lastMessage, listed, steady>>
    BY DEF FetchPage
  <1>2. JobKeeps(job, steady, lastMessage) /\ job.at = "fetching" /\ SessionSorted /\ steady \subseteq HandlesOf(ToSet(session))
    BY <1>1 DEF SourceInv, PageFits
  <1>3. job' = [at |-> "fetching", purpose |-> job.purpose, cursor |-> NextCursor, pages |-> job.pages + 1,
                records |-> q, complete |-> job.complete, candidate |-> job.candidate]
    BY <1>1, <1>2 DEF JobKeeps
  <1> HIDE DEF q
  <1>4. job'.at = "fetching" /\ job'.purpose = job.purpose /\ job'.cursor = NextCursor /\ job'.pages = job.pages + 1
        /\ job'.records = q /\ job'.complete = job.complete /\ job'.candidate = job.candidate
    BY <1>3
  <1>5. RecordsOnce(q) /\ ToSet(q) = ToSet(job.records) \cup ToSet(Page)
    BY <1>1, <1>2, RecordsGrow DEF q
  <1>6. CollectedAfter(job, steady) /\ job.cursor \in Nat /\ lastMessage \in Nat
    <2>1. job.cursor \in 0 .. lastMessage
      BY <1>2 DEF JobKeeps
    <2> QED  BY <1>2, <2>1 DEF JobKeeps, SessionSorted
  <1>7. /\ NextCursor \in {m.id : m \in Window(job.cursor)}
        /\ ToSet(Page) = {m \in Window(job.cursor) : NextCursor <= m.id}
    BY <1>1, <1>2, <1>6, PageIs
  <1>8. \A m \in ToSet(session) : m.id \in Nat \ {0} /\ m.id <= lastMessage
    BY <1>2, SessionValues DEF IsMessage
  <1>9. NextCursor \in Nat \ {0} /\ NextCursor <= lastMessage /\ (job.cursor # 0 => NextCursor < job.cursor)
    BY <1>7, <1>8 DEF Window
  <1>10. CollectedAfter(job', steady)
    <2>1. \A m \in ToSet(q) : NextCursor <= m.id
      <3> TAKE m \in ToSet(q)
      <3>1. CASE m \in ToSet(Page)
        BY <1>7, <3>1
      <3>2. CASE m \in ToSet(job.records)
        <4>1. job.cursor # 0 /\ job.cursor <= m.id
          <5>1. job.records # <<>>
            BY <3>2 DEF ToSet
          <5> QED  BY <1>6, <3>2, <5>1 DEF CollectedAfter
        <4>2. m.id \in Nat
          <5>1. RecordsOnce(job.records)
            BY <1>2 DEF JobKeeps
          <5>2. DOMAIN job.records = 1 .. Len(job.records)
            BY <5>1, SeqDomain DEF RecordsOnce
          <5> QED  BY <3>2, <5>1, <5>2 DEF RecordsOnce, ToSet, IsMessage
        <4> QED  BY <1>6, <1>9, <4>1, <4>2
      <3> QED  BY <1>5, <3>1, <3>2
    <2>2. ASSUME NEW h \in steady, NextCursor <= h[1]
          PROVE  h \in HandlesOf(ToSet(q))
      <3>1. PICK m \in ToSet(session) :
              ~Advisory(m) /\ \E part \in ToSet(EventParts(m)) : h = ArchiveHandle(m, part)
        BY <1>2, HandlesAre
      <3>2. h[1] = m.id /\ m.id \in Nat
        BY <1>8, <3>1, HandleTells
      <3>3. CASE m \in Window(job.cursor)
        <4>1. m \in ToSet(q)
          BY <1>5, <1>7, <2>2, <3>2, <3>3
        <4> QED  BY <3>1, <4>1, HandlesAre
      <3>4. CASE m \notin Window(job.cursor)
        <4>1. job.cursor # 0 /\ job.cursor <= h[1]
          BY <1>6, <3>2, <3>4 DEF Window
        <4>2. h \in HandlesOf(ToSet(job.records))
          BY <1>6, <4>1 DEF CollectedAfter
        <4> QED  BY <1>5, <4>2, HandlesAre
      <3> QED  BY <3>3, <3>4
    <2>3. ~job'.complete
      BY <1>4, <1>6 DEF CollectedAfter
    <2> QED  BY <1>4, <1>9, <2>1, <2>2, <2>3 DEF CollectedAfter
  <1>11. job.pages + 1 \in 0 .. MaxPages
    <2>1. job.pages \in 0 .. MaxPages /\ job.pages < MaxPages
      BY <1>1, <1>2 DEF JobKeeps, PageFits
    <2> QED  BY <2>1, VccSourceAssumption
  <1>12. NextCursor \in 0 .. lastMessage
    BY <1>6, <1>9
  <1>13. JobKeeps(job', steady, lastMessage)
    BY <1>2, <1>3, <1>4, <1>5, <1>6, <1>10, <1>11, <1>12 DEF JobKeeps, CollectedAfter
  <1> QED  BY <1>1, <1>13 DEF SourceInv, SessionSorted

LEMMA LastKeeps == ASSUME SourceInv, LastPage PROVE SourceInv'
  <1> DEFINE q == job.records \o Page
             c == IF job.purpose = "recall" THEN NoCandidate ELSE Compile(Canonical(q))
  <1>1. PageFits /\ NextCursor = 0 /\ UNCHANGED <<session, lastMessage, listed, steady>>
    BY DEF LastPage
  <1>2. job' = [job EXCEPT !.at = "collected", !.complete = TRUE, !.records = @ \o Page, !.candidate = c]
    BY DEF LastPage
  <1>3. JobKeeps(job, steady, lastMessage) /\ job.at = "fetching" /\ SessionSorted /\ steady \subseteq HandlesOf(ToSet(session))
    BY <1>1 DEF SourceInv, PageFits
  <1> HIDE DEF c
  <1>4. job' = [at |-> "collected", purpose |-> job.purpose, cursor |-> job.cursor, pages |-> job.pages,
                records |-> q, complete |-> TRUE, candidate |-> c]
    BY <1>2, <1>3 DEF JobKeeps
  <1> HIDE DEF q
  <1>5. job'.at = "collected" /\ job'.purpose = job.purpose /\ job'.cursor = job.cursor /\ job'.pages = job.pages
        /\ job'.records = q /\ job'.complete = TRUE /\ job'.candidate = c
    BY <1>4
  <1>6. RecordsOnce(q) /\ Archive(ToSet(q)) /\ ToSet(q) = ToSet(job.records) \cup ToSet(Page)
    BY <1>1, <1>3, RecordsGrow DEF q
  <1>7. CollectedAfter(job, steady) /\ job.cursor \in Nat
    <2>1. job.cursor \in 0 .. lastMessage
      BY <1>3 DEF JobKeeps
    <2> QED  BY <1>3, <2>1 DEF JobKeeps, SessionSorted
  <1>8. ToSet(Page) = Window(job.cursor)
    BY <1>1, <1>3, <1>7, PageIs
  <1>9. ASSUME NEW h \in steady
        PROVE  h \in HandlesOf(ToSet(q))
    <2>1. PICK m \in ToSet(session) :
            ~Advisory(m) /\ \E part \in ToSet(EventParts(m)) : h = ArchiveHandle(m, part)
      BY <1>3, HandlesAre
    <2>2. h[1] = m.id /\ m.id \in Nat
      BY <1>3, <2>1, SessionValues, HandleTells DEF IsMessage
    <2>3. CASE m \in Window(job.cursor)
      <3>1. m \in ToSet(q)
        BY <1>6, <1>8, <2>3
      <3> QED  BY <2>1, <3>1, HandlesAre
    <2>4. CASE m \notin Window(job.cursor)
      <3>1. job.cursor # 0 /\ job.cursor <= h[1]
        BY <1>7, <2>2, <2>4 DEF Window
      <3>2. h \in HandlesOf(ToSet(job.records))
        BY <1>7, <3>1 DEF CollectedAfter
      <3> QED  BY <1>6, <3>2, HandlesAre
    <2> QED  BY <2>3, <2>4
  <1>10. \A m \in ToSet(q) : ~Unsupported(m)
    <2>1. DOMAIN q = 1 .. Len(q)
      BY <1>6, SeqDomain DEF RecordsOnce
    <2> QED  BY <1>6, <2>1 DEF RecordsOnce, ToSet
  <1>11. Compiled(c)
    BY <1>6, <1>10, CanonicalCompiles, NothingCompiled DEF c
  <1>12. c # NoCandidate => job.purpose = "compact"
    BY <1>3 DEF JobKeeps, c
  <1>13. JobKeeps(job', steady, lastMessage)
    BY <1>3, <1>4, <1>5, <1>6, <1>9, <1>11, <1>12 DEF JobKeeps
  <1> QED  BY <1>1, <1>13 DEF SourceInv, SessionSorted

LEMMA SourceInitial == SourceInit => SourceInv
  <1> SUFFICES ASSUME SourceInit PROVE SourceInv
    OBVIOUS
  <1>0. PICK n \in 1 .. FirstMessages :
            \E kinds \in [1 .. n -> MessageKinds], ended \in [1 .. n -> BOOLEAN] : session = FirstSession(kinds, ended)
    BY DEF SourceInit
  <1>1. PICK kinds \in [1 .. n -> MessageKinds], ended \in [1 .. n -> BOOLEAN] : session = FirstSession(kinds, ended)
    BY <1>0
  <1> DEFINE parent(i) == IF kinds[i] \in Humans THEN 0 ELSE Max({j \in 1 .. i - 1 : kinds[j] = "user"})
             message(i) == [id |-> i, kind |-> kinds[i], ended |-> ended[i], parent |-> parent(i)]
  <1>2. n \in Nat
    BY <1>1
  <1>3. session = [i \in 1 .. n |-> message(i)]
    BY <1>1 DEF FirstSession
  <1>4. \A i \in 1 .. n : IsMessage(message(i)) /\ message(i).id = i
    <2> HIDE DEF parent
    <2> QED  BY <1>2 DEF IsMessage
  <1> HIDE DEF message
  <1>5. IsSeq(session) /\ Len(session) = n
    <2>1. session = [i \in 1 .. n |-> session[i]]
      BY <1>3
    <2> QED  BY <1>2, <2>1, BuiltSeq
  <1>6. lastMessage = n /\ job = NoCollection /\ listed = NoCandidate /\ steady = {}
    BY <1>5 DEF SourceInit
  <1>7. SessionSorted
    <2>1. \A i \in 1 .. n : session[i] = message(i)
      BY <1>3
    <2>2. \A i \in 1 .. n : i <= n
      BY <1>2
    <2> QED  BY <1>2, <1>4, <1>5, <1>6, <2>1, <2>2 DEF SessionSorted
  <1>8. RecordsOnce(<<>>)
    <2>1. <<>> \in Seq({}) /\ Len(<<>>) = 0
      OBVIOUS
    <2>2. IsSeq(<<>>)
      BY <2>1, SeqIs
    <2> QED  BY <2>1, <2>2 DEF RecordsOnce
  <1>9. JobKeeps(NoCollection, {}, n)
    <2>1. 0 \in 0 .. MaxPages /\ 0 \in 0 .. n
      BY <1>2, VccSourceAssumption
    <2> QED  BY <1>8, <2>1, NothingCompiled DEF JobKeeps, NoCollection
  <1> QED  BY <1>6, <1>7, <1>9, NothingCompiled DEF SourceInv

LEMMA SourceNextKeeps == SourceInv /\ [SourceNext]_sourcevars => SourceInv'
  <1> SUFFICES ASSUME SourceInv, [SourceNext]_sourcevars PROVE SourceInv'
    OBVIOUS
  <1>1. CASE UNCHANGED sourcevars
    BY <1>1 DEF sourcevars, SourceInv, SessionSorted
  <1>2. CASE SourceNext
    BY <1>2, BeginKeeps, FailsKeeps, FetchKeeps, LastKeeps, AddKeeps, GoesOnKeeps, DeleteKeeps DEF SourceNext
  <1> QED  BY <1>1, <1>2

LEMMA SourceInvariant == SourceSpec => []SourceInv
  BY SourceInitial, SourceNextKeeps, PTL DEF SourceSpec

\* The session stays in the order of its IDs, and a collection within its limits collects
\* each message once (vcc-opencode-session.ts:84-149).
THEOREM SourceTypeCorrect == SourceSpec => []SourceTypeOK
  <1>1. SourceInv => SourceTypeOK
    <2> SUFFICES ASSUME SourceInv PROVE SourceTypeOK
      OBVIOUS
    <2> DEFINE r == job.records
               n == Len(r)
               D == {m.id : m \in ToSet(r)}
    <2>1. DOMAIN session = 1 .. Len(session)
      BY SeqDomain DEF SourceInv, SessionSorted
    <2>2. RecordsOnce(r) /\ JobKeeps(job, steady, lastMessage)
      BY DEF SourceInv, JobKeeps
    <2>3. n \in Nat /\ DOMAIN r = 1 .. n
      BY <2>2, SeqDomain DEF RecordsOnce
    <2> HIDE DEF r
    <2>4. Cardinality(D) = n
      <3> DEFINE f == [i \in 1 .. n |-> r[i].id]
      <3>1. \A i, j \in 1 .. n : f[i] = f[j] => i = j
        BY <2>2 DEF RecordsOnce
      <3>2. ToSet(r) = {r[i] : i \in 1 .. n}
        BY <2>3 DEF ToSet
      <3>3. f \in [1 .. n -> D] /\ \A x \in D : \E i \in 1 .. n : f[i] = x
        BY <3>2
      <3> HIDE DEF f, D, n
      <3>4. f \in Bijection(1 .. n, D)
        BY <3>1, <3>3 DEF Bijection, Injection, IsInjective, Surjection
      <3>5. ExistsBijection(1 .. n, D)
        BY <3>4 DEF ExistsBijection
      <3>6. IsFiniteSet(1 .. n) /\ Cardinality(1 .. n) = n
        BY <2>3, FS_Interval
      <3> QED  BY <3>5, <3>6, FS_Bijection
    <2>5. job.pages <= MaxPages /\ job.cursor <= lastMessage
      BY <2>2 DEF JobKeeps
    <2>6. \A i \in DOMAIN session : session[i].id <= lastMessage
      BY <2>1 DEF SourceInv, SessionSorted
    <2>7. \A i, j \in DOMAIN session : i < j => session[i].id < session[j].id
      BY <2>1 DEF SourceInv, SessionSorted
    <2>8. job.at \in {"idle", "fetching", "collected"}
          /\ (job.candidate # NoCandidate => job.complete /\ job.purpose = "compact")
      BY <2>2 DEF JobKeeps
    <2> QED  BY <2>4, <2>5, <2>6, <2>7, <2>8 DEF SourceTypeOK, r
  <1> QED  BY <1>1, SourceInvariant, PTL

\* The records of the collection and what Canonical makes of them.
LEMMA JobCanonical ==
    ASSUME SourceInv
    PROVE  EventsAre(Authority(ToSet(job.records)), Canonical(job.records))
  <1> DEFINE r == job.records
  <1>1. RecordsOnce(r)
    BY DEF SourceInv, JobKeeps
  <1>2. IsSeq(r) /\ DOMAIN r = 1 .. Len(r)
    BY <1>1, SeqDomain DEF RecordsOnce
  <1> HIDE DEF r
  <1>3. Archive(ToSet(r))
    <2>1. IsFiniteSet(ToSet(r)) /\ ToSet(r) = {r[i] : i \in 1 .. Len(r)}
      BY <1>2, ValuesFinite DEF ToSet
    <2> QED  BY <1>1, <2>1 DEF Archive, RecordsOnce
  <1>4. Canonical(r) = EventsOf(ByTime(Authority(ToSet(r))))
    BY DEF Canonical, Authority
  <1> QED  BY <1>3, <1>4, CanonicalIs DEF r

\* A handle whose event stayed is that of an event of the source, which is indexed.
LEMMA StayedIsListed ==
    ASSUME SourceInv, job.complete, NEW h \in steady
    PROVE  \E e \in ToSet(Canonical(job.records)) : e.handle = h /\ Indexed(e, job.records)
  <1> DEFINE A == Authority(ToSet(job.records))
             E == Canonical(job.records)
  <1>1. PICK m \in ToSet(job.records) :
          ~Advisory(m) /\ \E part \in ToSet(EventParts(m)) : h = ArchiveHandle(m, part)
    BY HandlesAre DEF SourceInv, JobKeeps
  <1>2. PICK part \in ToSet(EventParts(m)) : h = ArchiveHandle(m, part)
    BY <1>1
  <1>3. EventsAre(A, E) /\ m \in A
    BY <1>1, JobCanonical DEF Authority
  <1> HIDE DEF A, E
  <1>4. PICK i \in 1 .. Len(E) : E[i] = CanonicalEvent(m, part, i - 1)
    BY <1>3, Zenon DEF EventsAre
  <1>5. E[i] \in ToSet(E)
    <2>1. E \in Seq(EventsFrom(A))
      BY <1>3 DEF EventsAre
    <2> QED  BY <2>1 DEF ToSet
  <1>6. E[i].id = <<m.id, part>> /\ E[i].handle = h
    BY <1>2, <1>4, FieldsOf
  <1>7. E[i].id[1] = m.id /\ E[i].handle = ArchiveHandle(m, E[i].id[2])
    BY <1>2, <1>6
  <1>8. Indexed(E[i], job.records)
    BY <1>7 DEF Indexed
  <1> QED  BY <1>5, <1>6, <1>8 DEF E

\* A complete source has every authoritative event that stayed as it was while it was
\* collected, once and in the order of the messages (vcc-opencode-session.ts:84-169).
THEOREM SourceIsCovered == SourceSpec => []SourceCovers
  <1>1. SourceInv => SourceCovers
    <2> SUFFICES ASSUME SourceInv, job.complete PROVE SourceCovers
      BY DEF SourceCovers
    <2> DEFINE E == Canonical(job.records)
    <2>1. steady \subseteq {e.handle : e \in ToSet(E)}
      BY StayedIsListed
    <2>2. EventsAre(Authority(ToSet(job.records)), E)
      BY JobCanonical
    <2> HIDE DEF E
    <2>3. DOMAIN E = 1 .. Len(E)
      <3>1. E \in Seq(EventsFrom(Authority(ToSet(job.records))))
        BY <2>2 DEF EventsAre
      <3> QED  BY <3>1
    <2>4. \A i, j \in DOMAIN E : i < j => E[i].id # E[j].id /\ E[i].id[1] <= E[j].id[1]
      BY <2>2, <2>3 DEF EventsAre
    <2> QED  BY <2>1, <2>4 DEF SourceCovers, E
  <1> QED  BY <1>1, SourceInvariant, PTL

\* Two collections that saw the same authoritative messages compile the same candidate,
\* whatever came in between and however the pages were cut (vcc.ts:719-724).
THEOREM CandidatesAreStable == SourceSpec => []CandidateStable
  <1>1. SourceInv => CandidateStable
    BY Zenon DEF SourceInv, JobKeeps, Compiled, CandidateStable
  <1> QED  BY <1>1, SourceInvariant, PTL

LEMMA CompiledIs ==
    ASSUME NEW c, Compiled(c), c # NoCandidate
    PROVE  EventsAre(AuthoritativeIn(c), c.events) /\ Best(c)
  <1> DEFINE A == AuthoritativeIn(c)
             E == EventsOf(ByTime(A))
  <1>1. Archive(A) /\ c = Compile(E)
    BY DEF Compiled
  <1> HIDE DEF A
  <1>2. EventsAre(A, E)
    BY <1>1, EventsByTime
  <1> HIDE DEF E
  <1>3. c.events = E /\ Best(c)
    BY <1>1, <1>2, CompileIs
  <1> QED  BY <1>2, <1>3 DEF A

\* A candidate fits, has every human event and every open episode, and no complete episode
\* that would still fit is left out (vcc.ts:394-418, 487-505).
THEOREM CandidatesAreBest == SourceSpec => []CandidateBest
  <1>1. SourceInv => CandidateBest
    <2> SUFFICES ASSUME SourceInv, job.candidate # NoCandidate PROVE CandidateBest
      BY DEF CandidateBest
    <2>1. Best(job.candidate)
      BY CompiledIs DEF SourceInv, JobKeeps
    <2> QED  BY <2>1 DEF CandidateBest, Best
  <1> QED  BY <1>1, SourceInvariant, PTL

\* Each event of what EventsAre describes is that of a message and a part.
LEMMA EventIs ==
    ASSUME NEW A, NEW s, EventsAre(A, s), NEW e \in ToSet(s)
    PROVE  \E m \in A : \E part, k : e = CanonicalEvent(m, part, k)
  <1>1. s \in Seq(EventsFrom(A))
    BY DEF EventsAre
  <1>2. PICK i \in 1 .. Len(s) : s[i] = e
    BY <1>1 DEF ToSet
  <1>3. PICK m \in A : \E part \in ToSet(EventParts(m)) : e = CanonicalEvent(m, part, i - 1)
    BY <1>2, Zenon DEF EventsAre
  <1> QED  BY <1>3, Zenon

\* A recall from a complete source answers every handle a candidate listed whose event is
\* still what it was: with the item, or with the refusal of one that is larger than
\* max_bytes, for any history and any limit (README.md:35-36,
\* vcc-opencode-recall.ts:52-128, server.ts:845-857).
THEOREM RecallsAnswer == SourceSpec => []RecallAnswers
  <1>1. SourceInv => RecallAnswers
    <2> SUFFICES ASSUME SourceInv, job.purpose = "recall", job.complete,
                        NEW e \in ToSet(listed.events), NEW max_bytes \in 1 .. LongSize,
                        e.handle \in steady
                 PROVE  RecallStatus(e.handle, max_bytes) = IF e.size > max_bytes THEN "oversized" ELSE "ok"
      BY DEF RecallAnswers
    <2> DEFINE F == EntriesOf(e.handle)
    <2>1. listed # NoCandidate
      <3>1. ToSet(<<>>) = {}
        BY DEF ToSet
      <3> QED  BY <3>1 DEF NoCandidate
    <2>2. EventsAre(AuthoritativeIn(listed), listed.events)
      BY <2>1, CompiledIs DEF SourceInv
    <2>3. PICK m, part, k : e = CanonicalEvent(m, part, k)
      BY <2>2, EventIs
    <2>4. ASSUME NEW f \in F
          PROVE  f.size = e.size
      <3>1. f \in ToSet(Canonical(job.records)) /\ f.handle = e.handle
        BY DEF EntriesOf
      <3>2. PICK n, other, j : f = CanonicalEvent(n, other, j)
        BY <3>1, JobCanonical, EventIs
      <3> QED  BY <2>3, <3>1, <3>2, SameHandleSameSize
    <2>5. F # {}
      BY StayedIsListed DEF EntriesOf
    <2> HIDE DEF F
    <2>6. (\E f \in F : f.size > max_bytes) <=> e.size > max_bytes
      BY <2>4, <2>5
    <2> QED  BY <2>5, <2>6 DEF RecallStatus, F
  <1> QED  BY <1>1, SourceInvariant, PTL
=============================================================================
